---------------------------- MODULE FilesProofs ----------------------------
(***************************************************************************)
(* Proofs that a Reader implements PushbackText, for any texts, chunks and *)
(* pushes, as long as nothing is put back directly after a line; that      *)
(* streams keep what is written to them, as long as no closed stream is    *)
(* used once its descriptor is another one's; and that copies, by system   *)
(* calls or from a Reader, are whole and leave their sources alone.        *)
(***************************************************************************)
EXTENDS Files, SequenceTheorems, TLAPS

(* Characters that wait in the buffer after -unread are at its start ...   *)
AtStart == pc = "idle" /\ buffer # Nil /\ (asked # "line" \/ answer = Nil) => pos = 0

(* ... and a buffer that has been read to its end was so by -read-line,    *)
(* but for empty strings.                                                  *)
UsedUp == pc = "idle" /\ buffer # Nil /\ Buffered = <<>> => asked = "line" \/ answer = <<>>

StringsStayOpen == ~open => kind # "string"

IInv == TypeOK /\ AtStart /\ UsedUp /\ StringsStayOpen
-----------------------------------------------------------------------------
(* Facts about sequences. *)
LEMMA DropIs ==
  ASSUME NEW S, NEW s \in Seq(S), NEW n \in 0 .. Len(s)
  PROVE  /\ Drop(s, n) \in Seq(S)
         /\ Len(Drop(s, n)) = Len(s) - n
         /\ \A i \in 1 .. Len(s) - n : Drop(s, n)[i] = s[n + i]
<1>1. Len(s) \in Nat /\ n \in Nat /\ \A i \in n + 1 .. Len(s) : s[i] \in S
  BY LenProperties, ElementOfSeq
<1>2. /\ Drop(s, n) \in Seq(S)
      /\ Len(Drop(s, n)) = IF n + 1 <= Len(s) THEN Len(s) - (n + 1) + 1 ELSE 0
      /\ \A i \in 1 .. Len(s) - (n + 1) + 1 : Drop(s, n)[i] = s[(n + 1) + i - 1]
  BY <1>1, SubSeqProperties DEF Drop
<1> QED BY <1>1, <1>2

LEMMA TakeIs ==
  ASSUME NEW S, NEW s \in Seq(S), NEW n \in 0 .. Len(s)
  PROVE  /\ SubSeq(s, 1, n) \in Seq(S)
         /\ Len(SubSeq(s, 1, n)) = n
         /\ \A i \in 1 .. n : SubSeq(s, 1, n)[i] = s[i]
<1>1. Len(s) \in Nat /\ n \in Nat /\ \A i \in 1 .. n : s[i] \in S
  BY LenProperties, ElementOfSeq
<1>2. /\ SubSeq(s, 1, n) \in Seq(S)
      /\ Len(SubSeq(s, 1, n)) = IF 1 <= n THEN n - 1 + 1 ELSE 0
      /\ \A i \in 1 .. n - 1 + 1 : SubSeq(s, 1, n)[i] = s[1 + i - 1]
  BY <1>1, SubSeqProperties
<1> QED BY <1>1, <1>2

LEMMA DropNone ==
  ASSUME NEW S, NEW s \in Seq(S)
  PROVE  Drop(s, 0) = s
BY SubSeqFull DEF Drop

LEMMA DropAll ==
  ASSUME NEW S, NEW s \in Seq(S)
  PROVE  Drop(s, Len(s)) = <<>>
BY LenProperties, SubSeqEmpty DEF Drop

LEMMA TakeDrop ==
  ASSUME NEW S, NEW s \in Seq(S), NEW n \in 0 .. Len(s)
  PROVE  SubSeq(s, 1, n) \o Drop(s, n) = s
<1>1. Len(s) \in Nat
  BY LenProperties
<1>2. 1 \in 1 .. Len(s) + 1 /\ n \in (1 - 1) .. Len(s) /\ Len(s) \in n .. Len(s)
  BY <1>1
<1>3. SubSeq(s, 1, n) \o SubSeq(s, n + 1, Len(s)) = SubSeq(s, 1, Len(s))
  BY <1>2, ConcatAdjacentSubSeq, Zenon
<1> QED BY <1>3, SubSeqFull DEF Drop

LEMMA Associative ==
  \A s, t, u \in Seq(Chars) : (s \o t) \o u = s \o (t \o u)
BY ConcatAssociative

LEMMA DropConcat ==
  ASSUME NEW S, NEW s \in Seq(S), NEW t \in Seq(S), NEW n \in 0 .. Len(s)
  PROVE  Drop(s \o t, n) = Drop(s, n) \o t
<1>0. Len(s) \in Nat /\ Len(t) \in Nat
  BY LenProperties
<1>1. /\ s \o t \in Seq(S) /\ Len(s \o t) = Len(s) + Len(t)
      /\ \A i \in 1 .. Len(s) + Len(t) : (s \o t)[i] = IF i <= Len(s) THEN s[i] ELSE t[i - Len(s)]
  BY ConcatProperties
<1>2. n \in 0 .. Len(s \o t)
  BY <1>0, <1>1
<1>3. /\ Drop(s \o t, n) \in Seq(S) /\ Len(Drop(s \o t, n)) = Len(s) + Len(t) - n
      /\ \A i \in 1 .. Len(s) + Len(t) - n : Drop(s \o t, n)[i] = (s \o t)[n + i]
  <2>1. /\ Drop(s \o t, n) \in Seq(S) /\ Len(Drop(s \o t, n)) = Len(s \o t) - n
        /\ \A i \in 1 .. Len(s \o t) - n : Drop(s \o t, n)[i] = (s \o t)[n + i]
    BY <1>1, <1>2, DropIs, Zenon
  <2>2. Len(s \o t) = Len(s) + Len(t)
    BY <1>1
  <2> QED BY <2>1, <2>2
<1>4. /\ Drop(s, n) \in Seq(S) /\ Len(Drop(s, n)) = Len(s) - n
      /\ \A i \in 1 .. Len(s) - n : Drop(s, n)[i] = s[n + i]
  BY DropIs
<1>5. /\ Drop(s, n) \o t \in Seq(S) /\ Len(Drop(s, n) \o t) = Len(s) - n + Len(t)
      /\ \A i \in 1 .. Len(s) - n + Len(t) :
           (Drop(s, n) \o t)[i] = IF i <= Len(s) - n THEN Drop(s, n)[i] ELSE t[i - (Len(s) - n)]
  <2>1. /\ Drop(s, n) \o t \in Seq(S) /\ Len(Drop(s, n) \o t) = Len(Drop(s, n)) + Len(t)
        /\ \A i \in 1 .. Len(Drop(s, n)) + Len(t) :
             (Drop(s, n) \o t)[i] =
               IF i <= Len(Drop(s, n)) THEN Drop(s, n)[i] ELSE t[i - Len(Drop(s, n))]
    BY <1>4, ConcatProperties, Zenon
  <2> QED BY <1>4, <2>1, Zenon
<1>6. ASSUME NEW i \in 1 .. Len(Drop(s \o t, n))
      PROVE  Drop(s \o t, n)[i] = (Drop(s, n) \o t)[i]
  <2>1. i \in 1 .. Len(s) + Len(t) - n /\ n + i \in 1 .. Len(s) + Len(t)
    BY <1>0, <1>3
  <2>2. Drop(s \o t, n)[i] = IF n + i <= Len(s) THEN s[n + i] ELSE t[n + i - Len(s)]
    BY <1>1, <1>3, <2>1
  <2>3. CASE n + i <= Len(s)
    <3>1. i \in 1 .. Len(s) - n
      BY <1>0, <2>1, <2>3
    <3> QED BY <1>0, <1>4, <1>5, <2>1, <2>2, <2>3, <3>1
  <2>4. CASE n + i > Len(s)
    BY <1>0, <1>5, <2>1, <2>2, <2>4, SMTT(30)
  <2>5. n + i <= Len(s) \/ n + i > Len(s)
    BY <1>0, <2>1
  <2> QED BY <2>3, <2>4, <2>5
<1>7. Len(Drop(s \o t, n)) = Len(Drop(s, n) \o t)
  BY <1>0, <1>3, <1>5
<1> QED BY <1>3, <1>5, <1>6, <1>7, SeqEqual, Zenon

LEMMA TakeConcat ==
  ASSUME NEW S, NEW s \in Seq(S), NEW t \in Seq(S), NEW n \in 0 .. Len(s)
  PROVE  SubSeq(s \o t, 1, n) = SubSeq(s, 1, n)
<1>0. Len(s) \in Nat
  BY LenProperties
<1>1. CASE n = 0
  BY <1>1, SubSeqEmpty
<1>2. CASE n # 0
  BY <1>0, <1>2, SubSeqOfConcat1
<1> QED BY <1>1, <1>2
-----------------------------------------------------------------------------
(* The parts of the text, and what fetching does to them. *)
LEMMA Parts ==
  ASSUME TypeOK
  PROVE  /\ Buffered \in Text /\ Pending \in Text /\ Rest \in Text
         /\ buffer = Nil => Rest = Pending
         /\ buffer # Nil => Len(Buffered) = Len(buffer) - pos
<1> USE ReaderAssumption DEF Text
<1>1. <<>> \in Text
  BY EmptySeq
<1>2. buffer # Nil => Buffered \in Text /\ Len(Buffered) = Len(buffer) - pos
  <2> SUFFICES ASSUME buffer # Nil
               PROVE  Buffered \in Text /\ Len(Buffered) = Len(buffer) - pos
    OBVIOUS
  <2>1. buffer \in Seq(Chars) /\ pos \in 0 .. Len(buffer)
    BY LenProperties DEF TypeOK
  <2>2. Drop(buffer, pos) \in Seq(Chars) /\ Len(Drop(buffer, pos)) = Len(buffer) - pos
    BY <2>1, DropIs
  <2> QED BY <2>2 DEF Buffered
<1>3. Buffered \in Text /\ (buffer = Nil => Buffered = <<>>)
  BY <1>1, <1>2 DEF Buffered
<1>4. Pending \in Text
  BY <1>1 DEF Pending, TypeOK
<1>5. Rest \in Text
  BY <1>3, <1>4, ConcatProperties DEF Rest
<1>6. buffer = Nil => Rest = Pending
  BY <1>3, <1>4, ConcatEmptySeq DEF Rest
<1> QED BY <1>2, <1>3, <1>4, <1>5, <1>6

LEMMA ChunkSplits ==
  ASSUME TypeOK, StringsStayOpen, RawReads, Fetch, open' = open, kind' = kind
  PROVE  /\ Chunk \in Text
         /\ Pending = source
         /\ source' \in Text \cup {Nil}
         /\ source' = Nil => kind = "string"
         /\ Pending' \in Text
         /\ Chunk \o Pending' = Pending
         /\ Chunk = <<>> => Pending = <<>>
<1> USE ReaderAssumption DEF Text, TypeOK
<1>1. source \in Text /\ open /\ Pending = source
  BY DEF RawReads, RawThrows, RawNil, StringsStayOpen, Pending
<1>2. CASE kind = "string"
  <2>1. Chunk = source /\ Pending' = <<>>
    BY <1>2 DEF Chunk, Fetch, Pending
  <2>2. source \o <<>> = source /\ <<>> \in Text
    BY <1>1, ConcatEmptySeq, EmptySeq
  <2> QED BY <1>1, <1>2, <2>1, <2>2 DEF Fetch
<1>3. CASE kind # "string"
  <2>1. source # <<>> /\ Len(source) \in Nat /\ Len(source) # 0
    BY <1>1, <1>3, EmptySeq DEF RawReads, RawNil
  <2>2. \E n \in 1 .. Len(source) : Chunk = SubSeq(source, 1, n)
    <3>1. CASE Len(source) <= limit
      BY <1>1, <1>3, <2>1, <3>1, SubSeqFull DEF Chunk
    <3>2. CASE Len(source) > limit
      BY <1>3, <2>1, <3>2 DEF Chunk
    <3> QED BY <2>1, <3>1, <3>2
  <2>3. PICK n \in 1 .. Len(source) : Chunk = SubSeq(source, 1, n)
    BY <2>2
  <2>4. n \in 0 .. Len(source) /\ n \in Nat
    BY <2>1
  <2>5. Chunk \in Text /\ Len(Chunk) = n
    BY <1>1, <2>3, <2>4, TakeIs
  <2>6. source' = Drop(source, n)
    BY <1>3, <2>5 DEF Fetch
  <2>7. source' \in Text
    BY <1>1, <2>4, <2>6, DropIs
  <2>8. Pending' = source'
    BY <1>1, <2>7 DEF Pending
  <2>9. Chunk \o source' = source
    BY <1>1, <2>3, <2>4, <2>6, TakeDrop
  <2>10. Chunk # <<>>
    BY <2>5, <2>1, EmptySeq
  <2> QED BY <1>1, <1>3, <2>5, <2>7, <2>8, <2>9, <2>10
<1> QED BY <1>2, <1>3

(* What -read gives is the front of the text. *)
LEMMA TakeSplits ==
  ASSUME TypeOK, StringsStayOpen, ~Throws, ~HasNone, Take, open' = open, kind' = kind
  PROVE  /\ Available \in Text
         /\ source' \in Text \cup {Nil}
         /\ source' = Nil => kind = "string"
         /\ Pending' \in Text
         /\ Available \o Pending' = Rest
         /\ Available = <<>> => Rest = <<>> \/ (buffer # Nil /\ Buffered = <<>>)
<1>1. CASE buffer = Nil
  <2>1. RawReads /\ Fetch /\ Available = Chunk /\ Rest = Pending
    BY <1>1, Parts DEF Throws, HasNone, RawReads, Take, Available
  <2>2. /\ Chunk \in Text
        /\ source' \in Text \cup {Nil}
        /\ source' = Nil => kind = "string"
        /\ Pending' \in Text
        /\ Chunk \o Pending' = Pending
        /\ Chunk = <<>> => Pending = <<>>
    BY <2>1, ChunkSplits, Zenon
  <2>3. Available = Chunk /\ Rest = Pending
    BY <2>1
  <2> QED BY <2>2, <2>3
<1>2. CASE buffer # Nil
  <2>1. Available = Buffered /\ source' = source /\ Pending' = Pending
    BY <1>2 DEF Take, Available, Pending
  <2>2. source \in Text \cup {Nil} /\ (source = Nil => kind = "string")
    BY DEF TypeOK
  <2> QED BY <1>2, <2>1, <2>2, Parts DEF Rest
<1> QED BY <1>1, <1>2

(* Where raw-read throws, or has nothing, no text is left but the buffer. *)
LEMMA NonePending ==
  ASSUME TypeOK, StringsStayOpen, RawThrows \/ RawNil
  PROVE  Pending = <<>> /\ Rest = Buffered
<1>1. Pending = <<>>
  BY DEF RawThrows, RawNil, Pending, StringsStayOpen, TypeOK
<1> QED BY <1>1, Parts, ConcatEmptySeq DEF Rest, Text

LEMMA Front ==
  ASSUME NEW a \in Text, NEW q \in Text, a # <<>>
  PROVE  /\ Len(a) \in 1 .. Len(a \o q)
         /\ SubSeq(a \o q, 1, Len(a)) = a
         /\ Drop(a \o q, Len(a)) = q
         /\ a \o q # <<>>
         /\ (a \o q)[1] = a[1]
         /\ First(a) = <<(a \o q)[1]>>
<1> USE DEF Text
<1>1. Len(a) \in Nat \ {0} /\ Len(q) \in Nat
  BY EmptySeq, LenProperties
<1>2. /\ a \o q \in Seq(Chars) /\ Len(a \o q) = Len(a) + Len(q)
      /\ \A i \in 1 .. Len(a) + Len(q) : (a \o q)[i] = IF i <= Len(a) THEN a[i] ELSE q[i - Len(a)]
  BY ConcatProperties
<1>3. Len(a) \in 0 .. Len(a) /\ Len(a) \in 1 .. Len(a \o q) /\ 1 \in 1 .. Len(a) + Len(q)
  BY <1>1, <1>2
<1>4. SubSeq(a \o q, 1, Len(a)) = SubSeq(a, 1, Len(a))
  BY <1>3, TakeConcat
<1>5. Drop(a \o q, Len(a)) = Drop(a, Len(a)) \o q
  BY <1>3, DropConcat
<1>6. a \o q # <<>>
  BY <1>3, <1>2, <1>1, EmptySeq
<1>7. (a \o q)[1] = a[1]
  BY <1>1, <1>2, <1>3
<1> QED BY <1>3, <1>4, <1>5, <1>6, <1>7, SubSeqFull, DropAll, ConcatEmptySeq DEF First

LEMMA DropDrop ==
  ASSUME NEW S, NEW s \in Seq(S), NEW m \in 0 .. Len(s), NEW n \in 0 .. Len(s) - m
  PROVE  Drop(Drop(s, m), n) = Drop(s, m + n)
<1>0. Len(s) \in Nat /\ m \in Nat /\ n \in Nat /\ m + n \in 0 .. Len(s)
  BY LenProperties
<1>1. /\ Drop(s, m) \in Seq(S) /\ Len(Drop(s, m)) = Len(s) - m
      /\ \A i \in 1 .. Len(s) - m : Drop(s, m)[i] = s[m + i]
  BY DropIs
<1>2. n \in 0 .. Len(Drop(s, m))
  BY <1>1
<1>3. /\ Drop(Drop(s, m), n) \in Seq(S) /\ Len(Drop(Drop(s, m), n)) = Len(Drop(s, m)) - n
      /\ \A i \in 1 .. Len(Drop(s, m)) - n : Drop(Drop(s, m), n)[i] = Drop(s, m)[n + i]
  BY <1>1, <1>2, DropIs, Zenon
<1>4. /\ Drop(s, m + n) \in Seq(S) /\ Len(Drop(s, m + n)) = Len(s) - (m + n)
      /\ \A i \in 1 .. Len(s) - (m + n) : Drop(s, m + n)[i] = s[m + n + i]
  BY <1>0, DropIs, Zenon
<1>5. Len(Drop(Drop(s, m), n)) = Len(Drop(s, m + n))
  <2>1. Len(Drop(Drop(s, m), n)) = (Len(s) - m) - n
    BY <1>1, <1>3
  <2>2. (Len(s) - m) - n = Len(s) - (m + n)
    BY <1>0
  <2> QED BY <1>4, <2>1, <2>2
<1>6. ASSUME NEW i \in 1 .. Len(Drop(Drop(s, m), n))
      PROVE  Drop(Drop(s, m), n)[i] = Drop(s, m + n)[i]
  <2>1. i \in 1 .. Len(Drop(s, m)) - n /\ n + i \in 1 .. Len(s) - m
        /\ i \in 1 .. Len(s) - (m + n)
    BY <1>0, <1>1, <1>3
  <2>2. Drop(Drop(s, m), n)[i] = s[m + (n + i)] /\ Drop(s, m + n)[i] = s[m + n + i]
    BY <1>1, <1>3, <1>4, <2>1
  <2>3. m + (n + i) = m + n + i
    BY <1>0, <2>1
  <2> QED BY <2>2, <2>3
<1> QED BY <1>3, <1>4, <1>5, <1>6, SeqEqual, Zenon

LEMMA TakeOfDrop ==
  ASSUME NEW S, NEW s \in Seq(S), NEW m \in 0 .. Len(s), NEW n \in 0 .. Len(s) - m
  PROVE  SubSeq(Drop(s, m), 1, n) = SubSeq(s, m + 1, m + n)
<1>0. Len(s) \in Nat /\ m \in Nat /\ n \in Nat /\ m + n \in 0 .. Len(s)
      /\ m + 1 \in Int /\ m + n \in Int
  BY LenProperties
<1>1. /\ Drop(s, m) \in Seq(S) /\ Len(Drop(s, m)) = Len(s) - m
      /\ \A i \in 1 .. Len(s) - m : Drop(s, m)[i] = s[m + i]
  BY DropIs
<1>2. n \in 0 .. Len(Drop(s, m))
  BY <1>1
<1>3. /\ SubSeq(Drop(s, m), 1, n) \in Seq(S) /\ Len(SubSeq(Drop(s, m), 1, n)) = n
      /\ \A i \in 1 .. n : SubSeq(Drop(s, m), 1, n)[i] = Drop(s, m)[i]
  BY <1>1, <1>2, TakeIs, Zenon
<1>4. \A i \in m + 1 .. m + n : s[i] \in S
  <2>1. ASSUME NEW i \in m + 1 .. m + n PROVE i \in 1 .. Len(s)
    BY <1>0
  <2> QED BY <2>1, ElementOfSeq
<1>5. /\ SubSeq(s, m + 1, m + n) \in Seq(S)
      /\ Len(SubSeq(s, m + 1, m + n)) = IF m + 1 <= m + n THEN (m + n) - (m + 1) + 1 ELSE 0
      /\ \A i \in 1 .. (m + n) - (m + 1) + 1 : SubSeq(s, m + 1, m + n)[i] = s[(m + 1) + i - 1]
  <2> DEFINE a == m + 1
             b == m + n
  <2>1. a \in Int /\ b \in Int /\ \A i \in a .. b : s[i] \in S
    BY <1>0, <1>4
  <2>2. /\ SubSeq(s, a, b) \in Seq(S)
        /\ Len(SubSeq(s, a, b)) = IF a <= b THEN b - a + 1 ELSE 0
        /\ \A i \in 1 .. b - a + 1 : SubSeq(s, a, b)[i] = s[a + i - 1]
    <3> HIDE DEF a, b
    <3> QED BY <2>1, SubSeqProperties
  <2> QED BY <2>2
<1>6. Len(SubSeq(s, m + 1, m + n)) = n
  BY <1>0, <1>5
<1>7. ASSUME NEW i \in 1 .. n
      PROVE  SubSeq(Drop(s, m), 1, n)[i] = SubSeq(s, m + 1, m + n)[i]
  <2>1. i \in 1 .. Len(s) - m /\ i \in 1 .. (m + n) - (m + 1) + 1 /\ (m + 1) + i - 1 = m + i
    BY <1>0
  <2> QED BY <1>1, <1>3, <1>5, <2>1
<1> QED BY <1>3, <1>5, <1>6, <1>7, SeqEqual, Zenon
-----------------------------------------------------------------------------
(* The invariant, and with it the refinement, action by action.            *)
LEMMA InitOk == Init => IInv /\ Behind!Init
<1> SUFFICES ASSUME Init PROVE IInv /\ Behind!Init
  OBVIOUS
<1> USE ReaderAssumption
<1>1. TypeOK
  BY EmptySeq DEF Init, TypeOK, Text
<1>2. IInv
  BY <1>1 DEF Init, IInv, AtStart, UsedUp, StringsStayOpen
<1>3. Rest \in Text
  BY <1>1, Parts
<1> QED BY <1>2, <1>3 DEF Init, Behind!Init, Behind!Text, Text

LEMMA SameRest == UNCHANGED <<source, open, buffer, pos>> => Rest' = Rest
BY DEF Rest, Buffered, Pending

Steps == IInv' /\ [Behind!Next]_Behind!vars

(* Neither a chunk nor the buffer has anything. *)
LEMMA NoneSteps ==
  ASSUME IInv, NEW op \in {"read", "char", "peek"}, pc = "idle",
         UNCHANGED <<made, source, open, buffer, pos, pc>>,
         \/ Throws /\ Answer(op, Closed)
         \/ HasNone /\ Answer(op, Nil)
  PROVE  Steps
<1> USE ReaderAssumption DEF IInv
<1>1. Rest' = Rest
  BY SameRest
<1>2. Rest = <<>>
  BY NonePending DEF Throws, HasNone, Buffered
<1>3. buffer' = Nil
  BY DEF Throws, HasNone
<1>4. IInv'
  BY <1>3 DEF Answer, TypeOK, made, Text, AtStart, UsedUp, StringsStayOpen
<1>5. CASE Throws /\ Answer(op, Closed)
  <2>1. Behind!Refuse
    BY <1>1, <1>2, <1>5 DEF Throws, RawThrows, Answer, Behind!Refuse, Behind!Operations, Behind!Answer
  <2> QED BY <1>4, <2>1 DEF Steps, Behind!Next
<1>6. CASE HasNone /\ Answer(op, Nil)
  <2>1. Behind!AtEnd
    BY <1>1, <1>2, <1>6 DEF Answer, Behind!AtEnd, Behind!Operations, Behind!Answer
  <2> QED BY <1>4, <2>1 DEF Steps, Behind!Next
<1> QED BY <1>5, <1>6

(* The front of the text that -read has, and what an empty one means.      *)
LEMMA Front1 ==
  ASSUME IInv, pc = "idle", ~Throws, ~HasNone, Take, open' = open, kind' = kind
  PROVE  /\ Available \in Text
         /\ source' \in Text \cup {Nil}
         /\ source' = Nil => kind = "string"
         /\ Pending' \in Text
         /\ Available \o Pending' = Rest
         /\ Available = <<>> => /\ Rest = <<>> \/ asked = "line" \/ answer = <<>>
                                /\ Pending' = Rest
         /\ Available # <<>> => /\ Len(Available) \in 1 .. Len(Rest)
                                /\ SubSeq(Rest, 1, Len(Available)) = Available
                                /\ Drop(Rest, Len(Available)) = Pending'
                                /\ Rest # <<>>
                                /\ First(Available) = <<Rest[1]>>
<1>1. /\ Available \in Text
      /\ source' \in Text \cup {Nil}
      /\ source' = Nil => kind = "string"
      /\ Pending' \in Text
      /\ Available \o Pending' = Rest
      /\ Available = <<>> => Rest = <<>> \/ (buffer # Nil /\ Buffered = <<>>)
  BY TakeSplits DEF IInv
<1>2. Available = <<>> => Rest = <<>> \/ asked = "line" \/ answer = <<>>
  BY <1>1 DEF IInv, UsedUp
<1>3. Available = <<>> => Pending' = Rest
  BY <1>1, ConcatEmptySeq DEF Text
<1>4. Available # <<>> => /\ Len(Available) \in 1 .. Len(Rest)
                          /\ SubSeq(Rest, 1, Len(Available)) = Available
                          /\ Drop(Rest, Len(Available)) = Pending'
                          /\ Rest # <<>>
                          /\ First(Available) = <<Rest[1]>>
  BY <1>1, Front
<1> QED BY <1>1, <1>2, <1>3, <1>4

LEMMA ReadSteps ==
  ASSUME IInv, Read
  PROVE  Steps
<1> USE ReaderAssumption DEF IInv
<1>1. CASE Throws \/ HasNone
  <2>1. /\ UNCHANGED <<made, source, open, buffer, pos, pc>> /\ pc = "idle"
        /\ \/ Throws /\ Answer("read", Closed)
           \/ HasNone /\ Answer("read", Nil)
    BY <1>1 DEF Read
  <2> QED BY <2>1, NoneSteps
<1>2. CASE ~Throws /\ ~HasNone
  <2>1. /\ Take /\ open' = open /\ kind' = kind /\ limit' = limit /\ pos' = pos /\ pc' = "idle"
        /\ pc = "idle" /\ buffer' = Nil /\ asked' = "read" /\ answer' = Available
    BY <1>2 DEF Read, Answer, made
  <2>2. Available \in Text /\ source' \in Text \cup {Nil} /\ (source' = Nil => kind = "string")
        /\ Pending' \in Text
    BY <1>2, <2>1, Front1
  <2>3. IInv'
    BY <2>1, <2>2 DEF TypeOK, AtStart, UsedUp, StringsStayOpen
  <2>4. Rest' = Pending'
    BY <2>1, <2>2, ConcatEmptySeq DEF Rest, Buffered, Text
  <2>5. CASE Available = <<>>
    <3>1. Rest' = Rest /\ (Rest = <<>> \/ asked = "line" \/ answer = <<>>)
      BY <1>2, <2>1, <2>4, <2>5, Front1
    <3>2. Behind!ReadNothing
      BY <2>1, <2>5, <3>1 DEF Behind!ReadNothing, Behind!Operations, Behind!Answer
    <3> QED BY <2>3, <3>2 DEF Steps, Behind!Next
  <2>6. CASE Available # <<>>
    <3>1. /\ Len(Available) \in 1 .. Len(Rest)
          /\ SubSeq(Rest, 1, Len(Available)) = Available
          /\ Drop(Rest, Len(Available)) = Pending'
      BY <1>2, <2>1, <2>6, Front1
    <3>2. Behind!Read
      BY <2>1, <2>4, <3>1 DEF Behind!Read, Behind!Answer, Behind!Drop, Drop
    <3> QED BY <2>3, <3>2 DEF Steps, Behind!Next
  <2> QED BY <2>5, <2>6
<1> QED BY <1>1, <1>2

LEMMA ReadCharSteps ==
  ASSUME IInv, ReadChar
  PROVE  Steps
<1> USE ReaderAssumption DEF IInv
<1>1. CASE Throws \/ HasNone
  <2>1. /\ UNCHANGED <<made, source, open, buffer, pos, pc>> /\ pc = "idle"
        /\ \/ Throws /\ Answer("char", Closed)
           \/ HasNone /\ Answer("char", Nil)
    BY <1>1 DEF ReadChar
  <2> QED BY <2>1, NoneSteps
<1>2. CASE ~Throws /\ ~HasNone
  <2> DEFINE Long == Len(Available) > 1
  <2>1. /\ Take /\ open' = open /\ kind' = kind /\ limit' = limit /\ pc' = "idle"
        /\ pc = "idle" /\ asked' = "char" /\ answer' = First(Available)
        /\ IF Long THEN buffer' = Drop(Available, 1) /\ pos' = 0
                   ELSE buffer' = Nil /\ pos' = pos
    BY <1>2 DEF ReadChar, Answer, made
  <2>2. Available \in Text /\ source' \in Text \cup {Nil} /\ (source' = Nil => kind = "string")
        /\ Pending' \in Text /\ Available \o Pending' = Rest
    BY <1>2, <2>1, Front1
  <2>3. Len(Available) \in Nat /\ (Available # <<>> => Len(Available) # 0)
        /\ (Available = <<>> => Len(Available) = 0)
    BY <2>2, EmptySeq, LenProperties DEF Text
  <2>4. First(Available) \in Text
    BY <2>2, <2>3, EmptySeq, ElementOfSeq DEF First, Text
  <2>5. Long => /\ 1 \in 0 .. Len(Available) /\ Drop(Available, 1) \in Text
                /\ Len(Drop(Available, 1)) = Len(Available) - 1 /\ Drop(Available, 1) # <<>>
    <3> SUFFICES ASSUME Long
                 PROVE  /\ 1 \in 0 .. Len(Available) /\ Drop(Available, 1) \in Text
                        /\ Len(Drop(Available, 1)) = Len(Available) - 1 /\ Drop(Available, 1) # <<>>
      OBVIOUS
    <3>1. 1 \in 0 .. Len(Available)
      BY <2>3
    <3>2. Drop(Available, 1) \in Text /\ Len(Drop(Available, 1)) = Len(Available) - 1
      BY <2>2, <3>1, DropIs DEF Text
    <3>3. Len(Drop(Available, 1)) # 0
      BY <2>3, <3>2
    <3> QED BY <3>1, <3>2, <3>3, EmptySeq
  <2>6. Buffered' = IF Long THEN Drop(Available, 1) ELSE <<>>
    <3>1. CASE Long
      BY <2>1, <2>5, <3>1, DropNone DEF Buffered, Text
    <3>2. CASE ~Long
      BY <2>1, <3>2 DEF Buffered
    <3> QED BY <3>1, <3>2
  <2>7. TypeOK'
    BY <2>1, <2>2, <2>4, <2>5 DEF TypeOK, Text
  <2>8. IInv'
    BY <2>1, <2>5, <2>6, <2>7 DEF AtStart, UsedUp, StringsStayOpen
  <2>9. CASE Available = <<>>
    <3>1. Pending' = Rest /\ (Rest = <<>> \/ asked = "line" \/ answer = <<>>)
      BY <1>2, <2>1, <2>9, Front1
    <3>2. Rest' = Pending'
      BY <2>2, <2>3, <2>6, <2>9, ConcatEmptySeq DEF Rest, Text
    <3>3. Behind!ReadNothing
      BY <2>1, <2>9, <3>1, <3>2 DEF First, Behind!ReadNothing, Behind!Operations, Behind!Answer
    <3> QED BY <2>8, <3>3 DEF Steps, Behind!Next
  <2>10. CASE Available # <<>>
    <3>1. Rest # <<>> /\ First(Available) = <<Rest[1]>> /\ Drop(Rest, Len(Available)) = Pending'
      BY <1>2, <2>1, <2>10, Front1
    <3>2. Rest' = Drop(Rest, 1)
      <4>1. CASE Long
        <5>1. Drop(Available \o Pending', 1) = Drop(Available, 1) \o Pending'
          BY <2>2, <2>5, <4>1, DropConcat DEF Text
        <5> QED BY <2>2, <2>6, <4>1, <5>1 DEF Rest
      <4>2. CASE ~Long
        <5>1. Len(Available) = 1
          <6>1. Len(Available) \in Nat /\ Len(Available) # 0
            BY <2>3, <2>10
          <6>2. ~(Len(Available) > 1)
            BY <4>2
          <6>3. \A n \in Nat : n # 0 /\ ~(n > 1) => n = 1
            OBVIOUS
          <6> QED BY <6>1, <6>2, <6>3
        <5>2. Rest' = Pending'
          BY <2>2, <2>6, <4>2, ConcatEmptySeq DEF Rest, Text
        <5> QED BY <3>1, <5>1, <5>2
      <4> QED BY <4>1, <4>2
    <3>3. Behind!ReadChar
      BY <2>1, <3>1, <3>2 DEF Behind!ReadChar, Behind!Answer, Behind!Drop, Drop
    <3> QED BY <2>8, <3>3 DEF Steps, Behind!Next
  <2> QED BY <2>9, <2>10
<1> QED BY <1>1, <1>2

LEMMA PeekCharSteps ==
  ASSUME IInv, PeekChar
  PROVE  Steps
<1> USE ReaderAssumption DEF IInv
<1>1. CASE Throws \/ HasNone
  <2>1. /\ UNCHANGED <<made, source, open, buffer, pos, pc>> /\ pc = "idle"
        /\ \/ Throws /\ Answer("peek", Closed)
           \/ HasNone /\ Answer("peek", Nil)
    BY <1>1 DEF PeekChar
  <2> QED BY <2>1, NoneSteps
<1>2. CASE ~Throws /\ ~HasNone
  <2>1. /\ Take /\ open' = open /\ kind' = kind /\ limit' = limit /\ pc' = "idle"
        /\ pc = "idle" /\ asked' = "peek" /\ answer' = First(Available)
        /\ buffer' = Available /\ pos' = 0
    BY <1>2 DEF PeekChar, Answer, made
  <2>2. Available \in Text /\ source' \in Text \cup {Nil} /\ (source' = Nil => kind = "string")
        /\ Pending' \in Text /\ Available \o Pending' = Rest
    BY <1>2, <2>1, Front1
  <2>3. Len(Available) \in Nat /\ (Available # <<>> => Len(Available) # 0)
    BY <2>2, EmptySeq, LenProperties DEF Text
  <2>4. First(Available) \in Text /\ (Available = <<>> => First(Available) = <<>>)
    BY <2>2, <2>3, EmptySeq, ElementOfSeq DEF First, Text
  <2>5. Available # Nil
    BY <2>2
  <2>6. Buffered' = Available /\ Rest' = Rest
    BY <2>1, <2>2, <2>5, DropNone DEF Buffered, Rest, Text
  <2>7. TypeOK'
    BY <2>1, <2>2, <2>3, <2>4 DEF TypeOK, Text
  <2>8. IInv'
    BY <2>1, <2>4, <2>6, <2>7 DEF AtStart, UsedUp, StringsStayOpen
  <2>9. CASE Available = <<>>
    <3>1. Rest = <<>> \/ asked = "line" \/ answer = <<>>
      BY <1>2, <2>1, <2>9, Front1
    <3>2. Behind!ReadNothing
      BY <2>1, <2>4, <2>6, <2>9, <3>1 DEF Behind!ReadNothing, Behind!Operations, Behind!Answer
    <3> QED BY <2>8, <3>2 DEF Steps, Behind!Next
  <2>10. CASE Available # <<>>
    <3>1. Rest # <<>> /\ First(Available) = <<Rest[1]>>
      BY <1>2, <2>1, <2>10, Front1
    <3>2. Behind!PeekChar
      BY <2>1, <2>6, <3>1 DEF Behind!PeekChar, Behind!Answer
    <3> QED BY <2>8, <3>2 DEF Steps, Behind!Next
  <2> QED BY <2>9, <2>10
<1> QED BY <1>1, <1>2

LEMMA UnreadSteps ==
  ASSUME IInv, ~AfterLine, NEW s \in Pushable, Unread(s)
  PROVE  Steps
<1> USE ReaderAssumption DEF IInv
<1>1. /\ UNCHANGED <<made, source, open, pc, asked, answer>>
      /\ pc = "idle" /\ pos' = 0
      /\ buffer' = s \o (IF buffer = Nil THEN <<>> ELSE buffer)
  BY DEF Unread, Put
<1>2. s \in Text /\ s # <<>>
  OBVIOUS
<1>3. /\ Buffered \in Text /\ Pending \in Text /\ Rest = Buffered \o Pending
      /\ Buffered = IF buffer = Nil THEN <<>> ELSE buffer
  <2>1. buffer # Nil => pos = 0
    BY <1>1 DEF AtStart, Unread, MayUnread
  <2>2. buffer # Nil => Buffered = buffer
    BY <2>1, DropNone DEF Buffered, TypeOK, Text
  <2> QED BY <2>2, Parts DEF Buffered, Rest
<1>4. buffer' = s \o Buffered /\ buffer' \in Text /\ buffer' # <<>>
  BY <1>1, <1>2, <1>3, ConcatProperties, ConcatEqualIffEmpty DEF Text
<1>5. Buffered' = s \o Buffered
  BY <1>1, <1>4, DropNone DEF Buffered, Text
<1>6. Pending' = Pending
  BY <1>1 DEF Pending
<1>7. Rest' = s \o Rest
  <2>1. Rest' = (s \o Buffered) \o Pending
    BY <1>5, <1>6 DEF Rest
  <2>2. (s \o Buffered) \o Pending = s \o (Buffered \o Pending)
    <3>1. s \in Seq(Chars) /\ Buffered \in Seq(Chars) /\ Pending \in Seq(Chars)
      BY <1>2, <1>3 DEF Text
    <3> QED BY <3>1, Associative
  <2> QED BY <1>3, <2>1, <2>2, Zenon
<1>8. TypeOK'
  BY <1>1, <1>4, LenProperties DEF TypeOK, made, Text
<1>9. IInv'
  BY <1>1, <1>4, <1>5, <1>8 DEF AtStart, UsedUp, StringsStayOpen, made
<1>10. Behind!Unread
  BY <1>1, <1>7 DEF Behind!Unread
<1> QED BY <1>9, <1>10 DEF Steps, Behind!Next

LEMMA CloseSteps ==
  ASSUME IInv, Close
  PROVE  Steps
<1> USE ReaderAssumption DEF IInv
<1>1. UNCHANGED <<made, source, buffer, pos, pc, asked, answer>> /\ open' = (kind = "string")
  BY DEF Close
<1>2. IInv'
  BY <1>1 DEF TypeOK, made, AtStart, UsedUp, StringsStayOpen, Buffered
<1>3. CASE kind = "string"
  <2>1. open' = open
    BY <1>1, <1>3 DEF StringsStayOpen, TypeOK
  <2>2. Rest' = Rest
    BY <1>1, <2>1, SameRest
  <2> QED BY <1>1, <1>2, <2>1, <2>2 DEF Steps, Behind!vars
<1>4. CASE kind # "string"
  <2>1. open' = FALSE /\ Pending' = <<>> /\ Buffered' = Buffered
    BY <1>1, <1>4 DEF Pending, Buffered
  <2>2. Buffered \in Text /\ Pending \in Text /\ Rest = Buffered \o Pending
    BY Parts DEF Rest
  <2>3. Rest' = Buffered
    BY <2>1, <2>2, ConcatEmptySeq DEF Rest, Text
  <2>4. \E n \in 0 .. Len(Rest) : Buffered = SubSeq(Rest, 1, n)
    <3>1. Len(Buffered) \in 0 .. Len(Buffered) /\ Len(Buffered) \in 0 .. Len(Rest)
      BY <2>2, ConcatProperties, LenProperties DEF Text
    <3>2. SubSeq(Rest, 1, Len(Buffered)) = Buffered
      BY <2>2, <3>1, TakeConcat, SubSeqFull DEF Text
    <3> QED BY <3>1, <3>2
  <2>5. Behind!Close
    BY <1>1, <2>1, <2>3, <2>4 DEF Behind!Close
  <2> QED BY <1>2, <2>5 DEF Steps, Behind!Next
<1> QED BY <1>3, <1>4

LEMMA AppendsToRest ==
  ASSUME IInv, NEW c \in Chars, Append1(c)
  PROVE  /\ UNCHANGED <<made, open, buffer, pos, pc, asked, answer>>
         /\ kind = "file" /\ source' \in Text
         /\ Rest' = IF open THEN Append(Rest, c) ELSE Rest
<1> USE ReaderAssumption DEF IInv
<1>1. /\ UNCHANGED <<made, open, buffer, pos, pc, asked, answer>> /\ kind = "file"
      /\ source \in Text /\ source' = Append(source, c)
  BY DEF Append1, TypeOK
<1>2. source' \in Text /\ source' = source \o <<c>> /\ <<c>> \in Text
  BY <1>1, AppendProperties, AppendIsConcat DEF Text
<1>3. Buffered' = Buffered /\ Buffered \in Text /\ Rest \in Text
  BY <1>1, Parts DEF Buffered
<1>4. CASE ~open
  <2>1. Pending' = Pending
    BY <1>1, <1>4 DEF Pending
  <2> QED BY <1>1, <1>2, <1>3, <1>4, <2>1 DEF Rest
<1>5. CASE open
  <2>1. Pending = source /\ Pending' = source \o <<c>>
    BY <1>1, <1>2, <1>5 DEF Pending
  <2>2. Rest' = Buffered \o (source \o <<c>>)
    BY <1>3, <2>1 DEF Rest
  <2>3. Rest' = (Buffered \o source) \o <<c>>
    BY <1>1, <1>2, <1>3, <2>2, ConcatAssociative DEF Text
  <2>4. Rest' = Append(Rest, c)
    BY <1>3, <2>1, <2>3, AppendIsConcat DEF Rest, Text
  <2> QED BY <1>1, <1>2, <1>5, <2>4
<1> QED BY <1>4, <1>5

LEMMA AppendSteps ==
  ASSUME IInv, NEW c \in Chars, Append1(c)
  PROVE  Steps
<1> USE ReaderAssumption DEF IInv
<1>1. /\ UNCHANGED <<made, open, buffer, pos, pc, asked, answer>>
      /\ kind = "file" /\ source' \in Text
      /\ Rest' = IF open THEN Append(Rest, c) ELSE Rest
  BY AppendsToRest
<1>2. IInv'
  BY <1>1 DEF TypeOK, made, AtStart, UsedUp, StringsStayOpen, Buffered
<1>3. CASE ~open
  BY <1>1, <1>2, <1>3 DEF Steps, Behind!vars
<1>4. CASE open
  <2>1. Behind!Grow
    BY <1>1, <1>4 DEF Behind!Grow
  <2> QED BY <1>2, <2>1 DEF Steps, Behind!Next
<1> QED BY <1>3, <1>4 DEF TypeOK

LEMMA LineFoundSteps ==
  ASSUME IInv, LineFound
  PROVE  Steps
<1> USE ReaderAssumption DEF IInv
<1>1. PICK n \in LineEnds : /\ \A m \in LineEnds : n <= m
                            /\ asked' = "line" /\ answer' = SubSeq(buffer, pos + 1, n - 1)
                            /\ pos' = n
  BY DEF LineFound, FirstLineEnd, Answer
<1>2. UNCHANGED <<made, source, open, buffer>> /\ pc' = "idle" /\ buffer # Nil
  BY DEF LineFound
<1>3. /\ buffer \in Seq(Chars) /\ Len(buffer) \in Nat /\ pos \in 0 .. Len(buffer) /\ pos \in Nat
      /\ n \in pos + 1 .. Len(buffer) /\ buffer[n] = Newline /\ n \in 0 .. Len(buffer) /\ n \in Nat
  BY <1>1, <1>2, LenProperties DEF TypeOK, Text, LineEnds
<1> DEFINE k == n - pos
<1>4. k \in Nat /\ k \in 1 .. Len(buffer) - pos /\ pos + k = n
      /\ k - 1 \in 0 .. Len(buffer) - pos /\ pos + (k - 1) = n - 1
  BY <1>3
<1>5. /\ Buffered = Drop(buffer, pos) /\ Buffered \in Seq(Chars) /\ Len(Buffered) = Len(buffer) - pos
      /\ \A i \in 1 .. Len(buffer) - pos : Buffered[i] = buffer[pos + i]
  BY <1>2, <1>3, DropIs DEF Buffered
<1>6. /\ Pending \in Seq(Chars) /\ Len(Pending) \in Nat
      /\ Rest = Buffered \o Pending /\ Len(Rest) = Len(Buffered) + Len(Pending)
      /\ \A i \in 1 .. Len(Buffered) : Rest[i] = Buffered[i]
  <2>1. Pending \in Seq(Chars) /\ Len(Pending) \in Nat /\ Rest = Buffered \o Pending
    BY Parts, LenProperties DEF Text, Rest
  <2>2. /\ Len(Buffered \o Pending) = Len(Buffered) + Len(Pending)
        /\ \A i \in 1 .. Len(Buffered) + Len(Pending) : (Buffered \o Pending)[i] =
             IF i <= Len(Buffered) THEN Buffered[i] ELSE Pending[i - Len(Buffered)]
    BY <1>5, <2>1, ConcatProperties
  <2>3. Len(Buffered) \in Nat
    BY <1>5, LenProperties
  <2> QED BY <2>1, <2>2, <2>3
<1> HIDE DEF k
<1>7. k \in 1 .. Len(Rest) /\ k \in 0 .. Len(Buffered) /\ k - 1 \in 0 .. Len(Buffered)
  BY <1>3, <1>4, <1>5, <1>6
<1>8. Rest[k] = Newline
  BY <1>3, <1>4, <1>5, <1>6
<1>9. ASSUME NEW i \in 1 .. k - 1 PROVE Rest[i] # Newline
  <2>1. i \in 1 .. Len(buffer) - pos /\ i \in 1 .. Len(Buffered)
        /\ pos + i \in pos + 1 .. Len(buffer) /\ ~(n <= pos + i)
    BY <1>3, <1>4, <1>5
  <2>2. Rest[i] = buffer[pos + i]
    BY <1>5, <1>6, <2>1
  <2> QED BY <1>1, <2>1, <2>2 DEF LineEnds
<1>10. answer' = SubSeq(Rest, 1, k - 1)
  <2>1. SubSeq(Rest, 1, k - 1) = SubSeq(Buffered, 1, k - 1)
    BY <1>5, <1>6, <1>7, TakeConcat
  <2>2. SubSeq(Drop(buffer, pos), 1, k - 1) = SubSeq(buffer, pos + 1, pos + (k - 1))
    <3> DEFINE j == k - 1
    <3>1. buffer \in Seq(Chars) /\ pos \in 0 .. Len(buffer) /\ j \in 0 .. Len(buffer) - pos
      BY <1>3, <1>4
    <3> HIDE DEF j
    <3>2. SubSeq(Drop(buffer, pos), 1, j) = SubSeq(buffer, pos + 1, pos + j)
      BY <3>1, TakeOfDrop
    <3> QED BY <3>2 DEF j
  <2> QED BY <1>1, <1>4, <1>5, <2>1, <2>2
<1>11. Rest' = Drop(Rest, k)
  <2>1. Drop(Rest, k) = Drop(Buffered, k) \o Pending
    BY <1>5, <1>6, <1>7, DropConcat
  <2>2. Drop(Drop(buffer, pos), k) = Drop(buffer, pos + k)
    BY <1>3, <1>4, DropDrop
  <2>3. Buffered' = Drop(buffer, n) /\ Pending' = Pending
    BY <1>1, <1>2 DEF Buffered, Pending
  <2> QED BY <1>4, <1>5, <2>1, <2>2, <2>3 DEF Rest
<1>12. Behind!ReadLine
  <2>1. Behind!EndsLine(k)
    BY <1>8, <1>9 DEF Behind!EndsLine
  <2> QED BY <1>1, <1>2, <1>7, <1>10, <1>11, <2>1 DEF Behind!ReadLine, Behind!Answer, Behind!Drop, Drop
<1>13. answer' \in Text
  <2>1. k - 1 \in 0 .. Len(Rest) /\ Rest \in Seq(Chars)
    BY <1>7, Parts DEF Text
  <2> QED BY <1>10, <2>1, TakeIs DEF Text
<1>14. IInv'
  <2>1. asked' = "line" /\ answer' # Nil /\ pos' \in Nat /\ pos' <= Len(buffer')
    <3>1. n \in Nat /\ n <= Len(buffer)
      BY <1>3
    <3>2. buffer' = buffer /\ pos' = n /\ asked' = "line"
      BY <1>1, <1>2
    <3>3. answer' # Nil
      BY <1>13
    <3> QED BY <3>1, <3>2, <3>3
  <2>2. TypeOK'
    BY <1>1, <1>2, <1>13, <2>1 DEF TypeOK, made
  <2> QED BY <1>2, <2>1, <2>2 DEF made, AtStart, UsedUp, StringsStayOpen
<1> QED BY <1>12, <1>14 DEF Steps, Behind!Next

LEMMA LineFetchSteps ==
  ASSUME IInv, LineFetch
  PROVE  Steps
<1> USE ReaderAssumption DEF IInv
<1>1. /\ RawReads /\ Fetch /\ open' = open /\ kind' = kind /\ limit' = limit /\ pc' = "line" /\ pc = "line"
      /\ asked' = asked /\ answer' = answer /\ buffer' = Buffered \o Chunk /\ pos' = 0
  BY DEF LineFetch, made
<1>2. /\ Chunk \in Text /\ source' \in Text \cup {Nil} /\ (source' = Nil => kind = "string")
      /\ Pending' \in Text /\ Chunk \o Pending' = Pending
  BY <1>1, ChunkSplits
<1>3. Buffered \in Text /\ Rest = Buffered \o Pending
  BY Parts DEF Rest
<1>4. buffer' \in Text /\ Buffered' = Buffered \o Chunk
  <2>1. buffer' \in Text
    <3>1. Buffered \o Chunk \in Text
      BY <1>2, <1>3, ConcatProperties DEF Text
    <3> QED BY <1>1, <3>1
  <2>2. buffer' # Nil
    BY <2>1, ReaderAssumption
  <2>3. Drop(buffer', 0) = buffer'
    BY <2>1, DropNone DEF Text
  <2>4. Buffered' = buffer'
    BY <1>1, <2>2, <2>3 DEF Buffered
  <2> QED BY <1>1, <2>1, <2>4
<1>5. Rest' = Rest
  <2>1. Buffered \in Seq(Chars) /\ Chunk \in Seq(Chars) /\ Pending' \in Seq(Chars)
    BY <1>2, <1>3 DEF Text
  <2>2. (Buffered \o Chunk) \o Pending' = Buffered \o (Chunk \o Pending')
    BY <2>1, Associative
  <2> QED BY <1>2, <1>3, <1>4, <2>2 DEF Rest
<1>6. IInv'
  BY <1>1, <1>2, <1>4, LenProperties DEF TypeOK, Text, AtStart, UsedUp, StringsStayOpen
<1> QED BY <1>1, <1>5, <1>6 DEF Steps, Behind!vars

(* Without a line end in the buffer, none is in its characters. *)
LEMMA NoLineEnd ==
  ASSUME TypeOK, buffer # Nil => LineEnds = {}
  PROVE  \A i \in 1 .. Len(Buffered) : Buffered[i] # Newline
<1>1. CASE buffer = Nil
  <2>1. Buffered = <<>> /\ Len(Buffered) = 0
    BY <1>1, EmptySeq DEF Buffered
  <2> QED BY <2>1
<1>2. CASE buffer # Nil
  <2>1. buffer \in Seq(Chars) /\ pos \in 0 .. Len(buffer) /\ Len(buffer) \in Nat /\ pos \in Nat
    BY <1>2, LenProperties DEF TypeOK, Text
  <2>2. /\ Len(Buffered) = Len(buffer) - pos
        /\ \A i \in 1 .. Len(buffer) - pos : Buffered[i] = buffer[pos + i]
    BY <1>2, <2>1, DropIs DEF Buffered
  <2>3. ASSUME NEW i \in 1 .. Len(Buffered) PROVE Buffered[i] # Newline
    <3>1. i \in 1 .. Len(buffer) - pos /\ pos + i \in pos + 1 .. Len(buffer)
      BY <2>1, <2>2
    <3> QED BY <1>2, <2>2, <3>1 DEF LineEnds
  <2> QED BY <2>3
<1> QED BY <1>1, <1>2

LEMMA LastLineSteps ==
  ASSUME IInv, LastLine
  PROVE  Steps
<1> USE ReaderAssumption DEF IInv
<1>1. /\ UNCHANGED <<made, source, open, pos>> /\ pc' = "idle" /\ buffer' = Nil /\ asked' = "line"
      /\ answer' = IF Buffered = <<>> THEN Nil ELSE Buffered
  BY DEF LastLine, Answer
<1>2. Pending = <<>> /\ Rest = Buffered
  BY NonePending DEF LastLine
<1>3. Buffered \in Text
  BY Parts
<1>4. Rest' = <<>>
  <2>1. Buffered' = <<>> /\ Pending' = <<>>
    BY <1>1, <1>2 DEF Buffered, Pending
  <2> QED BY <2>1, EmptySeq, ConcatEmptySeq DEF Rest
<1>5. IInv'
  BY <1>1, <1>3 DEF TypeOK, made, AtStart, UsedUp, StringsStayOpen
<1>6. CASE Buffered = <<>>
  <2>1. Behind!AtEnd
    BY <1>1, <1>2, <1>4, <1>6 DEF Behind!AtEnd, Behind!Operations, Behind!Answer
  <2> QED BY <1>5, <2>1 DEF Steps, Behind!Next
<1>7. CASE Buffered # <<>>
  <2>1. \A i \in 1 .. Len(Rest) : Rest[i] # Newline
    BY <1>2, NoLineEnd DEF LastLine
  <2>2. Behind!ReadLine
    BY <1>1, <1>2, <1>4, <1>7, <2>1 DEF Behind!ReadLine, Behind!Answer
  <2> QED BY <1>5, <2>2 DEF Steps, Behind!Next
<1> QED BY <1>6, <1>7

LEMMA LineThrowsSteps ==
  ASSUME IInv, LineThrows
  PROVE  Steps
<1> USE ReaderAssumption DEF IInv
<1>1. /\ UNCHANGED <<made, source, open, buffer, pos>> /\ pc' = "idle" /\ ~open
      /\ asked' = "line" /\ answer' = Closed
  BY DEF LineThrows, RawThrows, Answer
<1>2. Rest' = Rest
  BY <1>1, SameRest
<1>3. Closed # Nil
  OBVIOUS
<1>4. IInv'
  BY <1>1, <1>3 DEF TypeOK, made, AtStart, UsedUp, StringsStayOpen
<1>5. Behind!Refuse
  BY <1>1, <1>2 DEF Behind!Refuse, Behind!Operations, Behind!Answer
<1> QED BY <1>4, <1>5 DEF Steps, Behind!Next

LEMMA OtherSteps ==
  ASSUME IInv, CallReadLine \/ UNCHANGED vars
  PROVE  Steps
<1>1. UNCHANGED <<made, source, open, buffer, pos, asked, answer>> /\ pc' \in {pc, "line"}
  BY DEF CallReadLine, vars
<1>2. Rest' = Rest /\ Buffered' = Buffered
  BY <1>1, SameRest DEF Buffered
<1>3. IInv'
  BY <1>1, <1>2 DEF IInv, TypeOK, made, AtStart, UsedUp, StringsStayOpen
<1> QED BY <1>1, <1>2, <1>3 DEF Steps, Behind!vars

LEMMA EveryStep == ASSUME ~AfterLine, IInv, [Next]_vars PROVE Steps
<1>1. CASE ReadLineStep
  BY <1>1, LineFoundSteps, LineFetchSteps, LastLineSteps, LineThrowsSteps DEF ReadLineStep
<1>2. CASE \E s \in Pushable : Unread(s)
  BY <1>2, UnreadSteps
<1>3. CASE \E c \in Chars : Append1(c)
  BY <1>3, AppendSteps
<1> QED
  BY <1>1, <1>2, <1>3, ReadSteps, ReadCharSteps, PeekCharSteps, CloseSteps, OtherSteps DEF Next
-----------------------------------------------------------------------------
(* A reader keeps its text: PushbackText is implemented, for any files,    *)
(* strings, chunk sizes and pushes, if nothing is put back after a line.   *)
THEOREM ReaderKeepsText == ASSUME ~AfterLine PROVE Spec => KeepsText
<1>1. Init => IInv /\ Behind!Init
  BY InitOk
<1>2. IInv /\ [Next]_vars => IInv' /\ [Behind!Next]_Behind!vars
  BY EveryStep DEF Steps
<1> QED BY <1>1, <1>2, PTL DEF Spec, KeepsText, Behind!Spec

(* The types of a reader, under the same condition.                        *)
THEOREM ReaderTypes == ASSUME ~AfterLine PROVE Spec => []TypeOK
<1>1. Init => IInv
  BY InitOk
<1>2. IInv /\ [Next]_vars => IInv'
  BY EveryStep DEF Steps
<1>3. IInv => TypeOK
  BY DEF IInv
<1> QED BY <1>1, <1>2, <1>3, PTL DEF Spec
-----------------------------------------------------------------------------
(* Streams.  The invariant is about programs that do not copy files.       *)
Stream == [kind : StreamKinds, at : Addresses, node : Nodes, closed : BOOLEAN, dirty : BOOLEAN]
FILE == [open : BOOLEAN, node : Nodes \cup {Nil}, data : Text, pos : Nat]

StreamTypes == /\ dir \in [Paths -> Nodes \cup {Nil}]
               /\ content \in [Nodes -> Text]
               /\ meant \in [Nodes -> Text]
               /\ heap \in [Addresses -> FILE]
               /\ registered \in [StreamKinds -> SUBSET Addresses]
               /\ stream \in Seq(Stream)
               /\ "left" \in DOMAIN copy /\ copy.left \in Text

Open(h) == h \in DOMAIN stream /\ ~stream[h].closed
Output(h) == Open(h) /\ stream[h].kind # "input"

(* An open stream has a FILE of its own, ... *)
Owns == \A h \in DOMAIN stream :
          Open(h) => /\ heap[stream[h].at].open
                     /\ heap[stream[h].at].node = stream[h].node
                     /\ Registered(h)
                     /\ stream[h].kind = "input" => heap[stream[h].at].data = <<>>
                     /\ heap[stream[h].at].data # <<>> => stream[h].dirty
Apart == \A g, h \in DOMAIN stream : Open(g) /\ Open(h) /\ g # h => stream[g].at # stream[h].at
OneWriter == \A g, h \in DOMAIN stream : Output(g) /\ Output(h) /\ g # h => stream[g].node # stream[h].node

(* ... there are no other FILEs, and no other descriptors registered.      *)
NoOthers == /\ \A a \in Addresses : heap[a].open => \E h \in DOMAIN stream : Open(h) /\ stream[h].at = a
            /\ \A a \in Addresses : ~heap[a].open => heap[a] = NoFILE
            /\ \A k \in StreamKinds : \A a \in registered[k] :
                 \E h \in DOMAIN stream : Open(h) /\ stream[h].kind = k /\ stream[h].at = a

(* What was written to a node is in it, or waits in its writer's buffer.   *)
Kept == /\ \A h \in DOMAIN stream : Output(h) =>
             content[stream[h].node] \o heap[stream[h].at].data = meant[stream[h].node]
        /\ \A n \in Nodes : (\A h \in DOMAIN stream : Output(h) => stream[h].node # n)
                              => content[n] = meant[n]

StreamInv == StreamTypes /\ Owns /\ Apart /\ OneWriter /\ NoOthers /\ Kept

(* What pours has a stream to write to. *)
Busy == copy.pc # "idle" => program = "pours" /\ stream # <<>>

FilesInv == /\ program = "copies" \/ (StreamInv /\ Busy)
            /\ ClosedIsRefused

LEMMA StreamFacts ==
  ASSUME StreamInv, NEW h \in DOMAIN stream
  PROVE  /\ stream[h] \in Stream
         /\ stream[h].kind \in StreamKinds /\ stream[h].at \in Addresses /\ stream[h].node \in Nodes
         /\ stream[h].closed \in BOOLEAN /\ stream[h].dirty \in BOOLEAN
         /\ heap[stream[h].at] \in FILE
         /\ h \in 1 .. Len(stream) /\ Len(stream) \in Nat
<1>1. stream \in Seq(Stream) /\ heap \in [Addresses -> FILE]
  BY DEF StreamInv, StreamTypes
<1>2. Len(stream) \in Nat /\ DOMAIN stream = 1 .. Len(stream)
  BY <1>1, LenProperties
<1>3. stream[h] \in Stream
  BY <1>1, <1>2, ElementOfSeq
<1> QED BY <1>1, <1>2, <1>3 DEF Stream

(* A closed stream is not taken for an open one. *)
LEMMA UsesItsOwn ==
  ASSUME ~StaleUse, StreamInv, NEW h \in DOMAIN stream, MayUse(h)
  PROVE  Registered(h) <=> Open(h)
<1>1. Open(h) => Registered(h)
  BY DEF StreamInv, Owns
<1>2. ASSUME Registered(h), ~Open(h) PROVE FALSE
  <2>1. stream[h].closed
    BY <1>2, StreamFacts DEF Open
  <2>2. PICK g \in DOMAIN stream : Open(g) /\ stream[g].kind = stream[h].kind /\ stream[g].at = stream[h].at
    BY <1>2, StreamFacts DEF StreamInv, NoOthers, Registered
  <2>3. g \in DOMAIN stream \ {h} /\ ~stream[g].closed
    BY <2>1, <2>2 DEF Open
  <2> QED BY <2>1, <2>2, <2>3 DEF MayUse, Stale
<1> QED BY <1>1, <1>2

(* No step but Exit and the opening of a stream changes the streams'       *)
(* number, and none but closing what they are.                             *)
SameStreams == /\ DOMAIN stream' = DOMAIN stream
               /\ \A h \in DOMAIN stream : /\ stream'[h].kind = stream[h].kind
                                           /\ stream'[h].at = stream[h].at
                                           /\ stream'[h].node = stream[h].node
                                           /\ stream'[h].closed = stream[h].closed

LEMMA EmptyConcat == \A s \in Text : s \o <<>> = s /\ <<>> \o s = s
BY ConcatEmptySeq DEF Text

LEMMA FilesInitOk == FilesInit => FilesInv
<1> SUFFICES ASSUME FilesInit PROVE FilesInv
  OBVIOUS
<1> USE FilesAssumption, ReaderAssumption
<1>1. <<>> \in Text /\ Contents \cup {<<>>} \subseteq Text
  BY EmptySeq DEF Text
<1>2. content \in [Nodes -> Text] /\ dir \in [Paths -> Nodes \cup {Nil}] /\ meant = content
  BY <1>1 DEF FilesInit
<1>3. stream = <<>> /\ stream \in Seq(Stream) /\ DOMAIN stream = {}
  BY EmptySeq DEF FilesInit
<1>4. heap \in [Addresses -> FILE] /\ \A a \in Addresses : heap[a] = NoFILE /\ ~heap[a].open
  BY <1>1 DEF FilesInit, NoFILE, FILE
<1>5. registered \in [StreamKinds -> SUBSET Addresses] /\ \A k \in StreamKinds : registered[k] = {}
  BY DEF FilesInit
<1>6. copy.left = <<>> /\ "left" \in DOMAIN copy /\ copy.pc = "idle"
  BY DEF FilesInit, NoCopy
<1>7. StreamTypes
  BY <1>1, <1>2, <1>3, <1>4, <1>5, <1>6 DEF StreamTypes
<1>8. Owns /\ Apart /\ OneWriter
  BY <1>3 DEF Owns, Apart, OneWriter
<1>9. NoOthers
  BY <1>4, <1>5 DEF NoOthers
<1>10. Kept
  BY <1>2, <1>3 DEF Kept
<1>11. ClosedIsRefused
  BY DEF FilesInit, ClosedIsRefused
<1> QED BY <1>6, <1>7, <1>8, <1>9, <1>10, <1>11 DEF FilesInv, StreamInv, Busy

(* A stream that is opened gets a FILE that was free. *)
LEMMA Opens ==
  ASSUME StreamInv, NEW k \in StreamKinds, NEW a \in Addresses, NEW n \in Nodes,
         Fopen(a, n), Register(k, a, n),
         dir' \in [Paths -> Nodes \cup {Nil}], UNCHANGED copy,
         k # "input" => \A g \in DOMAIN stream : ~Writes(g, n),
         \/ UNCHANGED <<content, meant>>
         \/ /\ k # "input"
            /\ content' = [content EXCEPT ![n] = <<>>]
            /\ meant' = [meant EXCEPT ![n] = <<>>]
  PROVE  StreamInv'
<1>0. PICK last : last = Len(stream) + 1
  OBVIOUS
<1> DEFINE new == [kind |-> k, at |-> a, node |-> n, closed |-> FALSE, dirty |-> FALSE]
           file == [NoFILE EXCEPT !.open = TRUE, !.node = n]
<1>1. /\ stream \in Seq(Stream) /\ heap \in [Addresses -> FILE] /\ content \in [Nodes -> Text]
      /\ meant \in [Nodes -> Text] /\ registered \in [StreamKinds -> SUBSET Addresses]
      /\ "left" \in DOMAIN copy /\ copy.left \in Text
  BY DEF StreamInv, StreamTypes
<1>2. new \in Stream
  BY DEF Stream
<1>3. /\ stream' \in Seq(Stream) /\ Len(stream) \in Nat
      /\ DOMAIN stream = 1 .. Len(stream) /\ DOMAIN stream' = 1 .. last
      /\ last \notin DOMAIN stream /\ last \in DOMAIN stream'
      /\ stream'[last] = new
      /\ \A h \in DOMAIN stream : h \in DOMAIN stream' /\ stream'[h] = stream[h]
  <2>1. stream' = Append(stream, new)
    BY DEF Register
  <2>2. Len(stream) \in Nat /\ DOMAIN stream = 1 .. Len(stream)
    BY <1>1, LenProperties
  <2> QED BY <2>1, <2>2, <1>0, <1>1, <1>2, AppendProperties
<1>4. \A h \in DOMAIN stream' : h = last \/ h \in DOMAIN stream
  BY <1>0, <1>3
<1>5. <<>> \in Text
  BY EmptySeq DEF Text
<1>6. /\ file \in FILE /\ file.open /\ file.node = n /\ file.data = <<>>
      /\ heap' = [heap EXCEPT ![a] = file] /\ ~heap[a].open
  BY <1>5 DEF FILE, NoFILE, Fopen
<1>7. /\ heap' \in [Addresses -> FILE] /\ heap'[a] = file
      /\ \A b \in Addresses \ {a} : heap'[b] = heap[b]
  BY <1>1, <1>6
<1>8. /\ registered' \in [StreamKinds -> SUBSET Addresses]
      /\ registered'[k] = registered[k] \cup {a}
      /\ \A l \in StreamKinds \ {k} : registered'[l] = registered[l]
  BY <1>1 DEF Register
<1>9. /\ content' \in [Nodes -> Text] /\ meant' \in [Nodes -> Text]
      /\ \A m \in Nodes \ {n} : content'[m] = content[m] /\ meant'[m] = meant[m]
      /\ (content'[n] = content[n] /\ meant'[n] = meant[n]) \/ (content'[n] = <<>> /\ meant'[n] = <<>>)
      /\ k = "input" => content' = content /\ meant' = meant
  <2>1. CASE UNCHANGED <<content, meant>>
    <3>1. content' = content /\ meant' = meant
      BY <2>1
    <3> QED BY <3>1, <1>1
  <2>2. CASE k # "input" /\ content' = [content EXCEPT ![n] = <<>>] /\ meant' = [meant EXCEPT ![n] = <<>>]
    BY <2>2, <1>1, <1>5
  <2> QED BY <2>1, <2>2
<1>10. StreamTypes'
  BY <1>1, <1>3, <1>7, <1>8, <1>9 DEF StreamTypes
<1>11. /\ \A h \in DOMAIN stream : (Open(h)' <=> Open(h)) /\ (Output(h)' <=> Output(h))
       /\ Open(last)' /\ (Output(last)' <=> k # "input")
  <2>1. ASSUME NEW h \in DOMAIN stream
        PROVE  (Open(h)' <=> Open(h)) /\ (Output(h)' <=> Output(h))
    BY <1>3 DEF Open, Output
  <2>2. Open(last)' /\ (Output(last)' <=> k # "input")
    BY <1>3 DEF Open, Output
  <2> QED BY <2>1, <2>2
<1>12. ASSUME NEW h \in DOMAIN stream, Open(h)
       PROVE  stream[h].at \in Addresses \ {a} /\ heap'[stream[h].at] = heap[stream[h].at]
  <2>1. stream[h].at \in Addresses /\ heap[stream[h].at].open
    BY <1>12, StreamFacts DEF StreamInv, Owns
  <2> QED BY <2>1, <1>6, <1>7
<1>13. Owns'
  <2> SUFFICES ASSUME NEW h \in DOMAIN stream', Open(h)'
               PROVE  /\ heap'[stream'[h].at].open
                      /\ heap'[stream'[h].at].node = stream'[h].node
                      /\ stream'[h].at \in registered'[stream'[h].kind]
                      /\ stream'[h].kind = "input" => heap'[stream'[h].at].data = <<>>
                      /\ heap'[stream'[h].at].data # <<>> => stream'[h].dirty
    BY DEF Owns, Registered
  <2>1. CASE h = last
    BY <2>1, <1>3, <1>6, <1>7, <1>8
  <2>2. CASE h \in DOMAIN stream
    <3>1. /\ heap[stream[h].at].open /\ heap[stream[h].at].node = stream[h].node
          /\ stream[h].at \in registered[stream[h].kind]
          /\ stream[h].kind = "input" => heap[stream[h].at].data = <<>>
          /\ heap[stream[h].at].data # <<>> => stream[h].dirty
      BY <2>2, <1>11 DEF StreamInv, Owns, Registered
    <3>2. stream[h].kind \in StreamKinds
      BY <2>2, StreamFacts
    <3>3. stream[h].at \in registered'[stream[h].kind]
      BY <3>1, <3>2, <1>8
    <3> QED BY <2>2, <3>1, <3>3, <1>3, <1>11, <1>12
  <2> QED BY <2>1, <2>2, <1>4
<1>14. Apart'
  BY <1>3, <1>4, <1>11, <1>12 DEF StreamInv, Apart
<1>15. OneWriter'
  <2>1. \A g \in DOMAIN stream : Output(g) /\ k # "input" => stream[g].node # n
    BY DEF Writes, Output, Open
  <2> QED BY <2>1, <1>3, <1>4, <1>11 DEF StreamInv, OneWriter
<1>16. NoOthers'
  <2>1. \A b \in Addresses : heap'[b].open =>
          \E h \in DOMAIN stream' : Open(h)' /\ stream'[h].at = b
    <3> SUFFICES ASSUME NEW b \in Addresses, heap'[b].open
                 PROVE  \E h \in DOMAIN stream' : Open(h)' /\ stream'[h].at = b
      OBVIOUS
    <3>1. CASE b = a
      BY <3>1, <1>3, <1>11
    <3>2. CASE b # a
      <4>1. PICK h \in DOMAIN stream : Open(h) /\ stream[h].at = b
        BY <3>2, <1>7 DEF StreamInv, NoOthers
      <4> QED BY <4>1, <1>3, <1>11
    <3> QED BY <3>1, <3>2
  <2>2. \A b \in Addresses : ~heap'[b].open => heap'[b] = NoFILE
    BY <1>6, <1>7 DEF StreamInv, NoOthers
  <2>3. \A l \in StreamKinds : \A b \in registered'[l] :
          \E h \in DOMAIN stream' : Open(h)' /\ stream'[h].kind = l /\ stream'[h].at = b
    <3> SUFFICES ASSUME NEW l \in StreamKinds, NEW b \in registered'[l]
                 PROVE  \E h \in DOMAIN stream' : Open(h)' /\ stream'[h].kind = l /\ stream'[h].at = b
      OBVIOUS
    <3>1. CASE b \in registered[l]
      <4>1. PICK h \in DOMAIN stream : Open(h) /\ stream[h].kind = l /\ stream[h].at = b
        BY <3>1 DEF StreamInv, NoOthers
      <4> QED BY <4>1, <1>3, <1>11
    <3>2. CASE l = k /\ b = a
      BY <3>2, <1>3, <1>11
    <3> QED BY <3>1, <3>2, <1>8
  <2> QED BY <2>1, <2>2, <2>3 DEF NoOthers
<1>17. Kept'
  <2>1. \A h \in DOMAIN stream' : Output(h)' =>
          content'[stream'[h].node] \o heap'[stream'[h].at].data = meant'[stream'[h].node]
    <3> SUFFICES ASSUME NEW h \in DOMAIN stream', Output(h)'
                 PROVE  content'[stream'[h].node] \o heap'[stream'[h].at].data = meant'[stream'[h].node]
      OBVIOUS
    <3>1. CASE h = last
      <4>1. k # "input" /\ content'[n] = meant'[n]
        <5>1. k # "input" /\ \A g \in DOMAIN stream : Output(g) => stream[g].node # n
          BY <3>1, <1>11 DEF Writes, Output, Open
        <5>2. content[n] = meant[n]
          BY <5>1 DEF StreamInv, Kept
        <5> QED BY <5>1, <5>2, <1>9
      <4>2. content'[n] \o <<>> = content'[n]
        BY <1>9, EmptyConcat
      <4>3. stream'[h].node = n /\ stream'[h].at = a
        BY <3>1, <1>3
      <4>4. heap'[stream'[h].at].data = <<>>
        BY <4>3, <1>6, <1>7
      <4> QED BY <4>1, <4>2, <4>3, <4>4
    <3>2. CASE h \in DOMAIN stream
      <4>1. Output(h) /\ Open(h)
        BY <3>2, <1>11 DEF Output
      <4>2. k = "input" \/ stream[h].node # n
        BY <4>1 DEF Writes, Output, Open
      <4>3. stream[h].node \in Nodes
        BY <3>2, StreamFacts
      <4>4. content'[stream[h].node] = content[stream[h].node] /\ meant'[stream[h].node] = meant[stream[h].node]
        BY <4>2, <4>3, <1>9
      <4>5. content[stream[h].node] \o heap[stream[h].at].data = meant[stream[h].node]
        BY <4>1, <3>2 DEF StreamInv, Kept
      <4>6. stream'[h] = stream[h] /\ heap'[stream[h].at] = heap[stream[h].at]
        BY <3>2, <4>1, <1>3, <1>12
      <4> QED BY <4>4, <4>5, <4>6
    <3> QED BY <3>1, <3>2, <1>4
  <2>2. ASSUME NEW m \in Nodes, \A h \in DOMAIN stream' : Output(h)' => stream'[h].node # m
        PROVE  content'[m] = meant'[m]
    <3>1. \A h \in DOMAIN stream : Output(h) => stream[h].node # m
      BY <2>2, <1>3, <1>11
    <3>2. content[m] = meant[m]
      BY <3>1 DEF StreamInv, Kept
    <3> QED BY <3>2, <1>9
  <2> QED BY <2>1, <2>2 DEF Kept
<1> QED BY <1>10, <1>13, <1>14, <1>15, <1>16, <1>17 DEF StreamInv

(* The FILE of an open stream may change, if its node keeps what is meant  *)
(* for it.                                                                 *)
LEMMA Uses ==
  ASSUME StreamInv, NEW h \in DOMAIN stream, Open(h), NEW f \in FILE,
         f.open, f.node = stream[h].node,
         heap' = [heap EXCEPT ![stream[h].at] = f],
         stream' \in Seq(Stream), SameStreams,
         \A g \in DOMAIN stream \ {h} : stream'[g].dirty = stream[g].dirty,
         f.data # <<>> => stream'[h].dirty,
         stream[h].kind = "input" => f.data = <<>> /\ UNCHANGED <<content, meant>>,
         content' \in [Nodes -> Text], meant' \in [Nodes -> Text],
         \A n \in Nodes \ {stream[h].node} : content'[n] = content[n] /\ meant'[n] = meant[n],
         stream[h].kind # "input" => content'[stream[h].node] \o f.data = meant'[stream[h].node],
         UNCHANGED <<dir, registered>>,
         "left" \in DOMAIN copy', copy'.left \in Text
  PROVE  StreamInv'
<1>1. PICK a \in Addresses : a = stream[h].at
  BY StreamFacts
<1>2. /\ heap' \in [Addresses -> FILE] /\ heap'[a] = f
      /\ \A b \in Addresses \ {a} : heap'[b] = heap[b]
  BY <1>1 DEF StreamInv, StreamTypes
<1>3. StreamTypes'
  BY <1>2 DEF StreamInv, StreamTypes
<1>4. \A g \in DOMAIN stream :
        /\ g \in DOMAIN stream' /\ stream'[g].kind = stream[g].kind /\ stream'[g].at = stream[g].at
        /\ stream'[g].node = stream[g].node /\ stream'[g].closed = stream[g].closed
  BY DEF SameStreams
<1>5. DOMAIN stream' = DOMAIN stream
  BY DEF SameStreams
<1>6. \A g \in DOMAIN stream : (Open(g)' <=> Open(g)) /\ (Output(g)' <=> Output(g))
  <2>1. ASSUME NEW g \in DOMAIN stream
        PROVE  (Open(g)' <=> Open(g)) /\ (Output(g)' <=> Output(g))
    BY <1>4 DEF Open, Output
  <2> QED BY <2>1
<1>7. ASSUME NEW g \in DOMAIN stream, Open(g), g # h
      PROVE  stream[g].at \in Addresses \ {a} /\ heap'[stream[g].at] = heap[stream[g].at]
  <2>1. stream[g].at \in Addresses /\ stream[g].at # a
    BY <1>1, <1>7, StreamFacts DEF StreamInv, Apart
  <2> QED BY <2>1, <1>2
<1>8. Owns'
  <2> SUFFICES ASSUME NEW g \in DOMAIN stream, Open(g)
               PROVE  /\ heap'[stream'[g].at].open
                      /\ heap'[stream'[g].at].node = stream'[g].node
                      /\ stream'[g].at \in registered'[stream'[g].kind]
                      /\ stream'[g].kind = "input" => heap'[stream'[g].at].data = <<>>
                      /\ heap'[stream'[g].at].data # <<>> => stream'[g].dirty
    BY <1>5, <1>6 DEF Owns, Registered
  <2>1. /\ heap[stream[g].at].open /\ heap[stream[g].at].node = stream[g].node
        /\ stream[g].at \in registered[stream[g].kind]
        /\ stream[g].kind = "input" => heap[stream[g].at].data = <<>>
        /\ heap[stream[g].at].data # <<>> => stream[g].dirty
    BY DEF StreamInv, Owns, Registered
  <2>2. CASE g = h
    BY <2>1, <2>2, <1>1, <1>2, <1>4
  <2>3. CASE g # h
    BY <2>1, <2>3, <1>4, <1>7
  <2> QED BY <2>2, <2>3
<1>9. Apart'
  BY <1>4, <1>5, <1>6 DEF StreamInv, Apart
<1>10. OneWriter'
  BY <1>4, <1>5, <1>6 DEF StreamInv, OneWriter
<1>11. NoOthers'
  <2>1. \A b \in Addresses : heap'[b].open => heap[b].open
    BY <1>1, <1>2 DEF StreamInv, Owns
  <2>2. \A b \in Addresses : ~heap'[b].open => heap'[b] = NoFILE
    BY <1>2 DEF StreamInv, NoOthers
  <2>3. ASSUME NEW b \in Addresses, heap'[b].open
        PROVE  \E g \in DOMAIN stream' : Open(g)' /\ stream'[g].at = b
    <3>1. PICK g \in DOMAIN stream : Open(g) /\ stream[g].at = b
      BY <2>1, <2>3 DEF StreamInv, NoOthers
    <3> QED BY <3>1, <1>4, <1>6
  <2>4. ASSUME NEW k \in StreamKinds, NEW b \in registered'[k]
        PROVE  \E g \in DOMAIN stream' : Open(g)' /\ stream'[g].kind = k /\ stream'[g].at = b
    <3>1. PICK g \in DOMAIN stream : Open(g) /\ stream[g].kind = k /\ stream[g].at = b
      BY <2>4 DEF StreamInv, NoOthers
    <3> QED BY <3>1, <1>4, <1>6
  <2> QED BY <2>2, <2>3, <2>4 DEF NoOthers
<1>12. Kept'
  <2>1. ASSUME NEW g \in DOMAIN stream, Output(g)
        PROVE  content'[stream'[g].node] \o heap'[stream'[g].at].data = meant'[stream'[g].node]
    <3>1. CASE g = h
      <4>1. stream'[g].node = stream[h].node /\ heap'[stream'[g].at].data = f.data
        BY <3>1, <1>1, <1>2, <1>4
      <4> QED BY <2>1, <3>1, <4>1 DEF Output
    <3>2. CASE g # h
      <4>1. Open(g) /\ stream[g].node \in Nodes
        BY <2>1, StreamFacts DEF Output
      <4>2. content[stream[g].node] \o heap[stream[g].at].data = meant[stream[g].node]
        BY <2>1 DEF StreamInv, Kept
      <4>3. content'[stream[g].node] = content[stream[g].node] /\ meant'[stream[g].node] = meant[stream[g].node]
        <5>1. CASE stream[h].kind = "input"
          BY <5>1
        <5>2. CASE stream[h].kind # "input"
          BY <2>1, <3>2, <4>1, <5>2 DEF StreamInv, OneWriter, Output
        <5> QED BY <5>1, <5>2
      <4>4. stream'[g].node = stream[g].node /\ heap'[stream'[g].at].data = heap[stream[g].at].data
        BY <3>2, <4>1, <1>4, <1>7
      <4> QED BY <4>2, <4>3, <4>4
    <3> QED BY <3>1, <3>2
  <2>2. ASSUME NEW n \in Nodes, \A g \in DOMAIN stream' : Output(g)' => stream'[g].node # n
        PROVE  content'[n] = meant'[n]
    <3>1. \A g \in DOMAIN stream : Output(g) => stream[g].node # n
      BY <2>2, <1>4, <1>6
    <3>2. content[n] = meant[n]
      BY <3>1 DEF StreamInv, Kept
    <3>3. content'[n] = content[n] /\ meant'[n] = meant[n]
      <4>1. CASE stream[h].kind = "input"
        BY <4>1
      <4>2. CASE stream[h].kind # "input"
        BY <3>1, <4>2 DEF Output
      <4> QED BY <4>1, <4>2
    <3> QED BY <3>2, <3>3
  <2> QED BY <2>1, <2>2, <1>5, <1>6 DEF Kept
<1> QED BY <1>3, <1>8, <1>9, <1>10, <1>11, <1>12 DEF StreamInv

LEMMA Idles ==
  ASSUME StreamInv, UNCHANGED <<dir, content, meant, heap, registered>>,
         stream' \in Seq(Stream), SameStreams,
         \A g \in DOMAIN stream : Open(g) => stream'[g].dirty = stream[g].dirty,
         "left" \in DOMAIN copy', copy'.left \in Text
  PROVE  StreamInv'
<1>1. StreamTypes'
  BY DEF StreamInv, StreamTypes
<1>2. \A g \in DOMAIN stream :
        /\ g \in DOMAIN stream' /\ stream'[g].kind = stream[g].kind /\ stream'[g].at = stream[g].at
        /\ stream'[g].node = stream[g].node /\ stream'[g].closed = stream[g].closed
  BY DEF SameStreams
<1>3. DOMAIN stream' = DOMAIN stream
  BY DEF SameStreams
<1>4. \A g \in DOMAIN stream : (Open(g)' <=> Open(g)) /\ (Output(g)' <=> Output(g))
  <2>1. ASSUME NEW g \in DOMAIN stream
        PROVE  (Open(g)' <=> Open(g)) /\ (Output(g)' <=> Output(g))
    BY <1>2 DEF Open, Output
  <2> QED BY <2>1
<1>5. Owns'
  BY <1>2, <1>3, <1>4 DEF StreamInv, Owns, Registered
<1>6. Apart' /\ OneWriter'
  BY <1>2, <1>3, <1>4 DEF StreamInv, Apart, OneWriter
<1>7. NoOthers'
  BY <1>2, <1>3, <1>4 DEF StreamInv, NoOthers
<1>8. Kept'
  BY <1>2, <1>3, <1>4 DEF StreamInv, Kept
<1> QED BY <1>1, <1>5, <1>6, <1>7, <1>8 DEF StreamInv
-----------------------------------------------------------------------------
(* Of the FILEs of a node, its writer's alone holds unwritten text. *)
LEMMA OnlyTheWriters ==
  ASSUME StreamInv, NEW n \in Nodes, NEW a \in Unflushed(n)
  PROVE  \E h \in DOMAIN stream : Output(h) /\ stream[h].at = a /\ stream[h].node = n /\ stream[h].dirty
<1>1. a \in Addresses /\ heap[a].node = n /\ heap[a].data # <<>>
  BY DEF Unflushed
<1>2. heap[a].open
  <2>1. NoFILE.data = <<>>
    BY DEF NoFILE
  <2> QED BY <2>1, <1>1 DEF StreamInv, NoOthers
<1>3. PICK h \in DOMAIN stream : Open(h) /\ stream[h].at = a
  BY <1>1, <1>2 DEF StreamInv, NoOthers
<1>4. stream[h].node = n /\ stream[h].kind # "input" /\ stream[h].dirty
  BY <1>1, <1>3 DEF StreamInv, Owns
<1> QED BY <1>3, <1>4 DEF Output

LEMMA KeptWaits ==
  ASSUME StreamInv, NEW n \in Nodes
  PROVE  \/ Unflushed(n) = {} /\ content[n] = meant[n]
         \/ \E a \in Addresses : Unflushed(n) = {a} /\ content[n] \o heap[a].data = meant[n]
<1>1. CASE Unflushed(n) = {}
  <2>1. CASE \E h \in DOMAIN stream : Output(h) /\ stream[h].node = n
    <3>1. PICK h \in DOMAIN stream : Output(h) /\ stream[h].node = n
      BY <2>1
    <3>2. stream[h].at \in Addresses /\ heap[stream[h].at].node = n
      BY <3>1, StreamFacts DEF StreamInv, Owns, Output
    <3>3. heap[stream[h].at].data = <<>>
      BY <3>2, <1>1 DEF Unflushed
    <3>4. content[n] \o <<>> = meant[n]
      BY <3>1, <3>3 DEF StreamInv, Kept
    <3>5. content[n] \o <<>> = content[n]
      BY EmptyConcat DEF StreamInv, StreamTypes
    <3> QED BY <1>1, <3>4, <3>5
  <2>2. CASE \A h \in DOMAIN stream : Output(h) => stream[h].node # n
    BY <1>1, <2>2 DEF StreamInv, Kept
  <2> QED BY <2>1, <2>2
<1>2. CASE Unflushed(n) # {}
  <2>1. PICK a \in Unflushed(n) : TRUE
    BY <1>2
  <2>2. a \in Addresses
    BY DEF Unflushed
  <2>3. PICK h \in DOMAIN stream : Output(h) /\ stream[h].at = a /\ stream[h].node = n
    BY OnlyTheWriters
  <2>4. ASSUME NEW b \in Unflushed(n) PROVE b = a
    <3>1. PICK g \in DOMAIN stream : Output(g) /\ stream[g].at = b /\ stream[g].node = n
      BY OnlyTheWriters
    <3> QED BY <2>3, <3>1 DEF StreamInv, OneWriter
  <2>5. Unflushed(n) = {a}
    BY <2>4
  <2>6. content[n] \o heap[a].data = meant[n]
    BY <2>3 DEF StreamInv, Kept
  <2> QED BY <2>2, <2>5, <2>6
<1> QED BY <1>1, <1>2

LEMMA KeepsWritten == StreamInv => WrittenIsKept
<1> SUFFICES ASSUME StreamInv PROVE WrittenIsKept
  OBVIOUS
<1>1. ASSUME NEW n \in Nodes, Unflushed(n) # {}
      PROVE  \E h \in DOMAIN stream : stream[h].node = n /\ stream[h].dirty
  BY <1>1, OnlyTheWriters
<1> QED BY <1>1, KeptWaits DEF WrittenIsKept
-----------------------------------------------------------------------------
LEMMA WaitingIs ==
  ASSUME StreamInv, NEW n \in Nodes
  PROVE  Waiting(n) \in Text /\ content[n] \o Waiting(n) = meant[n]
<1>1. CASE Unflushed(n) = {} /\ content[n] = meant[n]
  <2>1. Waiting(n) = <<>> /\ <<>> \in Text
    BY <1>1, EmptySeq DEF Waiting, Text
  <2>2. content[n] \o <<>> = content[n]
    BY EmptyConcat DEF StreamInv, StreamTypes
  <2> QED BY <1>1, <2>1, <2>2
<1>2. ASSUME NEW a \in Addresses, Unflushed(n) = {a}, content[n] \o heap[a].data = meant[n]
      PROVE  Waiting(n) \in Text /\ content[n] \o Waiting(n) = meant[n]
  <2>1. (CHOOSE b \in Unflushed(n) : TRUE) = a
    BY <1>2
  <2>2. Waiting(n) = heap[a].data
    BY <1>2, <2>1 DEF Waiting
  <2>3. heap[a].data \in Text
    BY DEF StreamInv, StreamTypes, FILE
  <2> QED BY <1>2, <2>2, <2>3
<1> QED BY <1>1, <1>2, KeptWaits

LEMMA Exits ==
  ASSUME StreamInv, Exit
  PROVE  StreamInv'
<1>1. stream' = <<>> /\ stream' \in Seq(Stream) /\ DOMAIN stream' = {}
  BY EmptySeq DEF Exit
<1>2. /\ heap' \in [Addresses -> FILE] /\ \A a \in Addresses : heap'[a] = NoFILE /\ ~heap'[a].open
  <2>1. <<>> \in Text
    BY EmptySeq DEF Text
  <2> QED BY <2>1 DEF Exit, NoFILE, FILE
<1>3. /\ registered' \in [StreamKinds -> SUBSET Addresses] /\ \A k \in StreamKinds : registered'[k] = {}
  BY DEF Exit
<1>4. meant' = meant /\ meant \in [Nodes -> Text] /\ \A n \in Nodes : content'[n] = meant[n]
  BY WaitingIs DEF Exit, history, StreamInv, StreamTypes
<1>5. content' \in [Nodes -> Text]
  <2>1. \A n \in Nodes : content[n] \o Waiting(n) \in Text
    BY WaitingIs DEF StreamInv, StreamTypes
  <2> QED BY <2>1 DEF Exit
<1>6. StreamTypes'
  BY <1>1, <1>2, <1>3, <1>4, <1>5 DEF StreamInv, StreamTypes, Exit
<1>7. Owns' /\ Apart' /\ OneWriter'
  BY <1>1 DEF Owns, Apart, OneWriter
<1>8. NoOthers'
  BY <1>2, <1>3 DEF NoOthers
<1>9. Kept'
  BY <1>1, <1>4 DEF Kept
<1> QED BY <1>6, <1>7, <1>8, <1>9 DEF StreamInv
-----------------------------------------------------------------------------
(* A text that is appended in two parts. *)
LEMMA InTwoParts ==
  ASSUME NEW c \in Text, NEW d \in Text, NEW s \in Text, NEW n \in 0 .. Len(d \o s)
  PROVE  /\ SubSeq(d \o s, 1, n) \in Text /\ Drop(d \o s, n) \in Text
         /\ c \o SubSeq(d \o s, 1, n) \in Text
         /\ (c \o SubSeq(d \o s, 1, n)) \o Drop(d \o s, n) = (c \o d) \o s
<1>1. PICK e \in Seq(Chars) : e = d \o s
  BY ConcatProperties DEF Text
<1>2. n \in 0 .. Len(e)
  BY <1>1
<1>3. PICK now \in Seq(Chars), later \in Seq(Chars) :
        now = SubSeq(e, 1, n) /\ later = Drop(e, n) /\ now \o later = e
  <2>1. SubSeq(e, 1, n) \in Seq(Chars)
    BY <1>2, TakeIs
  <2>2. Drop(e, n) \in Seq(Chars)
    BY <1>2, DropIs
  <2>3. SubSeq(e, 1, n) \o Drop(e, n) = e
    BY <1>2, TakeDrop, Zenon
  <2> QED BY <2>1, <2>2, <2>3
<1>4. c \in Seq(Chars) /\ d \in Seq(Chars) /\ s \in Seq(Chars)
  BY DEF Text
<1>5. (c \o now) \o later = c \o (now \o later) /\ (c \o d) \o s = c \o (d \o s)
  <2>1. \A x \in Seq(Chars) : (c \o now) \o x = c \o (now \o x)
    BY <1>4, Associative
  <2>2. \A x \in Seq(Chars) : (c \o d) \o x = c \o (d \o x)
    BY <1>4, Associative
  <2> QED BY <1>4, <2>1, <2>2
<1>6. c \o now \in Seq(Chars)
  BY <1>4, ConcatProperties
<1> QED BY <1>1, <1>3, <1>5, <1>6 DEF Text

(* What is written goes to the node or waits, after what waited before. *)
LEMMA Writing ==
  ASSUME ~StaleUse, StreamInv, NEW h \in DOMAIN stream, NEW s \in Text, Write(h, s),
         "left" \in DOMAIN copy', copy'.left \in Text
  PROVE  StreamInv' /\ DOMAIN stream' = DOMAIN stream
<1>0. Registered(h) <=> Open(h)
  BY UsesItsOwn DEF Write
<1>1. CASE ~Registered(h)
  BY <1>1, Idles DEF Write, SameStreams, StreamInv, StreamTypes
<1>2. CASE Registered(h)
  <2>1. PICK a \in Addresses, m \in Nodes, d \in Text :
          a = stream[h].at /\ m = stream[h].node /\ d = heap[a].data
    BY StreamFacts DEF FILE
  <2>2. /\ Open(h) /\ stream[h].kind # "input" /\ Output(h)
        /\ heap[a].open /\ heap[a].node = m /\ content[m] \o d = meant[m]
    BY <1>0, <1>2, <2>1 DEF Write, Output, StreamInv, Owns, Kept
  <2>3. PICK c \in Text : c = content[m] /\ meant[m] = c \o d
    BY <2>1, <2>2 DEF StreamInv, StreamTypes
  <2>4. PICK n \in 0 .. Len(d \o s) :
          /\ content' = [content EXCEPT ![m] = @ \o SubSeq(d \o s, 1, n)]
          /\ heap' = [heap EXCEPT ![a].data = Drop(d \o s, n)]
    <3>1. Fwrite(a, s)
      BY <1>2, <2>1 DEF Write
    <3>2. heap[a].data = d /\ heap[a].node = m
      BY <2>1, <2>2
    <3> QED BY <3>1, <3>2 DEF Fwrite
  <2> DEFINE now == SubSeq(d \o s, 1, n)
             later == Drop(d \o s, n)
  <2>5. /\ now \in Text /\ later \in Text /\ c \o now \in Text
        /\ (c \o now) \o later = (c \o d) \o s
    BY InTwoParts, Zenon
  <2>6. meant[m] \o s \in Text
    BY <2>3, ConcatProperties DEF StreamInv, StreamTypes, Text
  <2>7. content' = [content EXCEPT ![m] = c \o now] /\ heap' = [heap EXCEPT ![a].data = later]
    BY <2>3, <2>4
  <2> HIDE DEF now, later
  <2>8. PICK f \in FILE : f = [heap[a] EXCEPT !.data = later]
    BY <2>1, <2>5 DEF StreamInv, StreamTypes, FILE
  <2>9. f.open /\ f.node = m /\ f.data = later /\ heap' = [heap EXCEPT ![a] = f]
    BY <2>1, <2>2, <2>7, <2>5, <2>8 DEF StreamInv, StreamTypes, FILE
  <2>10. /\ stream' \in Seq(Stream) /\ SameStreams /\ stream'[h].dirty = TRUE
        /\ \A g \in DOMAIN stream \ {h} : stream'[g].dirty = stream[g].dirty
    <3>1. stream' = [stream EXCEPT ![h].dirty = TRUE]
      BY <1>2 DEF Write
    <3>2. stream \in Seq(Stream)
      BY DEF StreamInv, StreamTypes
    <3>3. [stream[h] EXCEPT !.dirty = TRUE] \in Stream
      BY StreamFacts DEF Stream
    <3>4. stream' \in Seq(Stream)
      BY <3>1, <3>2, <3>3, ExceptSeq
    <3> QED BY <3>1, <3>4, StreamFacts DEF SameStreams, Stream
  <2>11. meant' = [meant EXCEPT ![m] = @ \o s]
    BY <1>2, <2>1 DEF Write
  <2>12. /\ content' \in [Nodes -> Text] /\ meant' \in [Nodes -> Text]
         /\ \A k \in Nodes \ {m} : content'[k] = content[k] /\ meant'[k] = meant[k]
         /\ content'[m] = c \o now /\ meant'[m] = meant[m] \o s
    BY <2>6, <2>7, <2>5, <2>11 DEF StreamInv, StreamTypes
  <2>13. content'[stream[h].node] \o f.data = meant'[stream[h].node]
    BY <2>1, <2>3, <2>5, <2>9, <2>12
  <2>14. UNCHANGED <<dir, registered>>
    BY DEF Write
  <2>15. heap' = [heap EXCEPT ![stream[h].at] = f] /\ f.open /\ f.node = stream[h].node
    BY <2>1, <2>9
  <2>16. /\ content' \in [Nodes -> Text] /\ meant' \in [Nodes -> Text]
        /\ \A k \in Nodes \ {stream[h].node} : content'[k] = content[k] /\ meant'[k] = meant[k]
    BY <2>1, <2>12
  <2>17. StreamInv'
    BY <2>2, <2>10, <2>14, <2>13, <2>15, <2>16, Uses
  <2> QED BY <2>10, <2>17 DEF SameStreams
<1> QED BY <1>1, <1>2

LEMMA Flushing ==
  ASSUME ~StaleUse, StreamInv, NEW h \in DOMAIN stream, Flush(h)
  PROVE  StreamInv' /\ DOMAIN stream' = DOMAIN stream
<1>0. Registered(h) <=> Open(h)
  BY UsesItsOwn DEF Flush
<1>1. CASE ~Registered(h)
  BY <1>1, Idles DEF Flush, SameStreams, StreamInv, StreamTypes
<1>2. CASE Registered(h)
  <2>1. PICK a \in Addresses, m \in Nodes, d \in Text :
          a = stream[h].at /\ m = stream[h].node /\ d = heap[a].data
    BY StreamFacts DEF FILE
  <2>2. /\ Open(h) /\ stream[h].kind # "input" /\ Output(h)
        /\ heap[a].open /\ heap[a].node = m /\ content[m] \o d = meant[m]
    BY <1>0, <1>2, <2>1 DEF Flush, Output, StreamInv, Owns, Kept
  <2>3. /\ content' = [content EXCEPT ![m] = @ \o d] /\ heap' = [heap EXCEPT ![a].data = <<>>]
        /\ stream' = [stream EXCEPT ![h].dirty = FALSE]
        /\ UNCHANGED <<dir, registered, copy, meant>>
    BY <1>2, <2>1, <2>2 DEF Flush, Fflush
  <2>4. <<>> \in Text
    BY EmptySeq DEF Text
  <2>5. PICK f \in FILE : f = [heap[a] EXCEPT !.data = <<>>]
    BY <2>1, <2>4 DEF StreamInv, StreamTypes, FILE
  <2>6. /\ f.open /\ f.node = stream[h].node /\ f.data = <<>>
        /\ heap' = [heap EXCEPT ![stream[h].at] = f]
    BY <2>1, <2>2, <2>3, <2>5 DEF StreamInv, StreamTypes, FILE
  <2>7. /\ stream' \in Seq(Stream) /\ SameStreams
        /\ \A g \in DOMAIN stream \ {h} : stream'[g].dirty = stream[g].dirty
    <3>1. stream \in Seq(Stream)
      BY DEF StreamInv, StreamTypes
    <3>2. [stream[h] EXCEPT !.dirty = FALSE] \in Stream
      BY StreamFacts DEF Stream
    <3>3. stream' \in Seq(Stream)
      BY <2>3, <3>1, <3>2, ExceptSeq
    <3> QED BY <2>3, <3>3, StreamFacts DEF SameStreams, Stream
  <2>8. meant[m] \in Text
    BY DEF StreamInv, StreamTypes
  <2>9. /\ content' \in [Nodes -> Text] /\ content'[m] = meant[m]
        /\ \A k \in Nodes \ {m} : content'[k] = content[k]
    BY <2>2, <2>3, <2>8 DEF StreamInv, StreamTypes
  <2>10. meant[m] \o <<>> = meant[m]
    BY <2>8, EmptyConcat
  <2>11. content'[stream[h].node] \o f.data = meant'[stream[h].node]
    BY <2>1, <2>3, <2>6, <2>9, <2>10
  <2>12. /\ meant' \in [Nodes -> Text]
         /\ \A k \in Nodes \ {stream[h].node} : content'[k] = content[k] /\ meant'[k] = meant[k]
         /\ "left" \in DOMAIN copy' /\ copy'.left \in Text
    BY <2>1, <2>3, <2>9 DEF StreamInv, StreamTypes
  <2>13. StreamInv'
    BY <2>2, <2>3, <2>6, <2>7, <2>9, <2>11, <2>12, Uses
  <2> QED BY <2>7, <2>13 DEF SameStreams
<1> QED BY <1>1, <1>2

LEMMA ReadingBytes ==
  ASSUME ~StaleUse, StreamInv, NEW h \in DOMAIN stream, ReadBytes(h)
  PROVE  StreamInv' /\ stream' = stream
<1>0. Registered(h) <=> Open(h)
  BY UsesItsOwn DEF ReadBytes
<1>1. stream' = stream /\ SameStreams /\ stream' \in Seq(Stream)
  BY DEF ReadBytes, SameStreams, StreamInv, StreamTypes
<1>2. UNCHANGED <<dir, content, meant, registered, copy>>
  BY DEF ReadBytes, disk
<1>3. CASE ~Registered(h)
  BY <1>1, <1>2, <1>3, Idles DEF ReadBytes, StreamInv, StreamTypes
<1>4. CASE Registered(h)
  <2>1. PICK a \in Addresses : a = stream[h].at /\ heap[a] \in FILE
    BY StreamFacts
  <2>2. PICK n \in Nat : heap' = [heap EXCEPT ![a].pos = @ + n]
    <3>1. CopyBuffer \in Nat
      BY FilesAssumption
    <3>2. heap[a].node \in Nodes /\ content[heap[a].node] \in Seq(Chars) /\ heap[a].pos \in Nat
      BY <1>0, <1>4, <2>1, StreamFacts DEF StreamInv, Owns, StreamTypes, FILE, Text
    <3>3. ASSUME NEW s, s = Drop(content[heap[a].node], heap[a].pos) PROVE Len(s) \in Nat
      <4>1. PICK t \in Seq(Chars), p \in Nat : t = content[heap[a].node] /\ p = heap[a].pos
        BY <3>2
      <4>2. Drop(t, p) \in Seq(Chars)
        <5>1. CASE p <= Len(t)
          BY <5>1, DropIs
        <5>2. CASE ~(p <= Len(t))
          <6>1. Len(t) \in Nat
            BY LenProperties
          <6>2. SubSeq(t, p + 1, Len(t)) = <<>>
            BY <5>2, <6>1, SubSeqEmpty
          <6> QED BY <6>2, EmptySeq DEF Drop
        <5> QED BY <5>1, <5>2
      <4> QED BY <3>3, <4>1, <4>2, LenProperties
    <3>4. UpTo(CopyBuffer, Drop(content[heap[a].node], heap[a].pos)) \in Nat
      BY <3>1, <3>3 DEF UpTo
    <3> QED BY <1>4, <2>1, <3>4 DEF ReadBytes
  <2>3. PICK f \in FILE : f = [heap[a] EXCEPT !.pos = @ + n]
    BY <2>1, <2>2 DEF FILE
  <2>4. /\ f.open /\ f.node = stream[h].node /\ f.data = heap[a].data
        /\ heap' = [heap EXCEPT ![stream[h].at] = f]
    BY <1>0, <1>4, <2>1, <2>2, <2>3 DEF StreamInv, StreamTypes, Owns, FILE
  <2>5. stream[h].kind = "input" /\ f.data = <<>> /\ Open(h)
    BY <1>0, <1>4, <2>1, <2>4 DEF ReadBytes, StreamInv, Owns
  <2>6. /\ content' \in [Nodes -> Text] /\ meant' \in [Nodes -> Text]
        /\ "left" \in DOMAIN copy' /\ copy'.left \in Text
        /\ content' = content /\ meant' = meant
    BY <1>2 DEF StreamInv, StreamTypes
  <2>7. StreamInv'
    BY <1>1, <1>2, <2>4, <2>5, <2>6, Uses
  <2> QED BY <1>1, <2>7
<1> QED BY <1>3, <1>4

(* A stream that is closed, and its FILE with it. *)
LEMMA Closing ==
  ASSUME ~StaleUse, StreamInv, NEW h \in DOMAIN stream, CloseStream(h)
  PROVE  StreamInv'
<1>0. Registered(h) <=> Open(h)
  BY UsesItsOwn DEF CloseStream
<1>1. /\ stream' = [stream EXCEPT ![h].closed = TRUE, ![h].dirty = FALSE]
      /\ UNCHANGED <<dir, copy, meant>>
  BY DEF CloseStream
<1>2. /\ stream' \in Seq(Stream) /\ DOMAIN stream' = DOMAIN stream
      /\ stream'[h].closed = TRUE
      /\ \A g \in DOMAIN stream : /\ stream'[g].kind = stream[g].kind /\ stream'[g].at = stream[g].at
                                  /\ stream'[g].node = stream[g].node
      /\ \A g \in DOMAIN stream \ {h} : stream'[g] = stream[g]
  <2>1. stream \in Seq(Stream)
    BY DEF StreamInv, StreamTypes
  <2>2. PICK c \in Stream : c = [stream[h] EXCEPT !.closed = TRUE, !.dirty = FALSE]
    BY StreamFacts DEF Stream
  <2>3. stream' = [stream EXCEPT ![h] = c]
    BY <1>1, <2>2, StreamFacts DEF Stream
  <2>4. stream' \in Seq(Stream)
    BY <2>1, <2>3, ExceptSeq
  <2>5. /\ c.closed = TRUE /\ c.kind = stream[h].kind /\ c.at = stream[h].at /\ c.node = stream[h].node
    BY <2>2, StreamFacts DEF Stream
  <2> QED BY <2>3, <2>4, <2>5
<1>3. CASE ~Registered(h)
  <2>1. UNCHANGED <<content, heap, registered>> /\ ~Open(h)
    BY <1>0, <1>3 DEF CloseStream
  <2>2. \A g \in DOMAIN stream : stream'[g].closed = stream[g].closed
    <3>1. stream[h].closed = TRUE
      BY <2>1, StreamFacts DEF Open
    <3> QED BY <3>1, <1>2
  <2>3. SameStreams /\ \A g \in DOMAIN stream : Open(g) => stream'[g].dirty = stream[g].dirty
    BY <1>2, <2>1, <2>2 DEF SameStreams
  <2> QED BY <1>1, <1>2, <2>1, <2>3, Idles DEF StreamInv, StreamTypes
<1>4. CASE Registered(h)
  <2>1. PICK a \in Addresses, m \in Nodes, k \in StreamKinds :
          a = stream[h].at /\ m = stream[h].node /\ k = stream[h].kind
    BY StreamFacts
  <2>2. Open(h) /\ heap[a].open /\ heap[a].node = m
    BY <1>0, <1>4, <2>1 DEF StreamInv, Owns
  <2>3. /\ content' = [content EXCEPT ![m] = @ \o heap[a].data] /\ heap' = [heap EXCEPT ![a] = NoFILE]
        /\ registered' = [registered EXCEPT ![k] = @ \ {a}]
    BY <1>4, <2>1, <2>2 DEF CloseStream, Fflush
  <2>4. NoFILE \in FILE /\ ~NoFILE.open
    <3>1. <<>> \in Text
      BY EmptySeq DEF Text
    <3> QED BY <3>1 DEF NoFILE, FILE
  <2>5. /\ heap' \in [Addresses -> FILE] /\ heap'[a] = NoFILE
        /\ \A b \in Addresses \ {a} : heap'[b] = heap[b]
    BY <2>3, <2>4 DEF StreamInv, StreamTypes
  <2>6. /\ registered' \in [StreamKinds -> SUBSET Addresses]
        /\ registered'[k] = registered[k] \ {a}
        /\ \A l \in StreamKinds \ {k} : registered'[l] = registered[l]
    BY <2>3 DEF StreamInv, StreamTypes
  <2>7. k # "input" => content[m] \o heap[a].data = meant[m]
    BY <2>1, <2>2 DEF StreamInv, Kept, Output
  <2>8. k = "input" => content[m] \o heap[a].data = content[m]
    <3>1. k = "input" => heap[a].data = <<>>
      BY <2>1, <2>2 DEF StreamInv, Owns
    <3>2. content[m] \o <<>> = content[m]
      BY EmptyConcat DEF StreamInv, StreamTypes
    <3> QED BY <3>1, <3>2
  <2>9. /\ content' \in [Nodes -> Text]
        /\ \A n \in Nodes \ {m} : content'[n] = content[n]
        /\ k # "input" => content'[m] = meant[m]
        /\ k = "input" => content'[m] = content[m]
    BY <2>3, <2>7, <2>8 DEF StreamInv, StreamTypes
  <2>10. StreamTypes'
    BY <1>1, <1>2, <2>5, <2>6, <2>9 DEF StreamInv, StreamTypes
  <2>11. \A g \in DOMAIN stream : /\ Open(g)' <=> Open(g) /\ g # h
                                  /\ Output(g)' <=> Output(g) /\ g # h
    <3>1. ASSUME NEW g \in DOMAIN stream
          PROVE  (Open(g)' <=> Open(g) /\ g # h) /\ (Output(g)' <=> Output(g) /\ g # h)
      BY <1>2 DEF Open, Output
    <3> QED BY <3>1
  <2>12. ASSUME NEW g \in DOMAIN stream, Open(g), g # h
         PROVE  stream[g].at \in Addresses \ {a} /\ heap'[stream[g].at] = heap[stream[g].at]
    <3>1. stream[g].at \in Addresses /\ stream[g].at # a
      BY <2>1, <2>2, <2>12, StreamFacts DEF StreamInv, Apart
    <3> QED BY <3>1, <2>5
  <2>13. Owns'
    <3> SUFFICES ASSUME NEW g \in DOMAIN stream, Open(g), g # h
                 PROVE  /\ heap'[stream'[g].at].open
                        /\ heap'[stream'[g].at].node = stream'[g].node
                        /\ stream'[g].at \in registered'[stream'[g].kind]
                        /\ stream'[g].kind = "input" => heap'[stream'[g].at].data = <<>>
                        /\ heap'[stream'[g].at].data # <<>> => stream'[g].dirty
      BY <1>2, <2>11 DEF Owns, Registered
    <3>1. /\ heap[stream[g].at].open /\ heap[stream[g].at].node = stream[g].node
          /\ stream[g].at \in registered[stream[g].kind] /\ stream[g].kind \in StreamKinds
          /\ stream[g].kind = "input" => heap[stream[g].at].data = <<>>
          /\ heap[stream[g].at].data # <<>> => stream[g].dirty
      BY StreamFacts DEF StreamInv, Owns, Registered
    <3>2. stream[g].at \in registered'[stream[g].kind]
      BY <2>6, <2>12, <3>1
    <3> QED BY <1>2, <2>12, <3>1, <3>2
  <2>14. Apart' /\ OneWriter'
    BY <1>2, <2>11 DEF StreamInv, Apart, OneWriter
  <2>15. NoOthers'
    <3>1. ASSUME NEW b \in Addresses, heap'[b].open
          PROVE  \E g \in DOMAIN stream' : Open(g)' /\ stream'[g].at = b
      <4>1. b # a /\ heap[b].open
        BY <2>4, <2>5, <3>1
      <4>2. PICK g \in DOMAIN stream : Open(g) /\ stream[g].at = b
        BY <4>1 DEF StreamInv, NoOthers
      <4> QED BY <1>2, <2>1, <2>11, <4>1, <4>2
    <3>2. \A b \in Addresses : ~heap'[b].open => heap'[b] = NoFILE
      BY <2>5 DEF StreamInv, NoOthers
    <3>3. ASSUME NEW l \in StreamKinds, NEW b \in registered'[l]
          PROVE  \E g \in DOMAIN stream' : Open(g)' /\ stream'[g].kind = l /\ stream'[g].at = b
      <4>1. b \in registered[l] /\ (l # k \/ b # a)
        BY <2>6
      <4>2. PICK g \in DOMAIN stream : Open(g) /\ stream[g].kind = l /\ stream[g].at = b
        BY <4>1 DEF StreamInv, NoOthers
      <4> QED BY <1>2, <2>1, <2>11, <4>1, <4>2
    <3> QED BY <3>1, <3>2, <3>3 DEF NoOthers
  <2>16. Kept'
    <3>1. ASSUME NEW g \in DOMAIN stream, Output(g), g # h
          PROVE  content'[stream'[g].node] \o heap'[stream'[g].at].data = meant'[stream'[g].node]
      <4>1. Open(g) /\ stream[g].node \in Nodes
        BY <3>1, StreamFacts DEF Output
      <4>2. content[stream[g].node] \o heap[stream[g].at].data = meant[stream[g].node]
        BY <3>1 DEF StreamInv, Kept
      <4>3. content'[stream[g].node] = content[stream[g].node]
        <5>1. CASE k = "input"
          BY <5>1, <4>1, <2>9
        <5>2. CASE k # "input"
          <6>1. stream[g].node # m
            BY <2>1, <2>2, <3>1, <5>2 DEF StreamInv, OneWriter, Output
          <6> QED BY <6>1, <4>1, <2>9
        <5> QED BY <5>1, <5>2
      <4>4. stream'[g] = stream[g] /\ heap'[stream[g].at] = heap[stream[g].at]
        BY <1>2, <2>12, <3>1, <4>1
      <4> QED BY <1>1, <4>2, <4>3, <4>4
    <3>2. ASSUME NEW n \in Nodes, \A g \in DOMAIN stream' : Output(g)' => stream'[g].node # n
          PROVE  content'[n] = meant'[n]
      <4>1. CASE n = m /\ k # "input"
        BY <4>1, <1>1, <2>9
      <4>2. CASE n # m \/ k = "input"
        <5>1. \A g \in DOMAIN stream : Output(g) => stream[g].node # n
          BY <1>2, <2>1, <2>11, <3>2, <4>2 DEF Output
        <5>2. content[n] = meant[n]
          BY <5>1 DEF StreamInv, Kept
        <5> QED BY <1>1, <2>9, <4>2, <5>2
      <4> QED BY <4>1, <4>2
    <3> QED BY <1>2, <2>11, <3>1, <3>2 DEF Kept
  <2> QED BY <2>10, <2>13, <2>14, <2>15, <2>16 DEF StreamInv
<1> QED BY <1>3, <1>4
-----------------------------------------------------------------------------
LEMMA ToldRight ==
  ASSUME ~StaleUse, StreamInv, NEW h \in DOMAIN stream, MayUse(h),
         \/ Registered(h) /\ \E a \in {"done", Nil} : Told(h, a)
         \/ ~Registered(h) /\ Told(h, Closed)
  PROVE  ClosedIsRefused'
<1>1. Registered(h) <=> ~stream[h].closed
  BY UsesItsOwn DEF Open
<1>2. Nil # Closed /\ "done" # Closed
  BY ReaderAssumption, FilesAssumption
<1> QED BY <1>1, <1>2 DEF Told, ClosedIsRefused

LEMMA FilesStutters == ASSUME FilesInv, UNCHANGED fvars PROVE FilesInv'
<1>1. /\ UNCHANGED <<program, dir, content, meant, heap, registered, stream, copy, told>>
  BY DEF fvars, disk, table, history
<1>2. ClosedIsRefused' /\ (Busy => Busy')
  BY <1>1 DEF FilesInv, ClosedIsRefused, Busy
<1>3. StreamInv => StreamInv'
  <2> SUFFICES ASSUME StreamInv PROVE StreamInv'
    OBVIOUS
  <2> QED BY <1>1, Idles DEF SameStreams, StreamInv, StreamTypes
<1> QED BY <1>1, <1>2, <1>3 DEF FilesInv

(* A program that pours or writes opens a file to write to. *)
LEMMA OpensOutput ==
  ASSUME StreamInv, NEW k \in {"writer", "output"}, NEW p \in Paths, NEW append \in BOOLEAN,
         NEW a \in Addresses, OpenOutput(k, p, append, a)
  PROVE  StreamInv' /\ ClosedIsRefused' /\ stream' # <<>> /\ UNCHANGED <<program, copy>>
<1>1. PICK n \in Nodes : /\ \A g \in DOMAIN stream : ~Writes(g, n)
                         /\ Fopen(a, n) /\ Register(k, a, n)
                         /\ dir' = [dir EXCEPT ![p] = n]
                         /\ Truncate(n, append /\ dir[p] # Nil)
  BY DEF OpenOutput
<1>2. k \in StreamKinds /\ k # "input"
  BY DEF StreamKinds
<1>3. UNCHANGED <<program, copy>>
  BY DEF OpenOutput
<1>4. dir' \in [Paths -> Nodes \cup {Nil}]
  BY <1>1 DEF StreamInv, StreamTypes
<1>5. \/ UNCHANGED <<content, meant>>
      \/ content' = [content EXCEPT ![n] = <<>>] /\ meant' = [meant EXCEPT ![n] = <<>>]
  BY <1>1 DEF Truncate
<1>6. StreamInv'
  BY <1>1, <1>2, <1>3, <1>4, <1>5, Opens
<1>7. ClosedIsRefused'
  BY <1>1 DEF Register, ClosedIsRefused
<1>8. stream' # <<>>
  <2>1. stream' = Append(stream, [kind |-> k, at |-> a, node |-> n, closed |-> FALSE, dirty |-> FALSE])
    BY <1>1 DEF Register
  <2>2. stream \in Seq(Stream) /\ [kind |-> k, at |-> a, node |-> n, closed |-> FALSE, dirty |-> FALSE] \in Stream
    BY <1>2 DEF StreamInv, StreamTypes, Stream
  <2> QED BY <2>1, <2>2, AppendProperties
<1> QED BY <1>3, <1>6, <1>7, <1>8

LEMMA WritesSteps ==
  ASSUME ~StaleUse, FilesInv, program = "writes", UseStream
  PROVE  FilesInv'
<1>1. StreamInv /\ copy.pc = "idle" /\ ClosedIsRefused
  BY DEF FilesInv, Busy
<1>2. CASE \E p \in Paths, a \in Addresses : OpenInput(p, a)
  <2>1. PICK p \in Paths, a \in Addresses : OpenInput(p, a)
    BY <1>2
  <2>2. PICK n \in Nodes : n = dir[p]
    BY <1>1, <2>1 DEF OpenInput, StreamInv, StreamTypes
  <2>3. /\ Fopen(a, n) /\ Register("input", a, n)
        /\ UNCHANGED <<program, dir, content, copy, meant>>
    BY <2>1, <2>2 DEF OpenInput, disk
  <2>4. dir' \in [Paths -> Nodes \cup {Nil}] /\ "input" \in StreamKinds
    BY <1>1, <2>3 DEF StreamInv, StreamTypes, StreamKinds
  <2>5. StreamInv'
    BY <1>1, <2>3, <2>4, Opens
  <2>6. ClosedIsRefused'
    BY <2>3 DEF Register, ClosedIsRefused
  <2> QED BY <1>1, <2>3, <2>5, <2>6 DEF FilesInv, Busy
<1>3. CASE \E p \in Paths, a \in Addresses, k \in {"writer", "output"}, append \in BOOLEAN :
             OpenOutput(k, p, append, a)
  BY <1>1, <1>3, OpensOutput DEF FilesInv, Busy
<1>4. CASE \E h \in DOMAIN stream, s \in Pushable : Write(h, s) /\ UNCHANGED <<program, copy>>
  <2>1. PICK h \in DOMAIN stream, s \in Pushable : Write(h, s) /\ UNCHANGED <<program, copy>>
    BY <1>4
  <2>2. s \in Text
    BY ReaderAssumption
  <2>3. StreamInv'
    BY <1>1, <2>1, <2>2, Writing DEF StreamInv, StreamTypes
  <2>4. ClosedIsRefused'
    BY <1>1, <2>1, ToldRight DEF Write
  <2> QED BY <1>1, <2>1, <2>3, <2>4 DEF FilesInv, Busy
<1>5. ASSUME NEW h \in DOMAIN stream, Flush(h) \/ ReadBytes(h) \/ CloseStream(h) PROVE FilesInv'
  <2>1. StreamInv'
    BY <1>1, <1>5, Flushing, ReadingBytes, Closing
  <2>2. UNCHANGED <<program, copy>>
    BY <1>5 DEF Flush, ReadBytes, CloseStream
  <2>3. CASE Flush(h)
    <3>1. ClosedIsRefused'
      BY <1>1, <2>3, ToldRight DEF Flush
    <3> QED BY <1>1, <2>1, <2>2, <3>1 DEF FilesInv, Busy
  <2>4. CASE ReadBytes(h)
    <3>1. ClosedIsRefused'
      BY <1>1, <2>4, ToldRight DEF ReadBytes
    <3> QED BY <1>1, <2>1, <2>2, <3>1 DEF FilesInv, Busy
  <2>5. CASE CloseStream(h)
    <3>1. ClosedIsRefused'
      BY <2>5 DEF CloseStream, ClosedIsRefused
    <3> QED BY <1>1, <2>1, <2>2, <3>1 DEF FilesInv, Busy
  <2> QED BY <1>5, <2>3, <2>4, <2>5
<1>6. CASE OpenThrows
  <2>1. UNCHANGED <<program, dir, content, meant, heap, registered, stream, copy>>
    BY <1>6 DEF OpenThrows, disk, table
  <2>2. StreamInv'
    BY <1>1, <2>1, Idles DEF SameStreams, StreamInv, StreamTypes
  <2>3. ClosedIsRefused'
    BY <1>6 DEF OpenThrows, ClosedIsRefused
  <2> QED BY <1>1, <2>1, <2>2, <2>3 DEF FilesInv, Busy
<1>7. CASE Exit
  <2>1. StreamInv'
    BY <1>1, <1>7, Exits
  <2>2. UNCHANGED <<copy, told>>
    BY <1>7 DEF Exit, history
  <2> QED BY <1>1, <2>1, <2>2 DEF FilesInv, Busy, ClosedIsRefused
<1> QED BY <1>2, <1>3, <1>4, <1>5, <1>6, <1>7 DEF UseStream

(* A step that leaves the streams alone. *)
LEMMA LeavesStreams ==
  ASSUME StreamInv, ClosedIsRefused, UNCHANGED <<program, disk, table, history>>,
         "left" \in DOMAIN copy', copy'.left \in Text, Busy'
  PROVE  FilesInv'
<1>1. UNCHANGED <<program, dir, content, meant, heap, registered, stream, told>>
  BY DEF disk, table, history
<1>2. StreamInv'
  BY <1>1, Idles DEF SameStreams, StreamInv, StreamTypes
<1> QED BY <1>1, <1>2 DEF FilesInv, ClosedIsRefused

LEMMA PoursSteps ==
  ASSUME ~StaleUse, FilesInv, program = "pours", Pour \/ PourStep
  PROVE  FilesInv'
<1>1. StreamInv /\ Busy /\ ClosedIsRefused /\ "left" \in DOMAIN copy /\ copy.left \in Text
  BY DEF FilesInv, StreamInv, StreamTypes
<1>2. CASE Pour
  <2>1. copy' = [NoCopy EXCEPT !.pc = "pour", !.way = stream[1].kind, !.before = Rest]
    BY <1>2 DEF Pour
  <2>2. "left" \in DOMAIN copy' /\ copy'.left \in Text
    BY <2>1, EmptySeq DEF NoCopy, Text
  <2>3. UNCHANGED <<program, disk, table, history>> /\ stream # <<>>
    BY <1>2 DEF Pour
  <2>4. Busy'
    BY <2>3 DEF Busy, table
  <2> QED BY <1>1, <2>2, <2>3, <2>4, LeavesStreams
<1>3. CASE PourRead
  <2>1. UNCHANGED <<program, disk, table, history>> /\ stream # <<>>
    BY <1>1, <1>3 DEF PourRead, Busy
  <2>2. "left" \in DOMAIN copy' /\ copy'.left \in Text
    <3>1. ASSUME answer' \in Text PROVE copy.left \o answer' \in Text
      BY <1>1, <3>1, ConcatProperties DEF Text
    <3> QED BY <1>1, <1>3, <3>1 DEF PourRead
  <2>3. Busy'
    BY <2>1 DEF Busy, table
  <2> QED BY <1>1, <2>1, <2>2, <2>3, LeavesStreams
<1>4. CASE SlurpCloses
  <2>1. UNCHANGED <<program, disk, table, history>> /\ stream # <<>>
    BY <1>1, <1>4 DEF SlurpCloses, Busy
  <2>2. "left" \in DOMAIN copy' /\ copy'.left \in Text
    BY <1>1, <1>4 DEF SlurpCloses
  <2>3. Busy'
    BY <2>1 DEF Busy, table
  <2> QED BY <1>1, <2>1, <2>2, <2>3, LeavesStreams
<1>5. CASE PourWrite
  <2>1. 1 \in DOMAIN stream /\ stream # <<>>
    <3>1. stream # <<>> /\ stream \in Seq(Stream)
      BY <1>1, <1>5 DEF PourWrite, Busy, StreamInv, StreamTypes
    <3> QED BY <3>1, EmptySeq, LenProperties
  <2>2. "left" \in DOMAIN copy' /\ copy'.left \in Text
    BY <1>1, <1>5, EmptySeq DEF PourWrite, Text
  <2>3. Write(1, copy.left) /\ program' = program
    BY <1>5 DEF PourWrite
  <2>4. StreamInv' /\ DOMAIN stream' = DOMAIN stream
    BY <1>1, <2>1, <2>2, <2>3, Writing
  <2>5. ClosedIsRefused'
    BY <1>1, <2>1, <2>3, ToldRight DEF Write
  <2>6. stream' # <<>>
    BY <2>1, <2>4
  <2> QED BY <2>3, <2>4, <2>5, <2>6 DEF FilesInv, Busy
<1>6. CASE \E c \in Chars : SourceGrows(c)
  <2>1. UNCHANGED <<program, disk, table, history>> /\ stream # <<>>
    BY <1>1, <1>6 DEF SourceGrows, Busy
  <2>2. "left" \in DOMAIN copy' /\ copy'.left \in Text
    BY <1>1, <1>6 DEF SourceGrows
  <2>3. Busy'
    BY <2>1 DEF Busy, table
  <2> QED BY <1>1, <2>1, <2>2, <2>3, LeavesStreams
<1> QED BY <1>2, <1>3, <1>4, <1>5, <1>6 DEF PourStep

LEMMA CopiesSteps ==
  ASSUME FilesInv, program = "copies", CopyFiles
  PROVE  FilesInv'
<1>1. program' = program /\ told' = told
  BY DEF CopyFiles, CopyFile, CopyStep, OpenFrom, OpenTo, Unlink, ReadSource, WriteTarget,
         CloseBoth, CopyFails, Step, Meddles, Grows, history
<1> QED BY <1>1 DEF FilesInv, ClosedIsRefused

LEMMA EveryFilesStep == ASSUME ~StaleUse, FilesInv, [FilesNext]_allvars PROVE FilesInv'
<1>1. CASE UNCHANGED fvars
  BY <1>1, FilesStutters
<1>2. CASE program = "writes" /\ UseStream
  BY <1>2, WritesSteps
<1>3. CASE program = "copies" /\ CopyFiles
  BY <1>3, CopiesSteps
<1>4. ASSUME program = "pours", NEW p \in Paths, NEW k \in {"writer", "output"}, NEW a \in Addresses,
             OpenOutput(k, p, FALSE, a)
      PROVE  FilesInv'
  <2>1. StreamInv
    BY <1>4 DEF FilesInv
  <2>2. StreamInv' /\ ClosedIsRefused' /\ stream' # <<>> /\ UNCHANGED <<program, copy>>
    BY <1>4, <2>1, OpensOutput
  <2> QED BY <1>4, <2>2 DEF FilesInv, Busy
<1>5. CASE program = "pours" /\ (Pour \/ PourStep)
  BY <1>5, PoursSteps
<1> QED BY <1>1, <1>2, <1>3, <1>4, <1>5 DEF FilesNext, allvars
-----------------------------------------------------------------------------
(* Copies.  What a call of copy knows, from step to step. *)
Calls == [pc : {"idle", "open from", "open to", "unlink", "read", "write", "close", "done",
                "failed", "pour", "put", "finally"},
          way : {"file"} \cup StreamKinds,
          from : Paths \cup {Nil}, to : Paths \cup {Nil},
          source : Nodes \cup {Nil}, target : Nodes \cup {Nil},
          again : BOOLEAN, at : Nat, left : Text, before : Text]

(* The text of the source now begins with what it was when it was opened, ... *)
Began(text, before) == /\ Len(before) <= Len(text)
                       /\ text = before \o Drop(text, Len(before))

(* ... and the target has what was read of it, but for what is left. *)
Copied(text, had, left, at) == at <= Len(text) /\ had \o left = SubSeq(text, 1, at)

CopyTypes == /\ dir \in [Paths -> Nodes \cup {Nil}]
             /\ content \in [Nodes -> Text]
             /\ copy \in Calls /\ copy.way = "file"
             /\ copy.pc # "idle" => copy.from \in Paths /\ copy.to \in Paths /\ copy.from # copy.to

CopyLabels == /\ copy.pc \in {"idle", "open from", "open to", "unlink"} => copy.target = Nil
              /\ copy.pc = "idle" => copy = NoCopy
              /\ copy.pc \in {"open to", "read", "write", "close", "done"} => copy.source # Nil
              /\ copy.pc \in {"read", "write", "close", "done"} => copy.target # Nil
              /\ copy.pc \in {"read", "close", "done"} => copy.left = <<>>
              /\ copy.pc \in {"close", "done"} => copy.at >= Len(copy.before)

SourceInv == copy.source # Nil => /\ copy.pc # "idle"
                                  /\ dir[copy.from] = copy.source
                                  /\ Began(content[copy.source], copy.before)
TargetInv == /\ copy.target = Nil => copy.at = 0 /\ copy.left = <<>>
             /\ copy.target # Nil =>
                  /\ copy.source # Nil /\ copy.target # copy.source
                  /\ Copied(content[copy.source], content[copy.target], copy.left, copy.at)

CopyInv == CopyTypes /\ CopyLabels /\ SourceInv /\ TargetInv

(* Pouring.  What was read and not yet written, with what is still to be   *)
(* read, makes up the text.                                                *)
Poured == meant[stream[1].node]
ByPieces == /\ copy.pc \in {"pour", "put"} => Poured \o (copy.left \o Rest) = copy.before
            /\ copy.pc = "pour" => copy.left = <<>>
            /\ copy.pc = "done" => Poured = copy.before
            /\ copy.pc # "close"
AsAWhole == /\ copy.pc = "pour" => copy.left \o Rest = copy.before /\ Poured = <<>>
            /\ copy.pc \in {"close", "put"} => copy.left = copy.before /\ Poured = <<>>
            /\ copy.pc = "put" => kind # "file" \/ ~open
            /\ copy.pc = "done" => Poured = copy.before
PourInv == /\ copy \in Calls
           /\ copy.pc \in {"idle", "pour", "put", "close", "finally", "done", "failed"}
           /\ copy.pc # "idle" => copy.way \in {"writer", "output"}
           /\ stream # <<>> => stream[1].kind \in {"writer", "output"} /\ ~stream[1].closed
           /\ copy.pc = "idle" /\ stream # <<>> => Poured = <<>>
           /\ copy.way = "writer" => ByPieces
           /\ copy.way = "output" => AsAWhole

CopiesInv == /\ program = "copies" => CopyInv
             /\ program = "pours" => PourInv
LEMMA Grown ==
  ASSUME NEW s \in Text, NEW c \in Chars
  PROVE  /\ Append(s, c) \in Text
         /\ \A b \in Text : Began(s, b) => Began(Append(s, c), b)
         /\ \A h, l \in Text : \A at \in Nat : Copied(s, h, l, at) => Copied(Append(s, c), h, l, at)
<1> USE DEF Text
<1>1. /\ Append(s, c) = s \o <<c>> /\ <<c>> \in Text /\ Append(s, c) \in Text
      /\ Len(Append(s, c)) = Len(s) + 1 /\ Len(s) \in Nat
  BY AppendProperties, AppendIsConcat, LenProperties
<1>2. ASSUME NEW b \in Text, Began(s, b) PROVE Began(Append(s, c), b)
  <2>1. Len(b) \in 0 .. Len(s) /\ s = b \o Drop(s, Len(b)) /\ Len(b) <= Len(Append(s, c))
    BY <1>1, <1>2, LenProperties DEF Began
  <2>2. Drop(s \o <<c>>, Len(b)) = Drop(s, Len(b)) \o <<c>> /\ Drop(s, Len(b)) \in Text
    BY <1>1, <2>1, DropConcat, DropIs
  <2>3. (b \o Drop(s, Len(b))) \o <<c>> = b \o (Drop(s, Len(b)) \o <<c>>)
    BY <1>1, <2>2, Associative
  <2>4. s \o <<c>> = b \o Drop(s \o <<c>>, Len(b))
    BY <2>1, <2>2, <2>3
  <2> QED BY <1>1, <2>1, <2>4 DEF Began
<1>3. ASSUME NEW h \in Text, NEW l \in Text, NEW at \in Nat, Copied(s, h, l, at)
      PROVE  Copied(Append(s, c), h, l, at)
  <2>1. at \in 0 .. Len(s)
    BY <1>1, <1>3 DEF Copied
  <2>2. SubSeq(s \o <<c>>, 1, at) = SubSeq(s, 1, at)
    BY <1>1, <2>1, TakeConcat
  <2> QED BY <1>1, <1>3, <2>2 DEF Copied
<1> QED BY <1>1, <1>2, <1>3

LEMMA Begins == ASSUME NEW s \in Text PROVE Began(s, s) /\ Copied(s, <<>>, <<>>, 0)
<1>1. Drop(s, Len(s)) = <<>> /\ s \o <<>> = s /\ Len(s) \in Nat
  BY DropAll, EmptyConcat, LenProperties DEF Text
<1>2. SubSeq(s, 1, 0) = <<>> /\ <<>> \in Text
  BY SubSeqEmpty, EmptySeq, <1>1 DEF Text
<1>3. <<>> \o <<>> = <<>>
  BY <1>2, EmptyConcat
<1> QED BY <1>1, <1>2, <1>3 DEF Began, Copied

LEMMA ReadsOn ==
  ASSUME NEW s \in Text, NEW h \in Text, NEW at \in Nat, Copied(s, h, <<>>, at),
         NEW n \in 0 .. Len(Drop(s, at))
  PROVE  /\ SubSeq(Drop(s, at), 1, n) \in Text
         /\ Len(Drop(s, at)) = Len(s) - at
         /\ Copied(s, h, SubSeq(Drop(s, at), 1, n), at + n)
<1> USE DEF Text
<1>1. Len(s) \in Nat /\ at \in 0 .. Len(s) /\ h = SubSeq(s, 1, at)
  BY LenProperties, EmptyConcat DEF Copied
<1>2. Drop(s, at) \in Text /\ Len(Drop(s, at)) = Len(s) - at
  BY <1>1, DropIs
<1>3. SubSeq(Drop(s, at), 1, n) \in Text
  BY <1>2, TakeIs
<1>4. n \in 0 .. Len(s) - at /\ at + n \in 0 .. Len(s) /\ at + n \in at .. Len(s) /\ n \in Nat
  BY <1>1, <1>2
<1>5. SubSeq(Drop(s, at), 1, n) = SubSeq(s, at + 1, at + n)
  BY <1>1, <1>4, TakeOfDrop
<1>6. SubSeq(s, 1, at) \o SubSeq(s, at + 1, at + n) = SubSeq(s, 1, at + n)
  <2>1. 1 \in 1 .. Len(s) + 1 /\ at \in (1 - 1) .. Len(s) /\ at + n \in at .. Len(s)
    BY <1>1, <1>4
  <2> QED BY <2>1, ConcatAdjacentSubSeq, Zenon
<1> QED BY <1>1, <1>2, <1>3, <1>4, <1>5, <1>6 DEF Copied

LEMMA WritesOn ==
  ASSUME NEW s \in Text, NEW h \in Text, NEW l \in Text, NEW at \in Nat, Copied(s, h, l, at),
         NEW n \in 0 .. Len(l)
  PROVE  /\ h \o SubSeq(l, 1, n) \in Text /\ Drop(l, n) \in Text
         /\ Len(Drop(l, n)) = Len(l) - n
         /\ Copied(s, h \o SubSeq(l, 1, n), Drop(l, n), at)
<1> USE DEF Text
<1>1. /\ SubSeq(l, 1, n) \in Text /\ Drop(l, n) \in Text /\ Len(Drop(l, n)) = Len(l) - n
      /\ SubSeq(l, 1, n) \o Drop(l, n) = l
  BY TakeIs, DropIs, TakeDrop
<1>2. h \o SubSeq(l, 1, n) \in Text
  BY <1>1, ConcatProperties
<1>3. (h \o SubSeq(l, 1, n)) \o Drop(l, n) = h \o (SubSeq(l, 1, n) \o Drop(l, n))
  BY <1>1, Associative
<1>4. (h \o SubSeq(l, 1, n)) \o Drop(l, n) = h \o l
  BY <1>1, <1>3
<1> QED BY <1>1, <1>2, <1>4 DEF Copied

(* The calls and steps of copying a file. *)
LEMMA CallsStart ==
  ASSUME ~OntoItself, CopyInv, \E p, q \in Paths : CopyFile(p, q)
  PROVE  CopyInv'
<1>1. PICK p \in Paths, q \in Paths : CopyFile(p, q)
  OBVIOUS
<1>2. /\ p # q /\ dir' = dir /\ content' = content
      /\ copy' = [NoCopy EXCEPT !.pc = "open from", !.from = p, !.to = q]
  BY <1>1 DEF CopyFile, Step, disk
<1>3. <<>> \in Text
  BY EmptySeq DEF Text
<1> QED BY <1>2, <1>3 DEF NoCopy, CopyInv, CopyTypes, CopyLabels, SourceInv, TargetInv, Calls

LEMMA OpensFrom == ASSUME CopyInv, OpenFrom PROVE CopyInv'
<1>1. PICK n \in Nodes : n = dir[copy.from] /\ n # Nil
  BY FilesAssumption DEF OpenFrom, CopyInv, CopyTypes
<1>2. /\ copy' = [copy EXCEPT !.pc = "open to", !.source = n, !.before = content[n]]
      /\ dir' = dir /\ content' = content /\ copy.pc = "open from"
  BY <1>1 DEF OpenFrom, Step, disk
<1>3. content[n] \in Text
  BY DEF CopyInv, CopyTypes
<1>4. Began(content[n], content[n])
  BY <1>3, Begins
<1> QED BY <1>1, <1>2, <1>3, <1>4
        DEF CopyInv, CopyTypes, CopyLabels, SourceInv, TargetInv, Calls

LEMMA OpensTo == ASSUME CopyInv, OpenTo PROVE CopyInv'
<1>1. copy.pc = "open to" /\ copy.source \in Nodes /\ copy.target = Nil
      /\ copy.from \in Paths /\ copy.to \in Paths /\ copy.from # copy.to
  BY DEF OpenTo, CopyInv, CopyTypes, CopyLabels, Calls
<1>2. ASSUME NEW n \in Nodes \ Taken, dir' = [dir EXCEPT ![copy.to] = n],
             content' = [content EXCEPT ![n] = <<>>], Step([copy EXCEPT !.pc = "read", !.target = n])
      PROVE  CopyInv'
  <2>1. n # copy.source /\ n # Nil
    BY FilesAssumption DEF Taken
  <2>2. copy' = [copy EXCEPT !.pc = "read", !.target = n]
    BY <1>2 DEF Step
  <2>3. <<>> \in Text
    BY EmptySeq DEF Text
  <2>4. content'[n] = <<>> /\ content'[copy.source] = content[copy.source]
        /\ content[copy.source] \in Text
    BY <1>1, <1>2, <2>1 DEF CopyInv, CopyTypes
  <2>5. Copied(content[copy.source], <<>>, <<>>, 0)
    BY <2>4, Begins
  <2>6. CopyTypes'
    BY <1>1, <1>2, <2>2, <2>3 DEF CopyInv, CopyTypes, Calls
  <2>7. CopyLabels'
    BY <1>1, <2>1, <2>2, <2>3 DEF CopyInv, CopyTypes, Calls, CopyLabels, TargetInv
  <2>8. SourceInv'
    BY <1>1, <1>2, <2>2, <2>4 DEF CopyInv, CopyTypes, Calls, SourceInv
  <2>9. TargetInv'
    <3>1. copy'.target = n /\ copy'.source = copy.source /\ copy'.left = <<>> /\ copy'.at = 0
      BY <1>1, <2>2 DEF CopyInv, CopyTypes, Calls, TargetInv
    <3> QED BY <1>1, <2>1, <2>4, <2>5, <3>1, FilesAssumption DEF TargetInv
  <2> QED BY <2>6, <2>7, <2>8, <2>9 DEF CopyInv
<1>3. ASSUME Step([copy EXCEPT !.pc = IF copy.again THEN "failed" ELSE "unlink"]), UNCHANGED disk
      PROVE  CopyInv'
  BY <1>1, <1>3 DEF Step, disk, CopyInv, CopyTypes, CopyLabels, SourceInv, TargetInv, Calls
<1> QED BY <1>2, <1>3 DEF OpenTo

LEMMA Unlinks == ASSUME CopyInv, Unlink PROVE CopyInv'
<1>1. copy.pc = "unlink" /\ content' = content
      /\ copy.from \in Paths /\ copy.to \in Paths /\ copy.from # copy.to
  BY DEF Unlink, CopyInv, CopyTypes
<1>2. \/ dir' = dir
      \/ dir' = [dir EXCEPT ![copy.to] = Nil]
  BY DEF Unlink
<1>3. \/ copy' = [copy EXCEPT !.pc = "open from", !.again = TRUE]
      \/ copy' = [copy EXCEPT !.pc = "failed"]
  BY DEF Unlink, Step
<1>4. /\ copy'.pc \in {"open from", "failed"} /\ copy' \in Calls
      /\ copy'.from = copy.from /\ copy'.to = copy.to /\ copy'.source = copy.source
      /\ copy'.target = copy.target /\ copy'.at = copy.at /\ copy'.left = copy.left
      /\ copy'.before = copy.before /\ copy'.way = copy.way
  BY <1>3 DEF CopyInv, CopyTypes, Calls
<1>5. dir' \in [Paths -> Nodes \cup {Nil}] /\ dir'[copy.from] = dir[copy.from]
  BY <1>1, <1>2 DEF CopyInv, CopyTypes
<1>6. CopyTypes' /\ CopyLabels'
  BY <1>1, <1>4, <1>5 DEF CopyInv, CopyTypes, CopyLabels
<1>7. SourceInv' /\ TargetInv'
  BY <1>1, <1>4, <1>5 DEF CopyInv, SourceInv, TargetInv
<1> QED BY <1>6, <1>7 DEF CopyInv

LEMMA ReadsSource == ASSUME CopyInv, ReadSource PROVE CopyInv'
<1>1. /\ copy.pc = "read" /\ copy.left = <<>> /\ copy.source \in Nodes /\ copy.target \in Nodes
      /\ copy.source # Nil /\ copy.target # Nil
      /\ content[copy.source] \in Text /\ content[copy.target] \in Text /\ copy.at \in Nat
      /\ Copied(content[copy.source], content[copy.target], <<>>, copy.at)
      /\ Began(content[copy.source], copy.before) /\ copy.before \in Text
  BY DEF ReadSource, CopyInv, CopyTypes, CopyLabels, SourceInv, TargetInv, Calls
<1> DEFINE ahead == Drop(content[copy.source], copy.at)
           n == UpTo(CopyBuffer, ahead)
           left == SubSeq(ahead, 1, n)
<1>2. Len(content[copy.source]) \in Nat /\ copy.at \in 0 .. Len(content[copy.source])
  BY <1>1, LenProperties DEF Copied, Text
<1>3. ahead \in Text /\ Len(ahead) = Len(content[copy.source]) - copy.at
  BY <1>1, <1>2, DropIs DEF Text
<1>4. n \in 0 .. Len(ahead) /\ n \in Nat /\ (n = 0 => Len(ahead) = 0)
  <2> HIDE DEF ahead
  <2> QED BY <1>2, <1>3, FilesAssumption DEF UpTo
<1>5. left \in Text /\ Copied(content[copy.source], content[copy.target], left, copy.at + n)
  <2> HIDE DEF n
  <2> QED BY <1>1, <1>4, ReadsOn
<1>6. copy' = [copy EXCEPT !.pc = IF n = 0 THEN "close" ELSE "write",
                           !.at = copy.at + n, !.left = left]
  BY DEF ReadSource, Step
<1>7. dir' = dir /\ content' = content
  BY DEF ReadSource, disk
<1>8. n = 0 => copy.at >= Len(copy.before) /\ left = <<>>
  <2>1. n = 0 => copy.at >= Len(copy.before)
    BY <1>1, <1>2, <1>3, <1>4, LenProperties DEF Began, Text
  <2>2. SubSeq(ahead, 1, 0) = <<>>
    BY <1>3, SubSeqEmpty DEF Text
  <2> QED BY <2>1, <2>2
<1> HIDE DEF left, n
<1>9. copy.at + n \in Nat /\ (n = 0 => copy.at + n >= Len(copy.before))
  BY <1>1, <1>2, <1>4, <1>8
<1>10. CopyTypes'
  BY <1>1, <1>5, <1>6, <1>7, <1>9 DEF CopyInv, CopyTypes, Calls
<1>11. SourceInv'
  BY <1>1, <1>6, <1>7 DEF CopyInv, CopyTypes, SourceInv, Calls
<1>12. CopyLabels'
  <2>1. /\ copy'.pc = IF n = 0 THEN "close" ELSE "write"
        /\ copy'.at = copy.at + n /\ copy'.left = left
        /\ copy'.source = copy.source /\ copy'.target = copy.target /\ copy'.before = copy.before
    BY <1>6 DEF CopyInv, CopyTypes, Calls
  <2> QED BY <1>1, <1>8, <1>9, <2>1 DEF CopyLabels
<1>13. TargetInv'
  BY <1>1, <1>5, <1>6, <1>7 DEF CopyInv, CopyTypes, TargetInv, Calls
<1> QED BY <1>10, <1>11, <1>12, <1>13 DEF CopyInv

LEMMA WritesTarget == ASSUME CopyInv, WriteTarget PROVE CopyInv'
<1>1. /\ copy.pc = "write" /\ copy.source \in Nodes /\ copy.target \in Nodes
      /\ copy.source # Nil /\ copy.target # Nil /\ copy.source # copy.target
      /\ content[copy.source] \in Text /\ content[copy.target] \in Text /\ copy.at \in Nat
      /\ copy.left \in Text
      /\ Copied(content[copy.source], content[copy.target], copy.left, copy.at)
  BY DEF WriteTarget, CopyInv, CopyTypes, CopyLabels, SourceInv, TargetInv, Calls
<1>2. PICK n \in 1 .. Len(copy.left) :
        /\ content' = [content EXCEPT ![copy.target] = @ \o SubSeq(copy.left, 1, n)]
        /\ copy' = [copy EXCEPT !.pc = IF n = Len(copy.left) THEN "read" ELSE "write",
                                !.left = Drop(copy.left, n)]
        /\ dir' = dir
  BY DEF WriteTarget, Step
<1>3. n \in 0 .. Len(copy.left) /\ Len(copy.left) \in Nat
  BY <1>1, <1>2, LenProperties DEF Text
<1>4. PICK h, l : h = content[copy.target] \o SubSeq(copy.left, 1, n) /\ l = Drop(copy.left, n)
  OBVIOUS
<1>5. h \in Text /\ l \in Text /\ Copied(content[copy.source], h, l, copy.at)
  BY <1>1, <1>3, <1>4, WritesOn
<1>6. n = Len(copy.left) => l = <<>>
  BY <1>1, <1>4, DropAll DEF Text
<1>7. content' = [content EXCEPT ![copy.target] = h]
  BY <1>2, <1>4
<1>8. copy' = [copy EXCEPT !.pc = IF n = Len(copy.left) THEN "read" ELSE "write", !.left = l]
  BY <1>2, <1>4
<1>9. content'[copy.target] = h /\ content'[copy.source] = content[copy.source]
  BY <1>1, <1>7 DEF CopyInv, CopyTypes
<1>10. CopyTypes'
  <2>1. content' \in [Nodes -> Text] /\ dir' \in [Paths -> Nodes \cup {Nil}]
    BY <1>2, <1>5, <1>7 DEF CopyInv, CopyTypes
  <2>2. copy' \in Calls
    BY <1>5, <1>8 DEF CopyInv, CopyTypes, Calls
  <2> QED BY <1>1, <1>8, <2>1, <2>2 DEF CopyInv, CopyTypes, Calls
<1>11. SourceInv'
  BY <1>1, <1>2, <1>8, <1>9 DEF CopyInv, CopyTypes, SourceInv, Calls
<1>12. CopyLabels'
  BY <1>1, <1>6, <1>8 DEF CopyInv, CopyTypes, CopyLabels, Calls
<1>13. TargetInv'
  BY <1>1, <1>5, <1>8, <1>9 DEF CopyInv, CopyTypes, TargetInv, Calls
<1> QED BY <1>10, <1>11, <1>12, <1>13 DEF CopyInv

LEMMA EndsCall == ASSUME CopyInv, CloseBoth \/ CopyFails PROVE CopyInv'
<1>1. /\ dir' = dir /\ content' = content /\ copy.pc # "idle"
      /\ \/ copy.pc = "close" /\ copy' = [copy EXCEPT !.pc = "done"]
         \/ copy' = [copy EXCEPT !.pc = "failed"]
  BY DEF CloseBoth, CopyFails, Step, disk
<1> QED BY <1>1 DEF CopyInv, CopyTypes, CopyLabels, SourceInv, TargetInv, Calls

LEMMA SourceIsGrown ==
  ASSUME CopyInv, \E p \in Paths, c \in Chars : Grows(p, c)
  PROVE  CopyInv'
<1>1. PICK p \in Paths, c \in Chars : Grows(p, c)
  OBVIOUS
<1>2. PICK n \in Nodes : n = dir[p]
  BY <1>1 DEF Grows, CopyInv, CopyTypes
<1>3. PICK t \in Text : t = Append(content[n], c)
  BY Grown DEF CopyInv, CopyTypes
<1>4. content' = [content EXCEPT ![n] = t] /\ dir' = dir /\ copy' = copy /\ p = copy.from
  BY <1>1, <1>2, <1>3 DEF Grows
<1>5. CopyTypes' /\ CopyLabels'
  BY <1>4 DEF CopyInv, CopyTypes, CopyLabels
<1>6. CASE copy.source # Nil
  <2>1. copy.source = n /\ content'[n] = t /\ content[n] \in Text /\ copy.before \in Text
    BY <1>2, <1>4, <1>6 DEF CopyInv, CopyTypes, SourceInv, Calls
  <2>2. Began(t, copy.before)
    BY <1>3, <1>6, <2>1, Grown DEF CopyInv, SourceInv
  <2>3. SourceInv'
    BY <1>4, <2>1, <2>2 DEF CopyInv, SourceInv
  <2>4. ASSUME copy.target # Nil
        PROVE  Copied(t, content'[copy.target], copy.left, copy.at)
    <3>1. /\ copy.target # n /\ copy.target \in Nodes /\ content[copy.target] \in Text
          /\ copy.left \in Text /\ copy.at \in Nat
          /\ Copied(content[n], content[copy.target], copy.left, copy.at)
      BY <2>1, <2>4 DEF CopyInv, CopyTypes, TargetInv, Calls
    <3>2. content'[copy.target] = content[copy.target]
      BY <1>4, <3>1 DEF CopyInv, CopyTypes
    <3>3. PICK s \in Text, h \in Text, l \in Text, at \in Nat :
            s = content[n] /\ h = content[copy.target] /\ l = copy.left /\ at = copy.at
      BY <2>1, <3>1
    <3>4. Copied(s, h, l, at) /\ t = Append(s, c)
      BY <1>3, <3>1, <3>3
    <3>5. Copied(t, h, l, at)
      BY <3>4, Grown
    <3> QED BY <3>2, <3>3, <3>5
  <2>5. TargetInv'
    BY <1>4, <2>1, <2>4 DEF CopyInv, TargetInv
  <2> QED BY <1>5, <2>3, <2>5 DEF CopyInv
<1>7. CASE copy.source = Nil
  BY <1>4, <1>5, <1>7 DEF CopyInv, SourceInv, TargetInv
<1> QED BY <1>6, <1>7

LEMMA OthersMeddle ==
  ASSUME CopyInv, \E p \in Paths : Meddles(p)
  PROVE  CopyInv'
<1>1. PICK p \in Paths : Meddles(p)
  OBVIOUS
<1>2. p # copy.from /\ copy' = copy
  BY <1>1 DEF Meddles
<1>3. CASE dir[p] # Nil
  <2>1. dir' = [dir EXCEPT ![p] = Nil] /\ content' = content
    BY <1>1, <1>3 DEF Meddles
  <2>2. CopyTypes' /\ CopyLabels'
    BY <1>2, <2>1 DEF CopyInv, CopyTypes, CopyLabels
  <2>3. SourceInv' /\ TargetInv'
    BY <1>2, <2>1 DEF CopyInv, CopyTypes, SourceInv, TargetInv
  <2> QED BY <2>2, <2>3 DEF CopyInv
<1>4. CASE dir[p] = Nil
  <2>1. PICK n \in Nodes \ Taken : /\ dir' = [dir EXCEPT ![p] = n]
                                   /\ content' = [content EXCEPT ![n] = <<>>]
    BY <1>1, <1>4 DEF Meddles
  <2>2. n # copy.source /\ n # copy.target
    BY DEF Taken
  <2>3. <<>> \in Text
    BY EmptySeq DEF Text
  <2>4. CopyTypes' /\ CopyLabels'
    BY <1>2, <2>1, <2>3 DEF CopyInv, CopyTypes, CopyLabels
  <2>5. /\ copy.source # Nil => content'[copy.source] = content[copy.source]
        /\ copy.target # Nil => content'[copy.target] = content[copy.target]
    BY <2>1, <2>2 DEF CopyInv, CopyTypes, Calls
  <2>6. SourceInv'
    BY <1>2, <2>1, <2>5 DEF CopyInv, CopyTypes, SourceInv
  <2>7. TargetInv'
    BY <1>2, <2>5 DEF CopyInv, TargetInv
  <2> QED BY <2>4, <2>6, <2>7 DEF CopyInv
<1> QED BY <1>3, <1>4

LEMMA CopyingSteps ==
  ASSUME ~OntoItself, CopyInv, CopyFiles PROVE CopyInv'
BY CallsStart, OpensFrom, OpensTo, Unlinks, ReadsSource, WritesTarget, EndsCall, SourceIsGrown,
   OthersMeddle DEF CopyFiles, CopyStep

(* The calls and steps of pouring. *)
LEMMA ReadGives ==
  ASSUME IInv, Read
  PROVE  /\ kind' = kind /\ open' = open
         /\ \/ answer' = Closed
            \/ answer' = Nil /\ Rest = <<>>
            \/ answer' \in Text /\ Rest' \in Text /\ answer' \o Rest' = Rest
<1> USE DEF IInv
<1>1. kind' = kind /\ open' = open
  BY DEF Read, made
<1>2. CASE Throws /\ Answer("read", Closed)
  BY <1>1, <1>2 DEF Answer
<1>3. CASE HasNone /\ Answer("read", Nil)
  <2>1. Rest = <<>>
    BY <1>3, NonePending DEF HasNone, Buffered
  <2> QED BY <1>1, <1>3, <2>1 DEF Answer
<1>4. CASE ~Throws /\ ~HasNone /\ Answer("read", Available) /\ Take /\ buffer' = Nil
  <2>1. Available \in Text /\ Pending' \in Text /\ Available \o Pending' = Rest
    BY <1>1, <1>4, TakeSplits
  <2>2. Rest' = Pending'
    BY <1>4, <2>1, EmptyConcat DEF Rest, Buffered
  <2> QED BY <1>1, <1>4, <2>1, <2>2 DEF Answer
<1> QED BY <1>2, <1>3, <1>4 DEF Read

LEMMA FirstStream ==
  ASSUME StreamInv, stream # <<>>
  PROVE  /\ 1 \in DOMAIN stream /\ stream[1].node \in Nodes
         /\ Poured \in Text
<1>1. 1 \in DOMAIN stream
  BY EmptySeq, LenProperties DEF StreamInv, StreamTypes
<1> QED BY <1>1, StreamFacts DEF Poured, StreamInv, StreamTypes

LEMMA PourStarts ==
  ASSUME IInv, StreamInv, PourInv, Pour
  PROVE  PourInv'
<1>1. /\ copy' = [NoCopy EXCEPT !.pc = "pour", !.way = stream[1].kind, !.before = Rest]
      /\ UNCHANGED <<vars, program, disk, table, history>>
      /\ stream # <<>> /\ copy.pc = "idle" /\ Poured = <<>>
      /\ stream[1].kind \in {"writer", "output"} /\ ~stream[1].closed
  BY DEF Pour, PourInv
<1>2. Rest \in Text /\ <<>> \in Text /\ stream[1].kind \in StreamKinds
  BY <1>1, Parts, EmptySeq DEF IInv, Text, StreamKinds
<1>3. <<>> \o (<<>> \o Rest) = Rest /\ <<>> \o Rest = Rest
  BY <1>2, EmptyConcat
<1>4. Rest' = Rest /\ stream' = stream /\ Poured' = Poured
  BY <1>1, SameRest DEF vars, table, history, Poured
<1>5. copy' \in Calls
  BY <1>1, <1>2 DEF NoCopy, Calls
<1>6. copy'.pc = "pour" /\ copy'.way = stream[1].kind /\ copy'.before = Rest /\ copy'.left = <<>>
  BY <1>1 DEF NoCopy
<1> QED BY <1>1, <1>3, <1>4, <1>5, <1>6 DEF PourInv, ByPieces, AsAWhole

LEMMA PourReads ==
  ASSUME IInv, StreamInv, Busy, PourInv, PourRead
  PROVE  PourInv'
<1>1. /\ copy.pc = "pour" /\ stream # <<>> /\ copy \in Calls
      /\ copy.left \in Text /\ copy.before \in Text /\ copy.way \in {"writer", "output"}
      /\ stream' = stream /\ Poured' = Poured /\ Poured \in Text
  BY FirstStream DEF PourRead, Busy, PourInv, table, history, Poured, Calls
<1>2. \/ answer' = Closed
      \/ answer' = Nil /\ Rest = <<>>
      \/ answer' \in Text /\ Rest' \in Text /\ answer' \o Rest' = Rest
  BY ReadGives DEF PourRead
<1>3. ASSUME answer' \in Text,
             copy' = [copy EXCEPT !.pc = IF copy.way = "writer" THEN "put" ELSE "pour",
                                  !.left = @ \o answer']
      PROVE  PourInv'
  <2>1. Rest' \in Text /\ answer' \o Rest' = Rest
    BY <1>2, <1>3, ReaderAssumption
  <2>2. copy.left \o answer' \in Text
    BY <1>1, <1>3, ConcatProperties DEF Text
  <2>3. copy' \in Calls
    BY <1>1, <1>3, <2>2 DEF Calls
  <2>4. /\ copy'.pc = IF copy.way = "writer" THEN "put" ELSE "pour"
        /\ copy'.left = copy.left \o answer'
        /\ copy'.way = copy.way /\ copy'.before = copy.before
    BY <1>1, <1>3 DEF Calls
  <2>5. copy'.left \o Rest' = copy.left \o Rest
    <3>1. PICK l \in Text, a \in Text, r \in Text : l = copy.left /\ a = answer' /\ r = Rest'
      BY <1>1, <1>3, <2>1
    <3>2. (l \o a) \o r = l \o (a \o r)
      BY Associative DEF Text
    <3> QED BY <2>1, <2>4, <3>1, <3>2
  <2>6. copy.way = "writer" => ByPieces'
    BY <1>1, <2>4, <2>5 DEF ByPieces, PourInv
  <2>7. copy.way = "output" => AsAWhole'
    BY <1>1, <2>4, <2>5 DEF AsAWhole, PourInv
  <2> QED BY <1>1, <2>3, <2>4, <2>6, <2>7 DEF PourInv
<1>4. ASSUME answer' = Nil,
             copy' = [copy EXCEPT !.pc = IF copy.way = "writer" THEN "done" ELSE "close"]
      PROVE  PourInv'
  <2>1. Rest = <<>>
    BY <1>2, <1>4, ReaderAssumption
  <2>2. copy' \in Calls
    BY <1>1, <1>4 DEF Calls
  <2>3. /\ copy'.pc = IF copy.way = "writer" THEN "done" ELSE "close"
        /\ copy'.left = copy.left /\ copy'.way = copy.way /\ copy'.before = copy.before
    BY <1>1, <1>4 DEF Calls
  <2>4. copy.left \o <<>> = copy.left /\ Poured \o <<>> = Poured
    BY <1>1, EmptyConcat
  <2>5. copy.way = "writer" => ByPieces'
    BY <1>1, <2>1, <2>3, <2>4 DEF ByPieces, PourInv
  <2>6. copy.way = "output" => AsAWhole'
    BY <1>1, <2>1, <2>3, <2>4 DEF AsAWhole, PourInv
  <2> QED BY <1>1, <2>2, <2>3, <2>5, <2>6 DEF PourInv
<1>5. ASSUME copy' = [copy EXCEPT !.pc = IF copy.way = "writer" THEN "failed" ELSE "finally"]
      PROVE  PourInv'
  <2>1. copy' \in Calls
    BY <1>1, <1>5 DEF Calls
  <2>2. copy'.pc \in {"failed", "finally"} /\ copy'.way = copy.way
    BY <1>1, <1>5 DEF Calls
  <2> QED BY <1>1, <2>1, <2>2 DEF PourInv, ByPieces, AsAWhole
<1> QED BY <1>3, <1>4, <1>5 DEF PourRead

LEMMA PourCloses ==
  ASSUME IInv, StreamInv, Busy, PourInv, SlurpCloses
  PROVE  PourInv'
<1>1. /\ copy.pc \in {"close", "finally"} /\ stream # <<>> /\ copy \in Calls
      /\ copy.way \in {"writer", "output"}
      /\ stream' = stream /\ Poured' = Poured
      /\ kind' = kind /\ open' = (kind = "string")
  BY DEF SlurpCloses, Close, made, Busy, PourInv, table, history, Poured
<1>2. copy' = [copy EXCEPT !.pc = IF copy.pc = "close" THEN "put" ELSE "failed"]
  BY DEF SlurpCloses
<1>3. copy' \in Calls
  BY <1>1, <1>2 DEF Calls
<1>4. /\ copy'.pc = IF copy.pc = "close" THEN "put" ELSE "failed"
      /\ copy'.left = copy.left /\ copy'.way = copy.way /\ copy'.before = copy.before
  BY <1>1, <1>2 DEF Calls
<1> QED BY <1>1, <1>3, <1>4 DEF PourInv, ByPieces, AsAWhole

LEMMA PourWrites ==
  ASSUME ~StaleUse, IInv, StreamInv, Busy, PourInv, PourWrite
  PROVE  PourInv'
<1>1. /\ copy.pc = "put" /\ stream # <<>> /\ copy \in Calls
      /\ copy.left \in Text /\ copy.before \in Text /\ copy.way \in {"writer", "output"}
      /\ Write(1, copy.left) /\ UNCHANGED vars
  BY DEF PourWrite, Busy, PourInv, Calls
<1>2. /\ 1 \in DOMAIN stream /\ stream[1].node \in Nodes /\ Poured \in Text
      /\ stream[1].kind \in {"writer", "output"} /\ ~stream[1].closed
  BY <1>1, FirstStream DEF PourInv
<1>3. Registered(1)
  BY <1>1, <1>2, UsesItsOwn DEF Write, Open
<1>4. /\ meant' = [meant EXCEPT ![stream[1].node] = @ \o copy.left]
      /\ stream' = [stream EXCEPT ![1].dirty = TRUE]
  BY <1>1, <1>3 DEF Write
<1>5. /\ stream'[1].node = stream[1].node /\ stream'[1].kind = stream[1].kind
      /\ stream'[1].closed = stream[1].closed
  BY <1>2, <1>4, StreamFacts DEF Stream
<1>6. Poured' = Poured \o copy.left
  BY <1>2, <1>4, <1>5 DEF Poured, StreamInv, StreamTypes
<1>7. copy' = [copy EXCEPT !.pc = IF copy.way = "writer" THEN "pour" ELSE "done", !.left = <<>>]
  BY DEF PourWrite
<1>8. copy' \in Calls /\ <<>> \in Text
  BY <1>1, <1>7, EmptySeq DEF Calls, Text
<1>9. /\ copy'.pc = IF copy.way = "writer" THEN "pour" ELSE "done"
      /\ copy'.left = <<>> /\ copy'.way = copy.way /\ copy'.before = copy.before
  BY <1>1, <1>7 DEF Calls
<1>10. Rest' = Rest /\ Rest \in Text
  BY <1>1, SameRest, Parts DEF vars, IInv
<1>11. copy.way = "writer" => ByPieces'
  <2>1. (Poured \o copy.left) \o (<<>> \o Rest) = Poured \o (copy.left \o Rest)
    <3>1. PICK t \in Text, l \in Text, r \in Text : t = Poured /\ l = copy.left /\ r = Rest
      BY <1>1, <1>2, <1>10
    <3>2. (t \o l) \o r = t \o (l \o r) /\ <<>> \o r = r
      BY Associative, EmptyConcat DEF Text
    <3> QED BY <3>1, <3>2
  <2> QED BY <1>1, <1>6, <1>9, <1>10, <2>1 DEF ByPieces, PourInv
<1>12. copy.way = "output" => AsAWhole'
  <2>1. <<>> \o copy.before = copy.before
    BY <1>1, EmptyConcat
  <2> QED BY <1>1, <1>6, <1>9, <2>1 DEF AsAWhole, PourInv
<1>13. stream' # <<>> => stream'[1].kind \in {"writer", "output"} /\ ~stream'[1].closed
  BY <1>2, <1>5
<1> QED BY <1>1, <1>8, <1>9, <1>11, <1>12, <1>13 DEF PourInv

(* What is put at the end of the last of three texts is at the end of all. *)
GoesLast(t, l, r, e) == /\ l \o (r \o e) = (l \o r) \o e
                        /\ t \o ((l \o r) \o e) = (t \o (l \o r)) \o e

LEMMA AtTheEnd ==
  ASSUME NEW t \in Text, NEW l \in Text, NEW r \in Text, NEW e \in Text
  PROVE  GoesLast(t, l, r, e)
<1>1. l \o r \in Text
  BY ConcatProperties DEF Text
<1>2. (l \o r) \o e = l \o (r \o e)
  BY Associative DEF Text
<1>3. \A x \in Text : (t \o x) \o e = t \o (x \o e)
  BY Associative DEF Text
<1>4. (t \o (l \o r)) \o e = t \o ((l \o r) \o e)
  BY <1>1, <1>3
<1> QED BY <1>2, <1>4 DEF GoesLast

LEMMA PourGrows ==
  ASSUME IInv, StreamInv, Busy, PourInv, NEW c \in Chars, SourceGrows(c)
  PROVE  PourInv'
<1>1. /\ copy.pc \in {"pour", "put"} /\ stream # <<>> /\ copy \in Calls
      /\ copy.left \in Text /\ copy.before \in Text /\ copy.way \in {"writer", "output"}
      /\ stream' = stream /\ Poured' = Poured /\ Poured \in Text
  BY FirstStream DEF SourceGrows, Busy, PourInv, table, history, Poured, Calls
<1>2. /\ kind' = kind /\ open' = open /\ kind = "file"
      /\ Rest' = IF open THEN Append(Rest, c) ELSE Rest
  BY AppendsToRest DEF SourceGrows, made
<1>3. CASE ~open
  <2>1. copy' = copy /\ Rest' = Rest
    BY <1>2, <1>3 DEF SourceGrows
  <2>2. ByPieces' = ByPieces /\ AsAWhole' = AsAWhole
    BY <1>1, <1>2, <2>1 DEF ByPieces, AsAWhole
  <2> QED BY <1>1, <2>1, <2>2 DEF PourInv
<1>4. CASE open
  <2>1. copy' = [copy EXCEPT !.before = Append(copy.before, c)] /\ Rest' = Append(Rest, c)
    BY <1>2, <1>4 DEF SourceGrows
  <2>2. /\ Append(copy.before, c) = copy.before \o <<c>> /\ Append(copy.before, c) \in Text
        /\ Rest \in Text /\ Append(Rest, c) = Rest \o <<c>> /\ <<c>> \in Text
    BY <1>1, Parts, AppendProperties, AppendIsConcat DEF IInv, Text
  <2>3. copy' \in Calls
    BY <1>1, <2>1, <2>2 DEF Calls
  <2>4. /\ copy'.pc = copy.pc /\ copy'.left = copy.left /\ copy'.way = copy.way
        /\ copy'.before = copy.before \o <<c>>
    BY <1>1, <2>1, <2>2 DEF Calls
  <2>5. PICK t \in Text, l \in Text, r \in Text : t = Poured /\ l = copy.left /\ r = Rest
    BY <1>1, <2>2
  <2>6. /\ l \o (r \o <<c>>) = (l \o r) \o <<c>>
        /\ t \o ((l \o r) \o <<c>>) = (t \o (l \o r)) \o <<c>>
    <3>1. PICK e \in Text : e = <<c>>
      BY <2>2
    <3>2. GoesLast(t, l, r, e)
      BY AtTheEnd
    <3> QED BY <3>1, <3>2 DEF GoesLast
  <2>7. copy.way = "writer" => ByPieces'
    BY <1>1, <2>1, <2>2, <2>4, <2>5, <2>6 DEF ByPieces, PourInv
  <2>8. copy.way = "output" => AsAWhole'
    BY <1>1, <1>2, <1>4, <2>1, <2>2, <2>4, <2>5, <2>6 DEF AsAWhole, PourInv
  <2> QED BY <1>1, <2>3, <2>4, <2>7, <2>8 DEF PourInv
<1> QED BY <1>3, <1>4 DEF IInv, TypeOK

LEMMA PourOpens ==
  ASSUME StreamInv, Busy, PourInv, stream = <<>>,
         NEW p \in Paths, NEW k \in {"writer", "output"}, NEW a \in Addresses,
         OpenOutput(k, p, FALSE, a)
  PROVE  PourInv'
<1>1. PICK n \in Nodes :
        /\ stream' = Append(stream, [kind |-> k, at |-> a, node |-> n, closed |-> FALSE, dirty |-> FALSE])
        /\ meant' = [meant EXCEPT ![n] = <<>>]
  BY DEF OpenOutput, Register, Truncate
<1>2. copy' = copy /\ copy.pc = "idle"
  BY DEF OpenOutput, Busy
<1>3. stream'[1] = [kind |-> k, at |-> a, node |-> n, closed |-> FALSE, dirty |-> FALSE]
  BY <1>1
<1>4. Poured' = <<>>
  BY <1>1, <1>3 DEF Poured, StreamInv, StreamTypes
<1> QED BY <1>2, <1>3, <1>4 DEF PourInv, ByPieces, AsAWhole

LEMMA PouringSteps ==
  ASSUME ~StaleUse, IInv, StreamInv, Busy, PourInv, Pour \/ PourStep
  PROVE  PourInv'
<1>1. CASE PourWrite
  BY <1>1, PourWrites
<1>2. CASE \E c \in Chars : SourceGrows(c)
  BY <1>2, PourGrows
<1> QED BY <1>1, <1>2, PourStarts, PourReads, PourCloses DEF PourStep

LEMMA CopiesInitOk == FilesInit => CopiesInv
<1> SUFFICES ASSUME FilesInit PROVE CopiesInv
  OBVIOUS
<1>1. FilesInv
  BY FilesInitOk
<1>2. copy = NoCopy /\ NoCopy \in Calls /\ <<>> \in Text /\ stream = <<>>
  BY EmptySeq DEF FilesInit, NoCopy, Calls, Text
<1>3. dir \in [Paths -> Nodes \cup {Nil}] /\ content \in [Nodes -> Text]
  BY FilesAssumption, ReaderAssumption, <1>2 DEF FilesInit
<1>4. CopyInv
  BY <1>2, <1>3 DEF CopyInv, CopyTypes, CopyLabels, SourceInv, TargetInv, NoCopy
<1>5. PourInv
  BY <1>2 DEF PourInv, ByPieces, AsAWhole, NoCopy
<1> QED BY <1>4, <1>5 DEF CopiesInv

LEMMA EveryCopyStep ==
  ASSUME ~OntoItself, ~StaleUse, IInv, FilesInv, CopiesInv, [FilesNext]_allvars
  PROVE  CopiesInv'
<1>1. CASE UNCHANGED fvars /\ (UNCHANGED vars \/ copy.pc = "idle" \/ program \notin {"copies", "pours"})
  <2>1. UNCHANGED <<program, dir, content, heap, registered, stream, copy, meant>>
    BY <1>1 DEF fvars, disk, table, history
  <2>2. CASE program = "copies"
    <3>1. CopyInv
      BY <2>2 DEF CopiesInv
    <3>2. CopyInv'
      BY <2>1, <3>1 DEF CopyInv, CopyTypes, CopyLabels, SourceInv, TargetInv
    <3> QED BY <2>1, <2>2, <3>2 DEF CopiesInv
  <2>3. CASE program = "pours"
    <3>1. PourInv /\ Poured' = Poured
      BY <2>1, <2>3 DEF CopiesInv, Poured
    <3>2. CASE copy.pc = "idle"
      BY <2>1, <2>3, <3>1, <3>2 DEF CopiesInv, PourInv, ByPieces, AsAWhole
    <3>3. CASE UNCHANGED vars
      <4>1. Rest' = Rest /\ kind' = kind /\ open' = open
        BY <3>3, SameRest DEF vars, made
      <4> QED BY <2>1, <2>3, <3>1, <4>1 DEF CopiesInv, PourInv, ByPieces, AsAWhole
    <3> QED BY <1>1, <2>3, <3>2, <3>3
  <2>4. CASE program \notin {"copies", "pours"}
    BY <2>1, <2>4 DEF CopiesInv
  <2> QED BY <2>2, <2>3, <2>4
<1>2. CASE program = "writes" /\ UseStream
  <2>1. program' \notin {"copies", "pours"}
    BY <1>2 DEF UseStream, OpenInput, OpenOutput, Flush, ReadBytes, CloseStream, OpenThrows, Exit
  <2> QED BY <2>1 DEF CopiesInv
<1>3. CASE program = "copies" /\ CopyFiles
  <2>1. program' = program
    BY <1>3 DEF CopyFiles, CopyFile, CopyStep, OpenFrom, OpenTo, Unlink, ReadSource, WriteTarget,
                CloseBoth, CopyFails, Step, Meddles, Grows
  <2>2. CopyInv'
    BY <1>3, CopyingSteps DEF CopiesInv
  <2> QED BY <1>3, <2>1, <2>2 DEF CopiesInv
<1>4. ASSUME program = "pours", stream = <<>>, NEW p \in Paths, NEW k \in {"writer", "output"},
             NEW a \in Addresses, OpenOutput(k, p, FALSE, a)
      PROVE  CopiesInv'
  <2>1. PourInv'
    BY <1>4, PourOpens DEF CopiesInv, FilesInv
  <2>2. program' = program
    BY <1>4 DEF OpenOutput
  <2> QED BY <1>4, <2>1, <2>2 DEF CopiesInv
<1>5. CASE program = "pours" /\ (Pour \/ PourStep)
  <2>1. PourInv'
    BY <1>5, PouringSteps DEF CopiesInv, FilesInv
  <2>2. program' = program
    BY <1>5 DEF Pour, PourStep, PourRead, SlurpCloses, PourWrite, SourceGrows
  <2> QED BY <1>5, <2>1, <2>2 DEF CopiesInv
<1> QED BY <1>1, <1>2, <1>3, <1>4, <1>5 DEF FilesNext, allvars

LEMMA WholeCopies ==
  ASSUME FilesInv, CopiesInv
  PROVE  CopiesAreWhole
<1>1. CASE program = "copies"
  <2>1. CopyInv
    BY <1>1 DEF CopiesInv
  <2>2. ASSUME copy.source # Nil
        PROVE  \E n \in 0 .. Len(content[copy.source]) :
                 content[copy.source] = copy.before \o Drop(content[copy.source], n)
    <3>1. Began(content[copy.source], copy.before) /\ copy.before \in Text
          /\ content[copy.source] \in Text
      BY <2>1, <2>2 DEF CopyInv, CopyTypes, SourceInv, Calls
    <3>2. Len(copy.before) \in 0 .. Len(content[copy.source])
      BY <3>1, LenProperties DEF Began, Text
    <3> QED BY <3>1, <3>2 DEF Began
  <2>3. ASSUME copy.pc = "done"
        PROVE  Len(content[copy.target]) >= Len(copy.before)
    <3>1. /\ copy.source \in Nodes /\ copy.target \in Nodes /\ copy.left = <<>>
          /\ content[copy.source] \in Text /\ content[copy.target] \in Text
          /\ copy.at \in Nat /\ copy.at >= Len(copy.before)
          /\ Copied(content[copy.source], content[copy.target], <<>>, copy.at)
      BY <2>1, <2>3 DEF CopyInv, CopyTypes, CopyLabels, TargetInv, Calls
    <3>2. copy.at \in 0 .. Len(content[copy.source])
          /\ content[copy.target] = SubSeq(content[copy.source], 1, copy.at)
      BY <3>1, EmptyConcat, LenProperties DEF Copied, Text
    <3>3. Len(SubSeq(content[copy.source], 1, copy.at)) = copy.at
      BY <3>1, <3>2, TakeIs DEF Text
    <3> QED BY <3>1, <3>2, <3>3
  <2>4. copy.way = "file"
    BY <2>1 DEF CopyInv, CopyTypes
  <2> QED BY <2>1, <2>2, <2>3, <2>4 DEF CopiesAreWhole, CopyInv, SourceInv, TargetInv, Copied
<1>2. CASE program = "pours"
  BY <1>2 DEF CopiesInv, PourInv, ByPieces, AsAWhole, Poured, CopiesAreWhole
<1>3. CASE program \notin {"copies", "pours"}
  BY <1>3 DEF FilesInv, Busy, CopiesAreWhole
<1> QED BY <1>1, <1>2, <1>3

(* What a program does to its reader is a step of the reader. *)
LEMMA ReaderSteps == [FilesNext]_allvars => [Next]_vars
<1>1. PourStep => [Next]_vars
  BY DEF PourStep, PourRead, SlurpCloses, PourWrite, SourceGrows, Next
<1> QED BY <1>1 DEF FilesNext, allvars, Pour
-----------------------------------------------------------------------------
(* What is written is kept, with any number of streams, descriptors that   *)
(* are used again in any order, and buffers of any size.                   *)
THEOREM WrittenStays == ASSUME ~StaleUse PROVE FilesSpec => []WrittenIsKept
<1>1. FilesInit => FilesInv
  BY FilesInitOk
<1>2. FilesInv /\ [FilesNext]_allvars => FilesInv'
  BY EveryFilesStep
<1>3. FilesInv => WrittenIsKept
  BY KeepsWritten DEF FilesInv, WrittenIsKept
<1> QED BY <1>1, <1>2, <1>3, PTL DEF FilesSpec

(* A closed stream is refused, and an open one is not. *)
THEOREM ClosedStaysRefused == ASSUME ~StaleUse PROVE FilesSpec => []ClosedIsRefused
<1>1. FilesInit => FilesInv
  BY FilesInitOk
<1>2. FilesInv /\ [FilesNext]_allvars => FilesInv'
  BY EveryFilesStep
<1>3. FilesInv => ClosedIsRefused
  BY DEF FilesInv
<1> QED BY <1>1, <1>2, <1>3, PTL DEF FilesSpec

(* A reader keeps its text also while it is poured into a stream, and      *)
(* closed by that.                                                         *)
THEOREM PouringKeepsText == ASSUME ~AfterLine PROVE FilesSpec => KeepsText
<1>1. FilesInit => Init
  BY DEF FilesInit
<1>2. [FilesNext]_allvars => [Next]_vars
  BY ReaderSteps
<1>3. Spec => KeepsText
  BY ReaderKeepsText
<1> QED BY <1>1, <1>2, <1>3, PTL DEF FilesSpec, Spec

(* A copy that returned has the whole text, whatever others do to the      *)
(* target's path and however much is read or written at once; and what was *)
(* poured is what there was to read, if nothing was put back after a line. *)
THEOREM CopiesStayWhole ==
  ASSUME ~OntoItself, ~StaleUse, ~AfterLine PROVE FilesSpec => []CopiesAreWhole
<1>1. FilesInit => IInv /\ FilesInv /\ CopiesInv
  BY InitOk, FilesInitOk, CopiesInitOk DEF FilesInit
<1>2. IInv /\ FilesInv /\ CopiesInv /\ [FilesNext]_allvars => IInv' /\ FilesInv' /\ CopiesInv'
  <2>1. [FilesNext]_allvars => [Next]_vars
    BY ReaderSteps
  <2> QED BY <2>1, EveryStep, EveryFilesStep, EveryCopyStep DEF Steps
<1>3. FilesInv /\ CopiesInv => CopiesAreWhole
  BY WholeCopies
<1> QED BY <1>1, <1>2, <1>3, PTL DEF FilesSpec
=============================================================================

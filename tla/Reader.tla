------------------------------- MODULE Reader -------------------------------
(***************************************************************************)
(* The Reader type of planck/core.cljs: a buffer over a raw-read function, *)
(* which fetches the next chunk of a file (PLANCK_FILE_READER_READ), of    *)
(* the standard input (PLANCK_RAW_READ_STDIN), or the whole of a string    *)
(* (make-string-reader); with the adapter through which read takes single  *)
(* characters from it.                                                     *)
(*                                                                         *)
(* Between two raw-reads of -read-line a file may grow; otherwise each     *)
(* operation is one step of the one thread that runs JavaScript.           *)
(***************************************************************************)
EXTENDS Integers, Sequences

CONSTANTS Chars,
          Newline,
          Pushable,     (* the texts that are put back                     *)
          Kinds,        (* what is read: "file", "stdin" or "string"       *)
          Limits,       (* the most a raw-read fetches: 1024, or 1 for a   *)
                        (* standard input that is a terminal               *)
          Sources,      (* the texts there are to read                     *)
          MaxText,      (* bound: the length of the text that is left      *)
          AfterLine,    (* TRUE: -unread is called after -read-line, too   *)
          Nil, Closed

Text == Seq(Chars)

ASSUME ReaderAssumption ==
  /\ Newline \in Chars
  /\ Pushable \subseteq Text \ {<<>>}
  /\ Kinds \subseteq {"file", "stdin", "string"}
  /\ Limits \subseteq Nat \ {0}
  /\ Sources \subseteq Text
  /\ MaxText \in Nat
  /\ AfterLine \in BOOLEAN
  /\ Nil \notin Text /\ Closed \notin Text
  /\ Nil # Closed

VARIABLES kind, limit,    (* as raw-read was made                          *)
          source,    (* what has not been fetched; Nil: a string that has  *)
          open,      (* FALSE: the file, or the standard input, is closed  *)
          buffer,    (* @buffer: Nil, or characters that were fetched ...  *)
          pos,       (* @pos: ... of which so many have been read          *)
          pc,        (* "idle", or "line" in the loop of -read-line        *)
          asked, answer   (* history: the last operation and its answer    *)

made == <<kind, limit>>
vars == <<made, source, open, buffer, pos, pc, asked, answer>>

Init == /\ kind \in Kinds
        /\ limit \in Limits
        /\ source \in Sources
        /\ open = TRUE
        /\ buffer = Nil
        /\ pos = 0
        /\ pc = "idle"
        /\ asked = "none"
        /\ answer = Nil
-----------------------------------------------------------------------------
Drop(s, n) == SubSeq(s, n + 1, Len(s))
First(s) == IF s = <<>> THEN <<>> ELSE <<s[1]>>     (* (subs s 0 1) *)

(* (subs buffered @pos) *)
Buffered == IF buffer = Nil THEN <<>> ELSE Drop(buffer, pos)

(* raw-read: it throws "File closed.", or has nothing, or fetches a chunk. *)
RawThrows == kind = "file" /\ ~open
RawNil == ~RawThrows /\ \/ ~open
                        \/ source = Nil
                        \/ kind # "string" /\ source = <<>>
RawReads == ~RawThrows /\ ~RawNil
Chunk == IF kind = "string" \/ Len(source) <= limit THEN source ELSE SubSeq(source, 1, limit)
Fetch == source' = IF kind = "string" THEN Nil ELSE Drop(source, Len(Chunk))

Answer(op, a) == asked' = op /\ answer' = a

(* -read: the answer, and what it leaves in source; buffer is then Nil.    *)
Throws == buffer = Nil /\ RawThrows
HasNone == buffer = Nil /\ RawNil
Available == IF buffer # Nil THEN Buffered ELSE Chunk
Take == IF buffer # Nil THEN UNCHANGED source ELSE Fetch

(* The first newline that is left in the buffer, if any. *)
LineEnds == {n \in pos + 1 .. Len(buffer) : buffer[n] = Newline}
FirstLineEnd(n) == n \in LineEnds /\ \A m \in LineEnds : n <= m
-----------------------------------------------------------------------------
(* Mutations: what plausible mistakes would make of the definitions below. *)

(* The characters before @pos are kept when more are fetched. *)
LineFetchAll ==
  /\ pc = "line"
  /\ buffer # Nil => LineEnds = {}
  /\ RawReads
  /\ buffer' = IF buffer = Nil THEN Chunk ELSE buffer \o Chunk
  /\ pos' = 0
  /\ Fetch
  /\ UNCHANGED <<made, open, pc, asked, answer>>

-----------------------------------------------------------------------------
Read == /\ pc = "idle"
        /\ \/ Throws /\ Answer("read", Closed) /\ UNCHANGED <<source, buffer>>
           \/ HasNone /\ Answer("read", Nil) /\ UNCHANGED <<source, buffer>>
           \/ ~Throws /\ ~HasNone /\ Answer("read", Available) /\ Take /\ buffer' = Nil
        /\ UNCHANGED <<made, open, pos, pc>>

(* -unread, with the buffer as it is after -read. *)
Put(s) == buffer' = s \o (IF buffer = Nil THEN <<>> ELSE buffer) /\ pos' = 0

(* read-char of adapt-pushback-reader: -read, and -unread of what is too   *)
(* much.                                                                   *)
ReadChar ==
  /\ pc = "idle"
  /\ \/ Throws /\ Answer("char", Closed) /\ UNCHANGED <<source, buffer, pos>>
     \/ HasNone /\ Answer("char", Nil) /\ UNCHANGED <<source, buffer, pos>>
     \/ /\ ~Throws /\ ~HasNone
        /\ Answer("char", First(Available))
        /\ Take
        /\ IF Len(Available) > 1 THEN buffer' = Drop(Available, 1) /\ pos' = 0
                                 ELSE buffer' = Nil /\ UNCHANGED pos
  /\ UNCHANGED <<made, open, pc>>

(* peek-char: read-char, and -unread of the character. *)
PeekChar ==
  /\ pc = "idle"
  /\ \/ Throws /\ Answer("peek", Closed) /\ UNCHANGED <<source, buffer, pos>>
     \/ HasNone /\ Answer("peek", Nil) /\ UNCHANGED <<source, buffer, pos>>
     \/ /\ ~Throws /\ ~HasNone
        /\ Answer("peek", First(Available))
        /\ Take
        /\ buffer' = Available
        /\ pos' = 0
  /\ UNCHANGED <<made, open, pc>>

(* -unread.  Users, and the reader of ClojureScript, put back what they    *)
(* have just read, which for a line is something else: see AfterLine.      *)
MayUnread == asked # "line" \/ answer = Nil \/ AfterLine
Unread(s) == /\ pc = "idle"
             /\ MayUnread
             /\ Len(Buffered) + Len(s) <= MaxText
             /\ Put(s)
             /\ UNCHANGED <<made, source, open, pc, asked, answer>>

(* -read-line loops ... *)
CallReadLine == /\ pc = "idle"
                /\ pc' = "line"
                /\ UNCHANGED <<made, source, open, buffer, pos, asked, answer>>

(* ... until there is a line in the buffer, ... *)
LineFound == /\ pc = "line"
             /\ buffer # Nil
             /\ \E n \in LineEnds : /\ FirstLineEnd(n)
                                    /\ Answer("line", SubSeq(buffer, pos + 1, n - 1))
                                    /\ pos' = n
             /\ pc' = "idle"
             /\ UNCHANGED <<made, source, open, buffer>>

(* ... for which it fetches more, ... *)
LineFetch == /\ pc = "line"
             /\ buffer # Nil => LineEnds = {}
             /\ RawReads
             /\ buffer' = Buffered \o Chunk
             /\ pos' = 0
             /\ Fetch
             /\ UNCHANGED <<made, open, pc, asked, answer>>

(* ... or there is no more, ... *)
LastLine == /\ pc = "line"
            /\ buffer # Nil => LineEnds = {}
            /\ RawNil
            /\ Answer("line", IF Buffered = <<>> THEN Nil ELSE Buffered)
            /\ buffer' = Nil
            /\ pc' = "idle"
            /\ UNCHANGED <<made, source, open, pos>>

(* ... or raw-read throws. *)
LineThrows == /\ pc = "line"
              /\ buffer # Nil => LineEnds = {}
              /\ RawThrows
              /\ Answer("line", Closed)
              /\ pc' = "idle"
              /\ UNCHANGED <<made, source, open, buffer, pos>>

(* raw-close: the descriptor is forgotten, or the standard input marked as *)
(* closed; nothing is done for a string.                                   *)
Close == /\ pc = "idle"
         /\ open' = (kind = "string")
         /\ UNCHANGED <<made, source, buffer, pos, pc, asked, answer>>

(* Somebody appends to the file.  ufile_read clears the end of file that   *)
(* it meets, so a later read finds what was appended.                      *)
Append1(c) == /\ kind = "file"
              /\ Len(Buffered) + Len(source) < MaxText
              /\ source' = Append(source, c)
              /\ UNCHANGED <<made, open, buffer, pos, pc, asked, answer>>

ReadLineStep == LineFound \/ LineFetch \/ LastLine \/ LineThrows

Next == \/ Read \/ ReadChar \/ PeekChar \/ CallReadLine \/ ReadLineStep \/ Close
        \/ \E s \in Pushable : Unread(s)
        \/ \E c \in Chars : Append1(c)

Spec == Init /\ [][Next]_vars
-----------------------------------------------------------------------------
TypeOK == /\ kind \in Kinds
          /\ limit \in Limits
          /\ source \in Text \cup {Nil}
          /\ source = Nil => kind = "string"
          /\ open \in BOOLEAN
          /\ buffer \in Text \cup {Nil}
          /\ pos \in Nat
          /\ buffer # Nil => pos <= Len(buffer)
          /\ pc \in {"idle", "line"}
          /\ asked \in {"none", "read", "line", "char", "peek"}
          /\ answer \in Text \cup {Nil, Closed}

(* The text behind a reader: what is in the buffer, and what can still be  *)
(* fetched.  Read in any mixture of pieces, lines and characters, across   *)
(* chunks and while the file grows, nothing is lost, repeated or reordered,*)
(* lines are whole, and what is put back is read first.                    *)
Pending == IF open /\ source # Nil THEN source ELSE <<>>
Rest == Buffered \o Pending
Behind == INSTANCE PushbackText WITH rest <- Rest
KeepsText == Behind!Spec

=============================================================================

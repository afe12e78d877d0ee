---------------------------- MODULE PushbackText ----------------------------
(***************************************************************************)
(* What a reader promises (IReader, IBufferedReader and IPushbackReader of *)
(* planck/core.cljs): a text that is consumed from its front, in pieces,   *)
(* lines or characters, and whose front can be put back.  Where the text   *)
(* comes from, and in which chunks, cannot be seen.                        *)
(***************************************************************************)
EXTENDS Integers, Sequences

CONSTANTS Chars,
          Newline,     (* one of Chars                                     *)
          Pushable,    (* the texts that are put back                      *)
          Nil,         (* no more text                                     *)
          Closed       (* an error: the text is closed                     *)

Text == Seq(Chars)

VARIABLES rest,    (* the text that is still to be read                    *)
          open,
          asked,   (* the last operation: "none", "read", "line", "char"   *)
                   (* or "peek" ...                                        *)
          answer   (* ... and what it answered                             *)

vars == <<rest, open, asked, answer>>

Init == /\ rest \in Text
        /\ open = TRUE
        /\ asked = "none"
        /\ answer = Nil

Drop(n) == SubSeq(rest, n + 1, Len(rest))
Answer(op, a) == asked' = op /\ answer' = a
Operations == {"read", "line", "char", "peek"}

(* Some of the text, at least one character. *)
Read == \E n \in 1 .. Len(rest) : /\ Answer("read", SubSeq(rest, 1, n))
                                  /\ rest' = Drop(n)
                                  /\ UNCHANGED open

ReadChar == /\ rest # <<>>
            /\ Answer("char", <<rest[1]>>)
            /\ rest' = Drop(1)
            /\ UNCHANGED open

PeekChar == /\ rest # <<>>
            /\ Answer("peek", <<rest[1]>>)
            /\ UNCHANGED <<rest, open>>

(* A line, without its newline; the last one may have none. *)
EndsLine(n) == /\ rest[n] = Newline
               /\ \A i \in 1 .. n - 1 : rest[i] # Newline
ReadLine == \/ \E n \in 1 .. Len(rest) : /\ EndsLine(n)
                                         /\ Answer("line", SubSeq(rest, 1, n - 1))
                                         /\ rest' = Drop(n)
                                         /\ UNCHANGED open
            \/ /\ rest # <<>>
               /\ \A n \in 1 .. Len(rest) : rest[n] # Newline
               /\ Answer("line", rest)
               /\ rest' = <<>>
               /\ UNCHANGED open

(* The empty string in place of characters: only when there is no text, or *)
(* directly after a line or an empty answer.                               *)
ReadNothing == /\ rest = <<>> \/ asked = "line" \/ answer = <<>>
               /\ \E op \in Operations \ {"line"} : Answer(op, <<>>)
               /\ UNCHANGED <<rest, open>>

AtEnd == /\ rest = <<>>
         /\ \E op \in Operations : Answer(op, Nil)
         /\ UNCHANGED <<rest, open>>

(* An unfinished line cannot be read from a closed text. *)
Refuse == /\ ~open
          /\ \E op \in Operations : /\ rest = <<>> \/ op = "line"
                                    /\ Answer(op, Closed)
          /\ UNCHANGED <<rest, open>>

Unread == \E s \in Pushable : /\ rest' = s \o rest
                              /\ UNCHANGED <<open, asked, answer>>

(* The text grows at its end as long as it is open; what has already been  *)
(* fetched can still be read when it is closed.                            *)
Grow == /\ open
        /\ \E c \in Chars : rest' = Append(rest, c)
        /\ UNCHANGED <<open, asked, answer>>

Close == /\ open' = FALSE
         /\ \E n \in 0 .. Len(rest) : rest' = SubSeq(rest, 1, n)
         /\ UNCHANGED <<asked, answer>>

Next == \/ Read \/ ReadChar \/ PeekChar \/ ReadLine \/ ReadNothing
        \/ AtEnd \/ Refuse \/ Unread \/ Grow \/ Close

Spec == Init /\ [][Next]_vars
=============================================================================

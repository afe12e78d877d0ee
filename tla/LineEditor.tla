----------------------------- MODULE LineEditor -----------------------------
(***************************************************************************)
(* The line editor of the REPL: linenoise.c (linenoiseEdit and what its    *)
(* keys call, multi-line refresh, reverse search, history), the brace      *)
(* highlighting of repl.c, with the thread that moves the cursor back, and *)
(* what process_line does with the history.                                *)
(*                                                                         *)
(* A character is a member of Chars; "P" stands for a prompt that is       *)
(* pasted along with the text it was copied with, up to its "=>".  Each    *)
(* takes one byte and one column.  Not modelled: control characters that   *)
(* are bound to nothing, which are inserted as they come, and TAB or an    *)
(* arrow key as what ends a search.  The terminal is modelled by what each *)
(* row shows and where the cursor is, with the autowrap of VT100.          *)
(***************************************************************************)
EXTENDS Integers, Sequences, FiniteSets, SequencesExt, FiniteSetsExt

CONSTANTS Chars,          (* what can be typed into a line                 *)
          Brace,          (* the one of Chars that closes a form           *)
          ByteBefore,     (* what lies before the buffer on the stack      *)
          buflen,         (* l.buflen: 4095                                *)
          SearchMax,      (* sizeof(rbuf) - 1: 49                          *)
          history_max_len,
          PromptLen, SearchPromptLen, (* of the prompts, the latter bare   *)
          Indents,        (* repl->indent_space_count                      *)
          InitialHistories, (* ~/.planck_history at first: what an earlier *)
                          (* Planck has saved                              *)
          LastRow,        (* bound on the rows of the terminal             *)
          MaxKeys,        (* bound on keys and prints                      *)
          Typists,        (* who types: see IsTypist                       *)
          None

Space == " "
Text(s) == s \in Seq(Chars) /\ Len(s) <= buflen

Controls == {"enter", "cancel", "backspace", "delete_right",
  "swap_chars", "move_left", "move_right", "history_previous", "history_next",
  "reverse_i_search", "cancel_search", "finish_search", "word_end",
  "word_start", "delete_next_word", "clear_line", "delete_to_end_of_line",
  "go_to_start_of_line", "go_to_end_of_line", "clear_screen",
  "delete_previous_word", "tab"}
Keys == Chars \cup Controls

(* What somebody types, in how wide a terminal; whether other threads      *)
(* print meanwhile; whether each key comes when no thread is between       *)
(* seeing that it must move the cursor back and doing it.                  *)
IsTypist(t) == /\ t.keys \subseteq Keys
               /\ t.cols \in Nat \ {0}
               /\ t.prints \in BOOLEAN
               /\ t.timely \in BOOLEAN

ASSUME LineEditorAssumption ==
  /\ {Space, "P", Brace, ByteBefore} \subseteq Chars
  /\ Chars \cap Controls = {}
  /\ {buflen, history_max_len, PromptLen, SearchPromptLen} \subseteq Nat \ {0}
  /\ SearchMax \in Nat /\ MaxKeys \in Nat /\ LastRow \in Nat
  /\ Indents \subseteq Nat
  /\ \A t \in Typists : IsTypist(t) /\ t.cols > PromptLen
  /\ None \notin Keys
  /\ \A h \in InitialHistories :
       /\ h \in Seq(Seq(Chars)) /\ Len(h) <= history_max_len
       /\ \A i \in DOMAIN h : Len(h[i]) <= buflen

VARIABLES typist,   (* the typist and the terminal                         *)
          keystrokes, (* how many keys and prints there were               *)
          peeked,   (* the key that ended a search and is still to be done *)
          searching, (* what the reverse search works with, or None        *)
          l,        (* linenoiseState and the length of l.prompt           *)
          history,
          saved,    (* ~/.planck_history                                   *)
          repl,     (* repl_t: what was entered and is not a whole form yet *)
          screen,   (* the terminal                                        *)
          hop,      (* highlight_restore_sequence, hl_restore, the threads *)
          past      (* history: the last lines that were entered; whether  *)
                    (* other text came among them                          *)

editorVars == <<typist, keystrokes, peeked, searching, l, history, saved, repl, screen, hop, past>>

Cols == typist.cols
Monus(a, b) == IF a > b THEN a - b ELSE 0
Blank == -1
Output == -2
Rest == -3     (* a mixture, or what is left of a line *)
Rows == 0 .. LastRow
-----------------------------------------------------------------------------
(* The terminal.  shows[r] is k if row r shows the k-th row of the line;   *)
(* base is where the line should begin.                                    *)

(* refreshMultiLine: the line and the terminal after it                    *)
Refresh(e, s) ==
  LET rows == (e.plen + e.len + Cols - 1) \div Cols
      wraps == e.pos # 0 /\ e.pos = e.len /\ (e.pos + e.plen) % Cols = 0
      used == IF wraps THEN rows + 1 ELSE rows
      rpos == (e.plen + e.oldpos + Cols) \div Cols
      rpos2 == (e.plen + e.pos + Cols) \div Cols
      bottom == s.row + Monus(e.maxrows, rpos)
      top == Monus(bottom, Monus(e.maxrows, 1))
      Clean(r) == r \in top .. bottom \/ s.shows[r] = Blank
  IN [line |-> [e EXCEPT !.maxrows = IF used > @ THEN used ELSE @, !.oldpos = e.pos],
      terminal |-> [s EXCEPT
        !.shows = [r \in Rows |->
          IF r \in top .. top + rows - 1
          THEN IF Clean(r) \/ r < top + rows - 1 THEN r - top ELSE Rest
          ELSE IF Clean(r) THEN Blank ELSE @[r]],
        !.row = top + used - 1 - Monus(used, rpos2),
        !.col = (e.plen + e.pos) % Cols]]

Fresh == [shows |-> [r \in Rows |-> IF r = 0 THEN Output ELSE Blank],
          row |-> 1, col |-> 0, base |-> 1]

(* A new line; the rows of the line that ended are output now.             *)
NextLine(s) ==
  [shows |-> [r \in Rows |->
     IF r = 0 THEN Output
     ELSE IF s.row + r \notin Rows THEN Blank
     ELSE IF s.shows[s.row + r] \in Rows THEN Rest ELSE s.shows[s.row + r]],
   row |-> 1, col |-> 0, base |-> 1]

(* The prompt that linenoiseEdit writes where the cursor is, before it     *)
(* refreshes the line: of one that does not fit, a piece stays in the row. *)
Prompted(s) ==
  IF s.col + PromptLen <= Cols THEN s
  ELSE [s EXCEPT !.shows[s.row] = Rest, !.row = @ + 1, !.base = s.row + 1]

(* linenoisePrintNow, before it refreshes the line *)
Printed(s) == [s EXCEPT !.shows = [r \in Rows |-> IF r = s.row THEN Output ELSE @[r]],
                        !.row = @ + 1, !.base = @ + 1]

Cleared(s) == [s EXCEPT !.shows = [r \in Rows |-> Blank], !.row = 0, !.col = 0, !.base = 0]

(* Escape sequences that move the cursor stop it at the margins; a count   *)
(* of 0 is not sent, and one below 0 not understood.                       *)
Moved(s, up, right) ==
  LET col == s.col + right
  IN [s EXCEPT !.row = IF up > 0 THEN Monus(@, up) ELSE @,
               !.col = IF col < 0 THEN 0 ELSE IF col >= Cols THEN Cols - 1 ELSE col]
(* A mutation of the next: the rows are forgotten. *)
MovedBackSideways(s, h) == Moved(s, 0, -h.right)
MovedBack(s, h) == [Moved(s, 0, -h.right) EXCEPT !.row = IF h.up > 0 THEN @ + h.up ELSE @]
-----------------------------------------------------------------------------
(* Keys that edit.  l.buf is what C reads as a string, up to the zero,     *)
(* which after one of the operations is not at l.len.                      *)

Put(e, buf, pos) == [e EXCEPT !.buf = buf, !.len = Len(buf), !.pos = pos]
Before(e, p) == SubSeq(e.buf, 1, p)
After(e, p) == SubSeq(e.buf, p + 1, e.len)

(* The first place from p on, and the last up to p, where S ends.          *)
Skip(e, p, S) == Min({q \in p .. e.len : q = e.len \/ e.buf[q + 1] \notin S})
Back(e, p, S) == Max({q \in 0 .. p : q = 0 \/ e.buf[q] \notin S})
Word == Chars \ {Space}

(* A mutation of the next: there is no room for the zero. *)
InsertedOverfull(e, c) ==
  IF e.len <= buflen THEN Put(e, Before(e, e.pos) \o <<c>> \o After(e, e.pos), e.pos + 1)
  ELSE e
Inserted(e, c) ==
  IF e.len < buflen THEN Put(e, Before(e, e.pos) \o <<c>> \o After(e, e.pos), e.pos + 1)
  ELSE e
MoveWordEnd(e) ==
  IF e.pos >= e.len THEN e
  ELSE [e EXCEPT !.pos = Skip(e, Skip(e, @, {Space}), Word)]
(* At the start of the line the byte before it decides: what happens after *)
(* the cursor has left the line is not modelled.                           *)
MoveWordStart(e) ==
  LET p == IF e.pos > 0 /\ e.buf[e.pos] = Space THEN e.pos - 1 ELSE e.pos
      q == IF p < Len(e.buf) /\ e.buf[p + 1] = Space
           THEN Max({r \in 0 .. p : r = 0 \/ e.buf[r + 1] # Space}) ELSE p
  IN IF e.len = 0 THEN e
     ELSE IF e.pos = 0 /\ ByteBefore = Space THEN [e EXCEPT !.pos = -1]
     ELSE [e EXCEPT !.pos = Back(e, q, Word)]
Delete(e) ==
  IF e.pos < e.len THEN Put(e, Before(e, e.pos) \o After(e, e.pos + 1), e.pos) ELSE e
Backspace(e) ==
  IF e.pos > 0 THEN Put(e, Before(e, e.pos - 1) \o After(e, e.pos), e.pos - 1) ELSE e
DeletePrevWord(e) ==
  LET p == Back(e, Back(e, e.pos, {Space}), Word)
      len == e.len - (e.pos - p)
  IN [e EXCEPT !.buf = Before(e, p) \o SubSeq(@, e.pos + 1, Min({e.len + 1, Len(@)}))
                         \o IF e.len < Len(@) THEN SubSeq(@, len + 2, Len(@)) ELSE <<>>,
               !.len = len, !.pos = p]
(* No zero is written at the new end. *)
DeleteNextWord(e) ==
  LET next_word_end == Skip(e, Skip(e, e.pos, {Space}), Word)
      len == e.len - (next_word_end - e.pos)
  IN [e EXCEPT !.buf = Before(e, e.pos) \o After(e, next_word_end)
                         \o SubSeq(@, len + 1, Len(@)),
               !.len = len]
SwapChars(e) ==
  IF e.pos > 0 /\ e.pos < e.len
  THEN [e EXCEPT !.buf[e.pos] = e.buf[e.pos + 1], !.buf[e.pos + 1] = e.buf[e.pos],
                 !.pos = IF @ # e.len - 1 THEN @ + 1 ELSE @]
  ELSE e

Edited(e, k) ==
  CASE k = "move_left" -> [e EXCEPT !.pos = Monus(@, 1)]
    [] k = "move_right" -> [e EXCEPT !.pos = IF @ # e.len THEN @ + 1 ELSE @]
    [] k = "go_to_start_of_line" -> [e EXCEPT !.pos = 0]
    [] k = "go_to_end_of_line" -> [e EXCEPT !.pos = e.len]
    [] k = "word_end" -> MoveWordEnd(e)
    [] k = "word_start" -> MoveWordStart(e)
    [] k = "delete_right" -> Delete(e)
    [] k = "backspace" -> Backspace(e)
    [] k = "delete_previous_word" -> DeletePrevWord(e)
    [] k = "delete_next_word" -> DeleteNextWord(e)
    [] k = "swap_chars" -> SwapChars(e)
    [] k = "delete_to_end_of_line" -> Put(e, Before(e, e.pos), e.pos)
    [] k = "clear_line" -> Put(e, <<>>, 0)
EditingKeys == {"move_left", "move_right", "go_to_start_of_line",
  "go_to_end_of_line", "word_end", "word_start", "delete_right", "backspace",
  "delete_previous_word", "delete_next_word", "swap_chars",
  "delete_to_end_of_line", "clear_line"}

(* set_current, and what linenoiseEditHistoryNext does with an entry: the  *)
(* last byte of the buffer is lost.                                        *)
Recalled(h) == SubSeq(h, 1, Min({Len(h), buflen - 1}))
-----------------------------------------------------------------------------
(* linenoiseHistoryAdd *)
Added(h, line) ==
  IF h # <<>> /\ Last(h) = line THEN h
  ELSE Append(IF Len(h) = history_max_len THEN Tail(h) ELSE h, line)

(* linenoiseHistoryLoad *)
Load(lines) ==
  LET h[i \in 0 .. Len(lines)] == IF i = 0 THEN <<>> ELSE Added(h[i - 1], lines[i])
  IN h[Len(lines)]

(* What strtok makes of lines                                              *)
NonEmpty(lines) ==
  LET r[i \in 0 .. Len(lines)] == IF i = 0 THEN <<>>
                                  ELSE IF lines[i] = <<>> THEN r[i - 1]
                                  ELSE Append(r[i - 1], lines[i])
  IN r[Len(lines)]

(* The beginning of linenoiseEdit: the last entry is the line itself; the  *)
(* prompt is written and the spaces of the indentation are inserted.       *)
Line0 == [buf |-> <<>>, len |-> 0, pos |-> 0, oldpos |-> 0, maxrows |-> 0,
          history_index |-> 0, plen |-> PromptLen]
NewLine(s, indent) ==
  LET r[i \in 0 .. indent] == IF i = 0 THEN [line |-> Line0, terminal |-> Prompted(s)]
                              ELSE Refresh(Inserted(r[i - 1].line, Space), r[i - 1].terminal)
  IN Refresh(r[indent].line, r[indent].terminal)

Begin(h, s, indent) == LET r == NewLine(s, indent)
                       IN /\ history' = Added(h, <<>>)
                          /\ l' = r.line
                          /\ screen' = r.terminal

NoHop == [sequence |-> 0, restore |-> [id |-> 0, up |-> 0, right |-> 0], threads |-> {}]

EditorInit ==
  /\ typist \in Typists
  /\ keystrokes = 0
  /\ peeked = None
  /\ searching = None
  /\ saved \in InitialHistories
  /\ history = Added(Load(saved), <<>>)
  /\ repl = [open |-> FALSE, pending |-> <<>>, spaces |-> 0, pasting |-> FALSE]
  /\ l = NewLine(Fresh, 0).line
  /\ screen = NewLine(Fresh, 0).terminal
  /\ hop = NoHop
  /\ past = [entered |-> NonEmpty(saved), disturbed |-> FALSE]
-----------------------------------------------------------------------------
(* do_highlight_restore, called by highlight_cancel before a key is done   *)
Restored(h) == [h EXCEPT !.sequence = @ + 1]

Due == peeked = None /\ hop.restore.id # 0 /\ hop.restore.id = hop.sequence
Screen0 == IF Due THEN MovedBack(screen, hop.restore) ELSE screen
Hop0 == IF Due THEN Restored(hop) ELSE hop

Typing(k) == /\ k \in typist.keys
             /\ keystrokes < MaxKeys
             /\ typist.timely => \A t \in hop.threads : ~t.checked
             /\ keystrokes' = keystrokes + 1

ReadKey(k) == /\ searching = None
              /\ IF peeked # None THEN k = peeked /\ keystrokes' = keystrokes ELSE Typing(k)
              /\ peeked' = None
              /\ UNCHANGED typist
Key(k) == ReadKey(k) /\ UNCHANGED searching

Show(e, s) == LET r == Refresh(e, s) IN l' = r.line /\ screen' = r.terminal

Refreshing == {"clear_line", "delete_to_end_of_line", "delete_previous_word",
               "delete_next_word"}

Edit(k) ==
  LET e == Edited(l, k)
  IN /\ k \in EditingKeys
     /\ k = "delete_right" => l.len > 0
     /\ Key(k)
     /\ IF e # l \/ k \in Refreshing \/ (k = "word_start" /\ l.len > 0)
        THEN Show(e, Screen0)
        ELSE l' = e /\ screen' = Screen0
     /\ hop' = Hop0
     /\ UNCHANGED <<history, saved, repl, past>>

ClearScreen == /\ Key("clear_screen")
               /\ Show(l, Cleared(Screen0))
               /\ hop' = Hop0
               /\ UNCHANGED <<history, saved, repl, past>>

(* highlight: where the brace's partner is, is for ClojureScript to say.   *)
Partners(e) == [up : {0}, at : 0 .. e.pos - 2]
               \cup IF repl.open THEN [up : {1}, at : {0, 1}] ELSE {}

TruncMod(a, b) == IF a >= 0 THEN a % b ELSE -((-a) % b)
TruncDiv(a, b) == IF a >= 0 THEN a \div b ELSE -((-a) \div b)

Hop(e, m) ==
  LET right == m.at - e.pos
      cursor == e.pos + PromptLen + 1
      over == cursor > Cols /\ -right >= cursor % Cols
      row_end == Cols * (cursor \div Cols)
  IN [id |-> Hop0.sequence + 1,
      up |-> IF over THEN m.up + 1 + TruncDiv(row_end - (m.at + PromptLen), Cols) ELSE m.up,
      right |-> IF over THEN TruncMod(right + Cols, Cols) ELSE right]
TooFar(e) == e.pos + PromptLen + 1 > 3 * Cols - PromptLen

Elides(c) == /\ c = Space /\ repl.pasting
             /\ l.pos > 0 /\ l.buf[l.pos] = "P"
             /\ \A i \in 1 .. l.pos - 1 : l.buf[i] = Space

TypeChar(c) ==
  LET e == Inserted(l, c)
      r == Refresh(e, Screen0)
  IN /\ c \in Chars
     /\ Key(c)
     /\ \E pasting \in IF c = "P" THEN BOOLEAN ELSE {repl.pasting} :
          repl' = [repl EXCEPT !.pasting = pasting]
     /\ \/ /\ Elides(c)
           /\ Show(Put(l, <<>>, 0), Screen0)
           /\ hop' = Hop0
        \/ /\ ~Elides(c)
           /\ e = l
           /\ l' = l /\ screen' = Screen0 /\ hop' = Hop0
        \/ /\ ~Elides(c)
           /\ e # l
           /\ l' = r.line
           /\ \/ screen' = r.terminal /\ hop' = Hop0
              \/ /\ c = Brace /\ ~repl.pasting /\ ~TooFar(e)
                 /\ \E m \in Partners(e) :
                      LET h == Hop(e, m)
                      IN /\ screen' = Moved(r.terminal, h.up, h.right)
                         /\ hop' = [sequence |-> h.id, restore |-> h,
                                    threads |-> hop.threads \cup
                                      {[id |-> h.id, up |-> h.up, right |-> h.right,
                                        checked |-> FALSE]}]
     /\ UNCHANGED <<history, saved, past>>

(* The thread that moves the cursor back after half a second               *)
ThreadChecks(t) ==
  /\ ~t.checked
  /\ hop' = [hop EXCEPT !.threads =
       (@ \ {t}) \cup IF t.id = hop.sequence THEN {[t EXCEPT !.checked = TRUE]} ELSE {}]
  /\ UNCHANGED <<typist, keystrokes, peeked, searching, l, history, saved, repl, screen, past>>
ThreadMovesBack(t) ==
  /\ t.checked
  /\ hop' = [Restored(hop) EXCEPT !.threads = @ \ {t}]
  /\ screen' = MovedBack(screen, t)
  /\ UNCHANGED <<typist, keystrokes, peeked, searching, l, history, saved, repl, past>>

(* Another thread prints.                                                  *)
PrintNow == /\ typist.prints
            /\ keystrokes < MaxKeys
            /\ screen.row + 4 <= LastRow
            /\ keystrokes' = keystrokes + 1
            /\ Show(l, Printed(screen))
            /\ UNCHANGED <<typist, peeked, searching, history, saved, repl, hop, past>>

(* Completion: it beeps, inserts, or lists what there is below the line.   *)
Listed(s) ==
  [s EXCEPT !.shows = [r \in Rows |->
              IF r \in s.base .. s.row \/ (r \in {s.row + 1, s.row + 2} /\ @[r] = Blank)
              THEN Output ELSE IF @[r] \in Rows THEN Rest ELSE @[r]],
            !.row = @ + 3, !.col = 0, !.base = s.row + 3]
Tab == /\ Key("tab")
       /\ \/ l' = l /\ screen' = Screen0
          \/ \E c \in Chars \ {Brace, "P"} : Show(Inserted(l, c), Screen0)
          \/ screen.row + 6 <= LastRow /\ Show(l, Listed(Screen0))
       /\ hop' = Hop0
       /\ UNCHANGED <<history, saved, repl, past>>
-----------------------------------------------------------------------------
(* History and search                                                      *)

EditHistoryNext(k) ==
  LET i == Len(history) - l.history_index
      index == l.history_index + IF k = "history_previous" THEN 1 ELSE -1
      h == [history EXCEPT ![i] = l.buf]
      recalled == Recalled(h[Len(h) - index])
  IN /\ k \in {"history_previous", "history_next"}
     /\ Key(k)
     /\ \/ /\ Len(history) <= 1
           /\ l' = l /\ screen' = Screen0
           /\ UNCHANGED <<history, past>>
        \/ /\ Len(history) > 1
           /\ history' = h
           /\ past' = [past EXCEPT !.disturbed =
                         @ \/ (l.history_index > 0 /\ l.buf # history[i])]
           /\ IF index \in 0 .. Len(history) - 1
              THEN Show([Put(l, recalled, Len(recalled)) EXCEPT !.history_index = index],
                        Screen0)
              ELSE l' = l /\ screen' = Screen0
     /\ hop' = Hop0
     /\ UNCHANGED <<saved, repl>>

(* strstr: the places of line at which s begins, the first of them at 0    *)
Places(line, s) ==
  {p \in 0 .. Len(line) - Len(s) : SubSeq(line, p + 1, p + Len(s)) = s}

SearchLine(e, rbuf) == [e EXCEPT !.plen = SearchPromptLen + Len(rbuf)]

ReverseSearch ==
  /\ ReadKey("reverse_i_search")
  /\ searching' = [rbuf |-> <<>>, searchpos |-> Len(history)]
  /\ Show(SearchLine(l, <<>>), Screen0)
  /\ hop' = Hop0
  /\ UNCHANGED <<history, saved, repl, past>>

(* The entry that is found from place i on, or None                        *)
Found(i, dir, rbuf, skipsame) ==
  LET S == {q \in DOMAIN history : /\ IF dir = 1 THEN q >= i ELSE q <= i
                                   /\ Places(history[q], rbuf) # {}
                                   /\ skipsame => history[q] # l.buf}
  IN IF S = {} THEN None ELSE IF dir = 1 THEN Min(S) ELSE Max(S)

(* The characters that remain when nothing is found with the last of them  *)
UnmatchedKept(rbuf) == rbuf   (* a mutation of the next *)
Unmatched(rbuf) == Front(rbuf)

Search(k) ==
  LET previous == k \in {"reverse_i_search", "history_previous"}
      dir == IF k = "history_next" THEN 1 ELSE -1
      typing == k \in Chars
      rbuf == IF typing THEN Append(searching.rbuf, k) ELSE searching.rbuf
      i == CASE typing -> Len(history)
             [] previous -> IF searching.searchpos > 1 THEN searching.searchpos - 1
                            ELSE searching.searchpos
             [] OTHER -> IF searching.searchpos <= Len(history) THEN searching.searchpos + 1
                         ELSE searching.searchpos
      q == Found(i, dir, rbuf, ~typing)
  IN /\ searching # None
     /\ Typing(k)
     /\ \/ /\ k = "backspace" \/ (typing /\ Len(searching.rbuf) >= SearchMax)
           /\ searching' = [searching EXCEPT !.rbuf =
                              IF typing \/ @ = <<>> THEN @ ELSE Front(@)]
           /\ Show(SearchLine(l, searching'.rbuf), screen)
        \/ /\ previous \/ k = "history_next" \/ (typing /\ Len(searching.rbuf) < SearchMax)
           /\ q # None
           /\ searching' = [rbuf |-> rbuf, searchpos |-> q]
           /\ Show(SearchLine([Put(l, Recalled(history[q]), Min(Places(history[q], rbuf)))
                                 EXCEPT !.history_index = Len(history) - q], rbuf), screen)
        \/ /\ previous \/ k = "history_next" \/ (typing /\ Len(searching.rbuf) < SearchMax)
           /\ q = None
           /\ searching' = [rbuf |-> IF typing THEN Unmatched(rbuf) ELSE rbuf,
                            searchpos |-> IF dir = 1 THEN Len(history) + 1 ELSE 0]
           /\ Show(SearchLine(l, searching'.rbuf), screen)
     /\ UNCHANGED <<typist, peeked, history, saved, repl, hop, past>>

(* Any other key ends the search, and is done then.                        *)
EndSearch(k) ==
  LET e == IF k = "cancel_search" THEN Put(l, <<>>, 0) ELSE l
  IN /\ searching # None
     /\ k \notin Chars \cup {"backspace", "reverse_i_search", "history_previous",
                             "history_next", "tab"}
     /\ Typing(k)
     /\ searching' = None
     /\ peeked' = IF k \in {"cancel_search", "finish_search"} THEN None ELSE k
     /\ Show([e EXCEPT !.plen = PromptLen], screen)
     /\ UNCHANGED <<typist, history, saved, repl, hop, past>>
-----------------------------------------------------------------------------
(* The ends of a line                                                      *)

(* process_line for each of the lines, as far as the history goes; open[i] *)
(* says whether a form is left unfinished after the i-th.                  *)
Blanks(line) == \A i \in DOMAIN line : line[i] = Space
LastOnes(s) == SubSeq(s, Monus(Len(s), history_max_len) + 1, Len(s))

Processed(r, line, open) ==
  IF ~r.open /\ Blanks(line) THEN r
  ELSE [history |-> Added(r.history, line), open |-> open, adds |-> TRUE,
        entered |-> IF line = <<>> \/ (r.entered # <<>> /\ Last(r.entered) = line)
                    THEN r.entered
                    ELSE LastOnes(Append(r.entered, line))]
Process(lines, open, start) ==
  LET r[i \in 0 .. Len(lines)] == IF i = 0 THEN start
                                  ELSE Processed(r[i - 1], lines[i], open[i])
  IN r[Len(lines)]

(* The lines that were read, for process_line                              *)
Tokens(lines) ==
  IF NonEmpty(lines) = <<>> /\ repl.open THEN << <<>> >> ELSE NonEmpty(lines)

(* The scratch entry goes. *)
ScratchKept(h) == h   (* a mutation of the next *)
Scratched(h) == Front(h)

(* The terminal when KM_ENTER has moved the cursor to the end of the line  *)
AtLineEnd == IF l.pos # l.len THEN Refresh([l EXCEPT !.pos = l.len], Screen0).terminal
             ELSE Screen0
LinesRead == Append(repl.pending, SubSeq(l.buf, 1, l.len))

(* There is more to read: linenoiseRaw goes on, still in raw mode, where a *)
(* newline leaves the cursor in its column.                                *)
Continue ==
  /\ Key("enter")
  /\ hop' = Hop0
  /\ repl' = [repl EXCEPT !.pending = LinesRead, !.pasting = TRUE]
  /\ Begin(Scratched(history), [NextLine(AtLineEnd) EXCEPT !.col = AtLineEnd.col], repl.spaces)
  /\ UNCHANGED <<saved, past>>

Enter ==
  LET tokens == Tokens(LinesRead)
  IN /\ Key("enter")
     /\ hop' = Hop0
     /\ \E pasting \in IF peeked = None THEN BOOLEAN ELSE {repl.pasting},
           open \in [DOMAIN tokens -> BOOLEAN] :
          LET p == Process(tokens, open,
                           [history |-> Scratched(history), open |-> repl.open,
                            adds |-> FALSE, entered |-> past.entered])
          IN \E indent \in IF p.open /\ ~pasting THEN Indents ELSE {0} :
               /\ saved' = IF p.adds THEN p.history ELSE saved
               /\ past' = [past EXCEPT !.entered = p.entered]
               /\ repl' = [open |-> p.open, pending |-> <<>>, spaces |-> indent,
                           pasting |-> pasting]
               /\ Begin(p.history, NextLine(AtLineEnd), indent)

(* Ctrl-C: the scratch entry stays.                                        *)
Cancel == /\ Key("cancel")
          /\ hop' = Hop0
          /\ past' = [past EXCEPT !.disturbed = @ \/ Last(history) # <<>>]
          /\ repl' = [open |-> FALSE, pending |-> <<>>, spaces |-> 0, pasting |-> repl.pasting]
          /\ Begin(history, NextLine(NextLine(Screen0)), 0)
          /\ UNCHANGED saved

(* Ctrl-D on an empty line, exit or death, and another Planck later        *)
Restart == /\ keystrokes < MaxKeys
           /\ keystrokes' = keystrokes + 1
           /\ peeked' = None
           /\ searching' = None
           /\ repl' = [open |-> FALSE, pending |-> <<>>, spaces |-> 0, pasting |-> FALSE]
           /\ Begin(Load(saved), Fresh, 0)
           /\ hop' = NoHop
           /\ UNCHANGED <<typist, saved, past>>
-----------------------------------------------------------------------------
EditorNext ==
  \/ \E k \in Keys : Edit(k) \/ TypeChar(k) \/ EditHistoryNext(k) \/ Search(k) \/ EndSearch(k)
  \/ ClearScreen \/ Tab \/ ReverseSearch \/ Continue \/ Enter \/ Cancel
  \/ Restart \/ PrintNow
  \/ \E t \in hop.threads : ThreadChecks(t) \/ ThreadMovesBack(t)

EditorSpec == EditorInit /\ [][EditorNext]_editorVars
-----------------------------------------------------------------------------
HopType == [id : Nat, up : Int, right : Int]

EditorTypeOK ==
  /\ typist \in Typists
  /\ keystrokes \in 0 .. MaxKeys
  /\ peeked \in Keys \cup {None}
  /\ searching # None => /\ searching.rbuf \in Seq(Chars) /\ Len(searching.rbuf) <= SearchMax
                         /\ searching.searchpos \in 0 .. Len(history) + 1
  /\ Text(l.buf) /\ l.len \in 0 .. Len(l.buf) /\ l.pos \in 0 .. l.len
  /\ l.oldpos \in 0 .. buflen /\ l.maxrows \in Nat
  /\ l.history_index \in 0 .. Len(history) - 1
  /\ \A h \in {history, saved, past.entered} :
       Len(h) <= history_max_len /\ \A i \in DOMAIN h : Text(h[i])
  /\ repl.open \in BOOLEAN /\ repl.pasting \in BOOLEAN /\ repl.spaces \in Indents \cup {0}
  /\ screen.shows \in [Rows -> Rows \cup {Blank, Output, Rest}]
  /\ screen.row \in Nat /\ screen.col \in 0 .. Cols - 1 /\ screen.base \in Nat
  /\ hop.sequence \in Nat /\ hop.restore \in HopType
  /\ past.disturbed \in BOOLEAN

(* The history file holds the lines that were entered last, empty ones     *)
(* aside, in their order and at most one short of the limit, whatever the  *)
(* scratch entry, the search and the evictions did in between; unless a    *)
(* recalled line was changed and left, or one that was recalled was given  *)
(* up.                                                                     *)
HistoryIsKept ==
  LET lines == NonEmpty(saved)
  IN ~past.disturbed => /\ IsSuffix(lines, past.entered)
                        /\ Len(lines) >= Min({Len(past.entered), history_max_len - 1})

(* What the search shows has what is searched for where the cursor is,     *)
(* unless a line fills the buffer.                                         *)
SearchShowsMatch ==
  /\ searching # None
  /\ searching.rbuf # <<>>
  /\ \A i \in DOMAIN history : Len(history[i]) < buflen
  => l.pos \in Places(l.buf, searching.rbuf)

(* The line before this one was pasted with it, and ended so near the      *)
(* margin that the prompt did not fit behind it.                           *)
Torn == /\ repl.pending # <<>>
        /\ ((PromptLen + Len(Last(repl.pending))) % Cols) + PromptLen > Cols

(* When no thread has the cursor elsewhere, the terminal shows the output  *)
(* above and the line below it, whole, once, and the cursor in its place.  *)
(* Between them there may be a piece of a prompt if the output is a line   *)
(* that is Torn from this one.  The rows that are modelled are enough.     *)
LineIsShown ==
  LET rows == (l.plen + l.len + Cols - 1) \div Cols
      Above(r) == {Output} \cup IF Torn /\ r = 1 THEN {Rest} ELSE {}
  IN /\ {screen.row, screen.base} \subseteq Rows
     /\ ~Due /\ (\A t \in hop.threads : ~t.checked) =>
       /\ screen.row = screen.base + (l.plen + l.pos) \div Cols
       /\ screen.col = (l.plen + l.pos) % Cols
       /\ \A r \in Rows :
            /\ r < screen.base => screen.shows[r] \in Above(r)
            /\ r >= screen.base => screen.shows[r] = IF r < screen.base + rows
                                                     THEN r - screen.base ELSE Blank
=============================================================================

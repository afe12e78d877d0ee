---------------------------- MODULE MCLineEditor ----------------------------
EXTENDS LineEditor

Typist(keys, cols) == [keys |-> keys, cols |-> cols, prints |-> FALSE, timely |-> TRUE]
Editing == EditingKeys \cup {"a", " ", "clear_screen", "enter"}
(* One edits a line of several rows; one goes through the history, one     *)
(* searches it; one closes braces; one pastes what was copied with its     *)
(* prompts; one is shown what others print.                                *)
MCTypists == {Typist(Editing, 4),
              Typist({"a", "b", "enter", "history_previous", "history_next", "cancel"}, 9),
              Typist({"a", "b", "enter", "history_previous", "history_next", "backspace",
                      "reverse_i_search", "finish_search"}, 15),
              Typist({"a", ")", "move_left", "enter"}, 9),
              Typist({" ", "P", "a", "enter"}, 9),
              [Typist({"a", "move_left", "tab"}, 9) EXCEPT !.prints = TRUE]}
MCHistories == {<<>>, << <<"a">>, <<"b", "a">>, <<"a", "b">> >>}
=============================================================================

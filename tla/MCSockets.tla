----------------------------- MODULE MCSockets -----------------------------
EXTENDS Sockets

(* One socket that is connected and one that is accepted; the peer says    *)
(* "ab", in any number of pieces, and "ab" is what is written.             *)
MCSpeech == <<"a", "b">>
MCTexts == {MCSpeech}
=============================================================================

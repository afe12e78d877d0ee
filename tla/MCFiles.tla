------------------------------ MODULE MCFiles -------------------------------
EXTENDS Files, TLC

(* Texts of up to three characters, read in chunks of one or two, or whole *)
(* as a string is; single characters and a line are put back, or written.  *)
MCSources == UNION {[1 .. n -> Chars] : n \in 0 .. 3}
MCContents == {<<>>, <<"a", Newline>>}
MCNodeOf == [p \in Paths |-> IF p = CHOOSE q \in Paths : TRUE THEN 1 ELSE 2]
MCSymmetry == Permutations(Addresses)
MCPushable == {<<"a">>, <<"a", Newline>>}
=============================================================================

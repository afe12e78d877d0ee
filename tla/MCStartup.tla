----------------------------- MODULE MCStartup -----------------------------
(* Command lines of up to three tokens of several kinds, and a few longer  *)
(* ones with every option; good and bad values, in a word of their own and *)
(* attached to the option; with and without a HOME.                        *)
EXTENDS Startup

Short(o) == [form |-> "short", opt |-> o]
Long(o) == [form |-> "long", opt |-> o]
Word(w) == [form |-> "word", opt |-> w]
With(t, v, last) == [form |-> t.form, opt |-> t.opt, value |-> v, last |-> last]

Tokens == {Short(o) : o \in {"e", "m", "r", "o", "v"}} \cup {Long("v"), Long("i")}
          \cup {Word("a"), Word("bad"), Hyphen}
Main3 == {Short("e"), Short("m"), Short("r"), Long("v"), Word("a"), Word("bad")}

(* Values in the same word, and options that do not exist.                 *)
Attaching ==
  {<<With(Long("i"), Word("a"), "a")>>,
   <<With(Long("i"), Word("a"), "a"), Word("b"), Short("e"), Word("a")>>,
   <<With(Long("e"), Word("bad"), "d"), Short("v"), Word("a")>>,
   <<Short("v"), With(Long("m"), Word("a"), "a"), Word("b"), Short("e")>>,
   <<With(Short("m"), Word("a"), "e"), Word("b"), Short("e")>>,
   <<With(Short("e"), Word("a"), "x"), With(Short("i"), Word("b"), "e"), Short("r"), Word("a")>>,
   <<With(Short("e"), Word("a"), "x"), Word("b"), Short("e")>>,
   <<With(Short("e"), Word("a"), "e"), Word("b"), Short("e"), Word("a")>>,
   <<With(Short("i"), Word("a"), "o"), Hyphen, Word("b")>>,
   <<With(Long("i"), Word("a"), "a"), Hyphen, Word("b")>>,
   <<Short("e"), With(Long("i"), Word("a"), "a"), Short("r"), Word("b")>>,
   <<With(Long("1"), Word("a"), "a")>>,
   <<With(Long("k"), Word("a"), "a"), With(Short("k"), Word("b"), "b")>>,
   <<With(Long("A"), Word("bad"), "d"), Word("a")>>, <<With(Short("O"), Word("a"), "a"), Word("b")>>,
   <<With(Long("v"), Word("a"), "a")>>, <<With(Long("r"), Word("a"), "a"), Word("b")>>,
   <<With(Long("V"), Word("a"), "a")>>, <<Short("?")>>, <<Short("v"), Long("z"), Word("a")>>}

MCArgvs ==
  {<<>>} \cup [1 .. 1 -> Tokens] \cup [1 .. 2 -> Tokens] \cup [1 .. 3 -> Main3]
  \cup {<<Short("co"), Word("a"), Short("e"), Word("a")>>,
        <<Short("e"), Word("a"), Long("i"), Word("b"), Short("r")>>,
        <<Short("e"), Word("bad"), Long("i"), Word("b"), Word("a")>>,
        <<Short("e"), Short("e"), Long("i"), Word("b"), Word("a"), Short("v")>>,
        <<Short("e"), Short("e"), Word("a"), Short("v"), Word("b")>>,
        <<Short("i"), Word("a"), Short("m"), Word("b"), Short("e"), Word("b")>>,
        <<Short("k"), Word("a"), Long("K")>>, <<Short("K"), Word("a"), Word("b")>>,
        <<Short("n"), Word("a")>>, <<Short("n"), Word("bad"), Short("d")>>,
        <<Short("n"), Word("a"), Short("d"), Short("e"), Word("bad"), Short("r")>>,
        <<Short("A"), Word("bad")>>, <<Short("O"), Word("a"), Short("A"), Word("a"), Hyphen>>,
        <<Short("t"), Word("bad")>>, <<Short("t"), Word("bad"), Short("d"), Word("a"), Word("b")>>,
        <<Short("D"), Word("a"), Short("c"), Word("b"), Hyphen, Word("a")>>,
        <<Short("D"), Word("a"), Long("L"), Word("b"), Word("a"), Short("h")>>,
        <<Short("S"), Word("a")>>, <<Short("h")>>, <<Long("V"), Word("a")>>, <<Short("l")>>,
        <<Short("c"), Word("a"), Short("c"), Word("b"), Short("r")>>,
        <<Long("o"), Word("a"), Word("b"), Short("v"), Short("e")>>}
  \cup Attaching

MCEnvs == {[home |-> h, classpath |-> IF h THEN "q" ELSE None,
            keymap |-> k] : h \in BOOLEAN, k \in BOOLEAN}
MCWrong == {Word("bad")}
MCThrowing == {Word("bad")}
=============================================================================

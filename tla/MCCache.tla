------------------------------- MODULE MCCache -------------------------------
EXTENDS Cache

Plain(text, time) == [blocks |-> <<[text |-> text, opts |-> None]>>, modified |-> time]
Built(text, opts, time) == [blocks |-> <<[text |-> text, opts |-> opts],
                                         [text |-> text, opts |-> opts]>>,
                            modified |-> time]
BuiltMap(text, opts, time) == [Built(text, opts, time) EXCEPT !.blocks = <<@[1]>>]
Empty == [n \in Names |-> None]
Holding(name, f) == [Empty EXCEPT ![name] = f]

MCSize == [k \in Kinds |-> IF k = "js.map.json" THEN 1 ELSE 2]
MCPath == <<"jar", "src">>
MCJars == {"jar"}
Bare == [h \in Holders |-> IF h \in Jars THEN None ELSE Empty]
(* A source in a directory; in an archive before it, which may be missing  *)
(* or be replaced; a library that is bundled with Planck; a source below   *)
(* the current directory; plain JavaScript.                                *)
MCTrees == {[Bare EXCEPT !["src"] = Holding("cljs", Plain("u", 1))],
            [Bare EXCEPT !["jar"] = Holding("cljs", Plain("u", 1))],
            [Bare EXCEPT !["bundle"] = [Empty EXCEPT !["cljs"] = Plain("u", 0),
                                                     !["js"] = Built("u", None, 0),
                                                     !["cache.json"] = Built("u", None, 0),
                                                     !["js.map.json"] = BuiltMap("u", None, 0)]],
            [Bare EXCEPT !["cwd"] = Holding("cljc", Plain("u", 1))],
            [Bare EXCEPT !["src"] = Holding("js", Plain("u", 1))]}
MCEdited == {<<"src", "cljs">>}
(* One process at a time, with changing options, that may be killed; two   *)
(* at a time, with the same options.                                       *)
MCCustoms == {[procs |-> {"p"}, opts |-> {"a", "b"}, habits |-> {"kill"}],
              [procs |-> {"p", "q"}, opts |-> {"a"}, habits |-> {}]}
MCSettings == {TRUE}
=============================================================================

-------------------------------- MODULE Cache --------------------------------
(***************************************************************************)
(* How Planck finds the code of a namespace, planck/repl.cljs (load-other, *)
(* load-and-callback!, cached-callback-data, write-cache) over the natives *)
(* PLANCK_LOAD, PLANCK_READ_FILE and PLANCK_CACHE of functions.c: a search *)
(* of the class path for the source, then of the class path and the cache  *)
(* directory for its compiled form; if there is none that is valid, the    *)
(* source is compiled and three files are written: the JavaScript, the     *)
(* analysis, the source map.                                               *)
(*                                                                         *)
(* One namespace, many processes on one cache directory.  Nothing is       *)
(* locked: a process that opens a file empties it, writes it in blocks,    *)
(* and may be killed in between.  Times are st_mtime, in seconds.          *)
(***************************************************************************)
EXTENDS Integers, Sequences, FiniteSets

CONSTANTS Procs,
          Path,          (* config.src_paths: a sequence of places           *)
          Jars,          (* the places of Path that are archives             *)
          Developing,    (* Planck runs on its own sources                   *)
          InitialTrees,  (* what the places may hold at first                *)
          Texts,         (* what a source may say                            *)
          Edited,        (* <<place, name>> of the sources that are edited   *)
          Opts,          (* ClojureScript version and build affecting options*)
          SourceMaps,    (* values of :source-map                            *)
          Size,          (* blocks of each file in the cache                 *)
          FirstSecond, LastSecond,   (* bounds on the clock               *)
          Customs,       (* groups of users, see IsCustom                    *)
          None

(* Places of function_load, in its order; "cwd" is what PLANCK_READ_FILE   *)
(* reads, the file system below the current directory.                     *)
Places == IF Developing THEN Path \o <<"out", "bundle">>
                        ELSE <<"bundle">> \o Path \o <<"out">>

Extensions == <<"cljs", "cljc", "js">>
Kinds == {"js", "cache.json", "js.map.json"}
Names == {"cljs", "cljc"} \cup Kinds
Holders == {Places[i] : i \in DOMAIN Places} \cup {"cwd"}

(* A block tells the text it was compiled from and the options it was      *)
(* compiled with.  Hole is a block of zeros that was skipped.              *)
Hole == [text |-> None, opts |-> None]
Block == [text : Texts, opts : Opts \cup {None}] \cup {Hole}
File == [blocks : Seq(Block), modified : Nat]
Whole(f) == f.blocks # <<>> /\ \A i \in DOMAIN f.blocks : f.blocks[i] # Hole
(* What a place holds.  The analysis beside core.cljs is                   *)
(* core.cljs.cache.json, beside core.cljc core.cljc.cache.json: here both  *)
(* are "cache.json", and so with the map.                                  *)
Tree == [Names -> {f \in File : Whole(f)} \cup {None}]

(* Users have some processes at a time and use some options.  Besides      *)
(* launching them, editing sources while nothing is being loaded, and      *)
(* replacing archives while Planck does not run, they may:                 *)
Habits == {"edit_while_loading",
           "replace_while_running",
           "backdate",            (* bring in a file that is not new       *)
           "mix_options",         (* run processes with different options  *)
           "kill"}                (* end Planck at any moment              *)

IsCustom(c) == /\ c.procs \subseteq Procs
               /\ c.opts \subseteq Opts
               /\ c.habits \subseteq Habits

ASSUME CacheAssumption ==
  /\ Path \in Seq(STRING)
  /\ Jars \subseteq {Path[i] : i \in DOMAIN Path}
  /\ {Path[i] : i \in DOMAIN Path} \cap {"out", "bundle", "cwd"} = {}
  /\ Developing \in BOOLEAN
  /\ InitialTrees \subseteq [Holders -> Tree \cup {None}]
  /\ \A t \in InitialTrees, h \in Holders \ Jars : t[h] # None
  /\ Edited \subseteq (Holders \ (Jars \cup {"bundle"})) \X {"cljs", "cljc"}
  /\ SourceMaps \subseteq BOOLEAN
  /\ Size \in [Kinds -> Nat \ {0}]
  /\ LastSecond \in Nat
  /\ FirstSecond \in 1 .. LastSecond
  /\ None \notin Texts /\ None \notin Names /\ None \notin File /\ None \notin Tree
  /\ Procs \cap {"whole", "torn"} = {}
  /\ \A c \in Customs : IsCustom(c)

VARIABLES now,     (* the clock                                            *)
          tree,    (* place -> name -> file; None for a missing archive    *)
          cache,   (* the cache directory: kind -> file                    *)
          proc,    (* the state of each process                            *)
          users,   (* the users of this cache directory                    *)
          author   (* history: who wrote what is in the cache: a process   *)
                   (* that writes alone, "whole" when it is done, "torn"   *)

vars == <<now, tree, cache, proc, users, author>>

Off == [pc |-> "off", opts |-> None, maps |-> FALSE, ext |-> 1, kind |-> "js",
        offset |-> 0, source |-> None, raw_load |-> "load",
        read |-> [k \in Kinds |-> None], calm |-> TRUE,
        archive |-> [j \in Jars |-> None], blacklisted |-> {}]

Init == /\ now = FirstSecond
        /\ tree \in InitialTrees
        /\ cache = [k \in Kinds |-> None]
        /\ proc = [p \in Procs |-> Off]
        /\ users \in Customs
        /\ author = "whole"
-----------------------------------------------------------------------------
(* Mutations: what plausible mistakes would make of the definitions below. *)
(* Spec does not use them; with each in its place, a property fails.       *)

(* A compiled file of the same second counts as newer; the options are not *)
(* in its first line.                                                      *)
ValidSameSecond(js, source, opts) ==
  /\ js # None
  /\ \/ js.modified = 0 /\ source.modified = 0
     \/ /\ js.modified >= source.modified
        /\ js.blocks # <<>>
        /\ js.blocks[1].opts = opts
ValidWithoutOptions(js, source, opts) ==
  /\ js # None
  /\ \/ js.modified = 0 /\ source.modified = 0
     \/ /\ js.modified > source.modified
        /\ js.blocks # <<>>
        /\ js.blocks[1].opts = None

(* The analysis is left out. *)
NextKindNoAnalysis(kind, maps) == IF kind = "js" /\ maps THEN "js.map.json" ELSE None
-----------------------------------------------------------------------------
Loading(p) == proc[p].pc \notin {"off", "ready"}
Writing(p) == proc[p].pc = "write"

(* function_load.  A missing archive is never looked for again; one that   *)
(* was opened is read as it was then.                                      *)
View(p, h) == IF h \in proc[p].blacklisted \/ tree[h] = None THEN None
              ELSE IF h \in Jars /\ proc[p].archive[h] # None THEN proc[p].archive[h]
              ELSE tree[h]

Has(p, h, name) == View(p, h) # None /\ View(p, h)[name] # None

Reached(p, name) == {i \in DOMAIN Places : \A j \in 1 .. i - 1 : ~Has(p, Places[j], name)}

Loaded(p, name) ==
  IF \E i \in DOMAIN Places : Has(p, Places[i], name)
  THEN LET i == CHOOSE i \in Reached(p, name) : Has(p, Places[i], name)
       IN View(p, Places[i])[name]
  ELSE None

(* The process after the search *)
Searched(p, name) ==
  LET jars == {Places[i] : i \in Reached(p, name)} \cap Jars
  IN [proc[p] EXCEPT
        !.blacklisted = @ \cup {j \in jars : tree[j] = None},
        !.archive = [j \in Jars |-> IF j \in jars THEN View(p, j) ELSE @[j]]]

(* get_contents: a file is read up to a hole, and an empty file not at all *)
GetContents(f) ==
  IF f = None \/ (f # None /\ f.blocks = <<>>) THEN None
  ELSE LET holes == {i \in DOMAIN f.blocks : f.blocks[i] = Hole}
           n == IF holes = {} THEN Len(f.blocks)
                ELSE CHOOSE n \in 0 .. Len(f.blocks) :
                       n + 1 \in holes /\ \A i \in holes : n < i
       IN [f EXCEPT !.blocks = SubSeq(@, 1, n)]

(* cached-js-valid? *)
Valid(js, source, opts) ==
  /\ js # None
  /\ \/ js.modified = 0 /\ source.modified = 0
     \/ /\ js.modified > source.modified
        /\ js.blocks # <<>>
        /\ js.blocks[1].opts = opts

(* Transit that is cut off cannot be read. *)
Cut(f, kind) == f # None /\ Len(f.blocks) < Size[kind]

TextOf(f) == f.blocks[1].text

Compiled(p) == [text |-> TextOf(proc[p].source), opts |-> proc[p].opts]

(* fwrite of block i at its place, whatever the length of the file is now. *)
Written(blocks, i, b) ==
  [j \in 1 .. (IF i > Len(blocks) THEN i ELSE Len(blocks)) |->
     IF j = i THEN b ELSE IF j <= Len(blocks) THEN blocks[j] ELSE Hole]

NextKind(kind, maps) == CASE kind = "js" -> "cache.json"
                          [] kind = "cache.json" /\ maps -> "js.map.json"
                          [] OTHER -> None

Set(p, r) == proc' = [proc EXCEPT ![p] = r]

(* The load of q is over; what it worked with is forgotten. *)
Done(q) == [Off EXCEPT !.pc = "ready", !.opts = q.opts, !.maps = q.maps,
                       !.archive = q.archive, !.blacklisted = q.blacklisted]
-----------------------------------------------------------------------------
(* A process starts with its options, and ends. *)
Launch(p) ==
  /\ p \in users.procs
  /\ proc[p].pc = "off"
  /\ \E opts \in users.opts, maps \in SourceMaps :
       /\ "mix_options" \in users.habits \/ \A q \in Procs \ {p} :
            proc[q].pc = "off" \/ (proc[q].opts = opts /\ proc[q].maps = maps)
       /\ Set(p, [Off EXCEPT !.pc = "ready", !.opts = opts, !.maps = maps])
  /\ UNCHANGED <<now, tree, cache, author, users>>

Exit(p) == /\ proc[p].pc = "ready"
           /\ Set(p, Off)
           /\ UNCHANGED <<now, tree, cache, author, users>>

Kill(p) == /\ "kill" \in users.habits
           /\ Loading(p)
           /\ Set(p, Off)
           /\ author' = IF Writing(p) THEN "torn" ELSE author
           /\ UNCHANGED <<now, tree, cache, users>>

(* require, with :reload if the namespace is loaded already *)
Load(p) ==
  /\ proc[p].pc = "ready"
  /\ Set(p, [proc[p] EXCEPT !.pc = "find"])
  /\ UNCHANGED <<now, tree, cache, author, users>>

(* load-other, load-and-callback!: the next extension *)
Find(p) ==
  LET name == Extensions[proc[p].ext]
      loaded == Loaded(p, name)
      source == IF loaded # None THEN loaded ELSE tree["cwd"][name]
      q == [Searched(p, name) EXCEPT
              !.source = source,
              !.raw_load = IF loaded # None THEN "load" ELSE "read_file"]
  IN /\ proc[p].pc = "find"
     /\ \/ /\ source # None
           /\ name # "js"
           /\ Set(p, [q EXCEPT !.pc = "read"])
        \/ /\ source # None
           /\ name = "js"
           /\ Set(p, Done(q))
        \/ /\ source = None
           /\ proc[p].ext < Len(Extensions)
           /\ Set(p, [q EXCEPT !.ext = @ + 1])
        \/ /\ source = None
           /\ proc[p].ext = Len(Extensions)
           /\ Set(p, Done(q))
     /\ UNCHANGED <<now, tree, cache, author, users>>

(* cached-callback-data: each file from where the source is, or the cache  *)
Read(p) ==
  LET k == proc[p].kind
      q == IF proc[p].raw_load = "load" THEN Searched(p, k) ELSE proc[p]
      beside == IF proc[p].raw_load = "load" THEN Loaded(p, k) ELSE tree["cwd"][k]
      next == NextKind(k, proc[p].maps)
  IN /\ proc[p].pc = "read"
     /\ Set(p, [q EXCEPT
          !.read[k] = IF beside # None THEN beside ELSE GetContents(cache[k]),
          !.calm = @ /\ author = "whole",
          !.pc = IF next = None THEN "check" ELSE "read",
          !.kind = IF next = None THEN "js" ELSE next])
     /\ UNCHANGED <<now, tree, cache, author, users>>

(* The cached form is used; if its analysis or map is cut off, require     *)
(* throws.                                                                 *)
Using(p) == /\ proc[p].pc = "check"
            /\ Valid(proc[p].read["js"], proc[p].source, proc[p].opts)
Throws(p) == \E k \in {"cache.json", "js.map.json"} : Cut(proc[p].read[k], k)

Use(p) == /\ Using(p)
          /\ Set(p, Done(proc[p]))
          /\ UNCHANGED <<now, tree, cache, author, users>>

(* Otherwise the source is compiled, which may fail. *)
Compile(p) ==
  /\ proc[p].pc = "check"
  /\ ~Using(p)
  /\ \/ Set(p, [proc[p] EXCEPT !.pc = "write", !.kind = "js", !.read = Off.read])
     \/ Set(p, Done(proc[p]))
  /\ UNCHANGED <<now, tree, cache, author, users>>

(* Nobody asks when the analysis and the map were written. *)
Time(kind) == IF kind = "js" THEN now ELSE 0

(* function_cache, write_contents: fopen empties the file.                 *)
OpenFile(p) ==
  /\ Writing(p)
  /\ proc[p].offset = 0
  /\ cache' = [cache EXCEPT ![proc[p].kind] = [blocks |-> <<>>, modified |-> Time(proc[p].kind)]]
  /\ Set(p, [proc[p] EXCEPT !.offset = 1])
  /\ author' = IF \E q \in Procs \ {p} : Writing(q) THEN "torn"
               ELSE IF proc[p].kind = "js" THEN p ELSE author
  /\ UNCHANGED <<now, tree, users>>

WriteFile(p) ==
  LET k == proc[p].kind
      i == proc[p].offset
      next == NextKind(k, proc[p].maps)
  IN /\ Writing(p)
     /\ i # 0
     /\ cache' = [cache EXCEPT ![k] = [blocks |-> Written(@.blocks, i, Compiled(p)),
                                       modified |-> Time(k)]]
     /\ Set(p, CASE i < Size[k] -> [proc[p] EXCEPT !.offset = i + 1]
                 [] i = Size[k] /\ next # None -> [proc[p] EXCEPT !.offset = 0, !.kind = next]
                 [] OTHER -> Done(proc[p]))
     /\ author' = IF i = Size[k] /\ next = None /\ author = p THEN "whole" ELSE author
     /\ UNCHANGED <<now, tree, users>>
-----------------------------------------------------------------------------
(* Users *)
Dates == IF "backdate" \in users.habits THEN 0 .. now ELSE {now}

Edit(h, name) ==
  /\ now < LastSecond
  /\ tree[h][name] # None
  /\ "edit_while_loading" \in users.habits \/ \A p \in Procs : ~Loading(p)
  /\ \E text \in Texts, time \in Dates :
       tree' = [tree EXCEPT ![h][name] =
                  [blocks |-> <<[text |-> text, opts |-> None]>>, modified |-> time]]
  /\ UNCHANGED <<now, cache, proc, author, users>>

Replace(j) ==
  /\ now < LastSecond
  /\ tree[j] # None
  /\ "replace_while_running" \in users.habits \/ \A p \in Procs : proc[p].pc = "off"
  /\ \E text \in Texts, time \in Dates :
       tree' = [tree EXCEPT ![j] =
                  [name \in Names |->
                     IF name # "cljs" THEN None
                     ELSE [blocks |-> <<[text |-> text, opts |-> None]>>,
                           modified |-> time]]]
  /\ UNCHANGED <<now, cache, proc, author, users>>

Tick == /\ now < LastSecond
        /\ now' = now + 1
        /\ UNCHANGED <<tree, cache, proc, author, users>>
-----------------------------------------------------------------------------
Step(p) == \/ Find(p) \/ Read(p) \/ Use(p) \/ Compile(p)
           \/ OpenFile(p) \/ WriteFile(p)

Next == \/ \E p \in Procs : Launch(p) \/ Exit(p) \/ Kill(p) \/ Load(p) \/ Step(p)
        \/ \E e \in Edited : Edit(e[1], e[2])
        \/ \E j \in Jars : Replace(j)
        \/ Tick

Spec == Init /\ [][Next]_vars

(* A process that loads goes on, and time does. *)
FairSpec == /\ Spec
            /\ \A p \in Procs : WF_vars(Step(p))
            /\ WF_vars(Tick)
-----------------------------------------------------------------------------
ProcState == [pc : {"off", "ready", "find", "read", "check", "write"},
              opts : Opts \cup {None}, maps : BOOLEAN,
              ext : DOMAIN Extensions, kind : Kinds, offset : Nat,
              source : File \cup {None}, raw_load : {"load", "read_file"},
              read : [Kinds -> File \cup {None}],
              calm : BOOLEAN,
              archive : [Jars -> Tree \cup {None}], blacklisted : SUBSET Jars]

TypeOK == /\ now \in FirstSecond .. LastSecond
          /\ tree \in [Holders -> Tree \cup {None}]
          /\ cache \in [Kinds -> File \cup {None}]
          /\ proc \in [Procs -> ProcState]
          /\ users \in Customs
          /\ author \in Procs \cup {"whole", "torn"}

(* Code from the cache is what the compiler would make of the source that  *)
(* was found, under the options of the process; or the beginning of it, if *)
(* its writer was killed or is at work.                                    *)
RunsItsCode == \A p \in Procs : Using(p) =>
  LET js == proc[p].read["js"]
  IN /\ js.blocks # <<>>
     /\ \A i \in DOMAIN js.blocks :
          \/ js.blocks[i] = Compiled(p)
          \/ js.modified = 0 /\ js.blocks[i].text = TextOf(proc[p].source)

(* When the cache is as one writer left it, code, analysis and source map  *)
(* that are used are whole and come from one compilation.                  *)
Needed(p) == IF proc[p].maps THEN Kinds ELSE Kinds \ {"js.map.json"}
BelongTogether == \A p \in Procs : Using(p) /\ proc[p].calm =>
  /\ ~Throws(p)
  /\ \A k \in Needed(p) :
       LET f == proc[p].read[k]
       IN f # None /\ f.blocks = [i \in 1 .. Size[k] |-> proc[p].read["js"].blocks[1]]

(* Unless others change options, kill, or load at the same time, a source  *)
(* is in the end compiled no more.                                         *)
Undisturbed(opts) ==
  /\ <>[](\A p \in Procs : proc[p].pc # "off" => proc[p].opts = opts)
  /\ <>[](\A p, q \in Procs : Loading(p) /\ Loading(q) => p = q)
  /\ <>[][\A p \in Procs : ~Kill(p)]_vars
SettlesDown == \A opts \in Opts :
                 Undisturbed(opts) => <>[](\A p \in Procs : ~Writing(p))
=============================================================================

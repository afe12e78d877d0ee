----------------------------- MODULE CacheProofs -----------------------------
(***************************************************************************)
(* Proofs about Cache, for any class path, archives and sizes of files,    *)
(* any number of processes that load at a time and are killed: code that   *)
(* is run is that of the source that was found, and what is used together  *)
(* comes from one compilation.                                             *)
(***************************************************************************)
EXTENDS Cache, SequenceTheorems, WellFoundedInduction, TLAPS

(* What users do besides: they may kill. *)
Steady == \A c \in Customs : c.habits \subseteq {"kill"}

(* Compiled files that come with sources are not newer than any source,    *)
(* and if they are not dated, like those of the bundle, they were compiled *)
(* from every source that is not dated either.                             *)
Shipped(t) ==
  \A h \in Holders : t[h] # None /\ t[h]["js"] # None =>
    /\ t[h]["js"].modified <= FirstSecond
    /\ \A g \in Holders, name \in {"cljs", "cljc"} : t[g] # None /\ t[g][name] # None =>
         /\ t[h]["js"].modified <= t[g][name].modified
         /\ t[g][name].modified = 0 =>
              \A i \in DOMAIN t[h]["js"].blocks : t[h]["js"].blocks[i].text = TextOf(t[g][name])

(* Analysis and source map come only with JavaScript, and with JavaScript  *)
(* that is not dated they come whole.                                      *)
Blocks(n, b) == [i \in 1 .. n |-> b]
Uniform(k, b) == Blocks(Size[k], b)
ShippedWhole(t) ==
  \A h \in Holders, k \in Kinds : t[h] # None =>
    /\ t[h]["js"] = None => t[h][k] = None
    /\ t[h]["js"] # None /\ t[h]["js"].modified = 0 =>
         t[h][k] # None /\ t[h][k].blocks = Uniform(k, t[h]["js"].blocks[1])

AllShipped == \A t \in InitialTrees : Shipped(t)
AllShippedWhole == \A t \in InitialTrees : ShippedWhole(t)
OneSetting == \A m, n \in SourceMaps : m = n
-----------------------------------------------------------------------------
(* The search as the tree t alone decides it *)
Held(t, h, name) == t[h] # None /\ t[h][name] # None
First(t, name) == {i \in DOMAIN Places : \A j \in 1 .. i - 1 : ~Held(t, Places[j], name)}
Shown(t, name) ==
  IF \E i \in DOMAIN Places : Held(t, Places[i], name)
  THEN LET i == CHOOSE i \in First(t, name) : Held(t, Places[i], name)
       IN t[Places[i]][name]
  ELSE None
From(t, name) == IF Shown(t, name) # None THEN Shown(t, name) ELSE t["cwd"][name]
Source(t) == IF From(t, "cljs") # None THEN From(t, "cljs") ELSE From(t, "cljc")

(* Types: there is a source when it is read or compiled, and a file when   *)
(* it is written.                                                          *)
Made == {f \in File : Whole(f)}
HasSource(p) == proc[p].pc \in {"read", "check", "write"}
Types == /\ TypeOK
         /\ \A h \in Holders \ Jars : tree[h] # None
         /\ \A p \in Procs : HasSource(p) => proc[p].source \in Made
         /\ \A p \in Procs : proc[p].offset # 0 => Writing(p) /\ cache[proc[p].kind] # None

(* A process remembers of archives what is still so, begins with the       *)
(* JavaScript, and has the options of the others.                          *)
Sees(q) == \A j \in Jars : /\ j \in q.blacklisted => tree[j] = None
                           /\ q.archive[j] # None => q.archive[j] = tree[j]
Begins(q) == /\ q.pc = "off" => q = Off
             /\ q.pc = "ready" => q.ext = 1
             /\ q.pc \in {"ready", "find", "check"} => q.kind = "js"
             /\ q.pc = "read" /\ q.kind = "js.map.json" => q.maps
Like(q, r) == q.pc # "off" /\ r.pc # "off" => q.opts = r.opts /\ q.maps = r.maps
Allowed(q) == q.pc # "off" => q.opts \in Opts /\ q.maps \in SourceMaps
Shape == /\ Types
         /\ \A p \in Procs : Sees(proc[p]) /\ Begins(proc[p]) /\ Allowed(proc[p])
         /\ \A p, q \in Procs : Like(proc[p], proc[q])

(* What is being loaded is the source. *)
Finds(q) ==
  /\ q.pc = "find" => \A e \in 1 .. q.ext - 1 : From(tree, Extensions[e]) = None
  /\ q.pc \in {"read", "check", "write"} => q.source = Source(tree) /\ Source(tree) # None
Sourced == \A p \in Procs : Finds(proc[p])

(* Code in the cache: of one compilation, that of the source if it is      *)
(* newer; while it is being written, of what is being loaded.              *)
Filled(f, b) == \A i \in DOMAIN f.blocks : f.blocks[i] \in {b, Hole}
Opened(p) == Writing(p) /\ (proc[p].kind # "js" \/ proc[p].offset # 0)
Fits(f, source) == \E b \in Block \ {Hole} :
  /\ Filled(f, b)
  /\ f.modified > source.modified => b.text = TextOf(source)
Sound == /\ cache["js"] # None => /\ cache["js"].modified \in 1 .. now
                                  /\ \E b \in Block \ {Hole} : Filled(cache["js"], b)
                                  /\ Source(tree) # None => Fits(cache["js"], Source(tree))
         /\ \A p \in Procs : Opened(p) => cache["js"] # None /\ Filled(cache["js"], Compiled(p))

(* What was read. *)
Got(q, k) == \/ q.pc = "read" /\ k = "js" /\ q.kind # "js"
             \/ q.pc = "read" /\ k = "cache.json" /\ q.kind = "js.map.json"
             \/ q.pc = "check" /\ (k # "js.map.json" \/ q.maps)
Readable(f, source) ==
  /\ \A i \in DOMAIN f.blocks : f.blocks[i] # Hole
  /\ f.modified > source.modified => Fits(f, source)
  /\ f.modified = 0 /\ source.modified = 0 =>
       f.blocks # <<>> /\ \A i \in DOMAIN f.blocks : f.blocks[i].text = TextOf(source)
ReadsWell(q) == Got(q, "js") /\ q.read["js"] # None => Readable(q.read["js"], q.source)
ReadsSound == \A p \in Procs : ReadsWell(proc[p])

CacheInv == Shape /\ Shipped(tree) /\ Sourced /\ Sound /\ ReadsSound

(* Whole files *)
Kept == {k \in Kinds : k # "js.map.json" \/ TRUE \in SourceMaps}
Full(k, b) == cache[k] # None /\ cache[k].blocks = Uniform(k, b)
Before(kind) == CASE kind = "js" -> {} [] kind = "cache.json" -> {"js"}
                  [] OTHER -> {"js", "cache.json"}
Authored ==
  /\ author = "whole" => \/ cache["js"] = None
                         \/ \E b \in Block \ {Hole} : \A k \in Kept : Full(k, b)
  /\ \A p \in Procs : Opened(p) => author \in {p, "torn"}
  /\ \A p \in Procs : author = p =>
       /\ Opened(p)
       /\ \A k \in Before(proc[p].kind) : Full(k, Compiled(p))
       /\ proc[p].offset # 0 => /\ cache[proc[p].kind] # None
                                /\ proc[p].offset <= Size[proc[p].kind]
                                /\ cache[proc[p].kind].blocks = Blocks(proc[p].offset - 1, Compiled(p))
Reads(q) == \A k \in Kinds : ~Got(q, k) => q.read[k] = None
Unread == \A p \in Procs : Reads(proc[p])
Beside(q, k) == IF q.raw_load = "load" THEN Shown(tree, k) ELSE tree["cwd"][k]
Stands(q) == Got(q, "js") /\ Valid(q.read["js"], q.source, q.opts) /\ q.calm
FirstBlock(q) == q.read["js"].blocks[1]
Agrees(q) ==
  /\ \A k \in Kinds : Got(q, k) => /\ q.read[k] # None
                                  /\ q.read[k].blocks = Uniform(k, FirstBlock(q))
  /\ Beside(q, "js") # None => q.read["js"] = Beside(q, "js")
  /\ Beside(q, "js") = None => FirstBlock(q) = [text |-> TextOf(q.source), opts |-> q.opts]
StillThere(q) == Beside(q, "js") = None /\ author = "whole" => \A k \in Kept : Full(k, FirstBlock(q))
Joins(q) == Stands(q) => Agrees(q) /\ StillThere(q)
Together == \A p \in Procs : Joins(proc[p])

WholeInv == ShippedWhole(tree) /\ Authored /\ Unread /\ Together
-----------------------------------------------------------------------------
(* Searching a class path *)
LEMMA Least ==
  ASSUME NEW S, S \subseteq Nat, S # {}
  PROVE  \E m \in S : \A n \in S : m <= n
<1>1. PICK m \in S : \A n \in S : ~ (<<n, m>> \in OpToRel(<, Nat))
  BY WFMin, NatLessThanWellFounded
<1>2. \A n \in S : ~ (n < m)
  BY <1>1 DEF OpToRel
<1> QED BY <1>2

LEMMA PlacesAre == /\ Len(Places) \in Nat /\ DOMAIN Places = 1 .. Len(Places)
                   /\ \A i \in DOMAIN Places : Places[i] \in Holders
                   /\ \A j \in Jars : \E i \in DOMAIN Places : Places[i] = j
                   /\ "cwd" \in Holders
<1> DEFINE S == {Path[i] : i \in DOMAIN Path} \cup {"out", "bundle"}
<1>0. "out" \in S /\ "bundle" \in S
  OBVIOUS
<1>1. Path \in Seq(S)
  <2>1. Path \in [1 .. Len(Path) -> S] /\ Len(Path) \in Nat
    BY LenProperties, CacheAssumption
  <2> HIDE DEF S
  <2> QED BY <2>1, SeqDef
<1>7. Len(Path) \in Nat /\ DOMAIN Path = 1 .. Len(Path)
  BY LenProperties, CacheAssumption
<1> HIDE DEF S
<1>2. PICK b \in Seq(S), o \in Seq(S), ob \in Seq(S) :
        b = <<"bundle">> /\ o = <<"out">> /\ ob = <<"out", "bundle">> /\ Len(b) = 1
  <2>1. <<"bundle">> \in Seq(S) /\ <<"out">> \in Seq(S) /\ <<"out", "bundle">> \in Seq(S)
    BY <1>0
  <2>2. Len(<<"bundle">>) = 1
    OBVIOUS
  <2> QED BY <2>1, <2>2, Zenon
<1>3. Path \o ob \in Seq(S) /\ b \o Path \in Seq(S)
  BY <1>1, <1>2, ConcatProperties
<1>4. b \o Path \o o \in Seq(S)
  BY <1>3, ConcatProperties
<1>5. Places \in Seq(S)
  BY <1>2, <1>3, <1>4 DEF Places
<1>6. Len(Places) \in Nat /\ DOMAIN Places = 1 .. Len(Places)
  BY <1>5, LenProperties
<1>8. ASSUME NEW j \in Jars PROVE \E i \in DOMAIN Places : Places[i] = j
  <2>1. PICK i \in 1 .. Len(Path) : Path[i] = j
    BY <1>7, CacheAssumption
  <2>2. CASE Developing
    <3>1. Len(Path \o ob) = Len(Path) + Len(ob) /\ Len(ob) \in Nat /\ (Path \o ob)[i] = Path[i]
      BY <1>1, <1>7, ConcatProperties, LenProperties
    <3>2. Places = Path \o ob
      BY <1>2, <2>2 DEF Places
    <3> QED BY <1>6, <1>7, <2>1, <3>1, <3>2
  <2>3. CASE ~Developing
    <3>1. /\ Len(b \o Path) = 1 + Len(Path) /\ Len(o) \in Nat
          /\ (b \o Path)[i + 1] = Path[i]
      BY <1>1, <1>2, <1>7, ConcatProperties, LenProperties
    <3>2. /\ Len(b \o Path \o o) = Len(b \o Path) + Len(o)
          /\ (b \o Path \o o)[i + 1] = (b \o Path)[i + 1]
      BY <1>3, <1>7, <3>1, ConcatProperties
    <3>3. Places = b \o Path \o o
      BY <1>2, <2>3 DEF Places
    <3>4. i + 1 \in 1 .. Len(Places) /\ Places[i + 1] = j
      BY <1>7, <2>1, <3>1, <3>2, <3>3
    <3> QED BY <1>6, <3>4
  <2> QED BY <2>2, <2>3
<1> QED BY <1>6, <1>8 DEF Holders

LEMMA ShownIs ==
  ASSUME NEW t, NEW name
  PROVE  \/ Shown(t, name) = None /\ \A i \in DOMAIN Places : ~Held(t, Places[i], name)
         \/ \E i \in DOMAIN Places : /\ Held(t, Places[i], name)
                                     /\ \A j \in 1 .. i - 1 : ~Held(t, Places[j], name)
                                     /\ Shown(t, name) = t[Places[i]][name]
<1> DEFINE S == {i \in DOMAIN Places : Held(t, Places[i], name)}
<1>1. CASE S = {}
  BY <1>1 DEF Shown
<1>2. CASE S # {}
  <2>0. S \subseteq Nat
    BY PlacesAre
  <2>1. PICK m \in S : \A n \in S : m <= n
    <3> HIDE DEF S
    <3> QED BY <1>2, <2>0, Least
  <2>2. \A j \in 1 .. m - 1 : j \in DOMAIN Places /\ j \notin S
    BY <2>1, PlacesAre
  <2>3. m \in First(t, name) /\ Held(t, Places[m], name)
    BY <2>1, <2>2 DEF First
  <2>4. PICK i \in First(t, name) : /\ Held(t, Places[i], name)
                                    /\ Shown(t, name) = t[Places[i]][name]
    BY <2>3 DEF Shown, First
  <2> QED BY <2>4 DEF First
<1> QED BY <1>1, <1>2

LEMMA LoadedIs ==
  ASSUME NEW p, NEW name
  PROVE  \/ Loaded(p, name) = None /\ \A i \in DOMAIN Places : ~Has(p, Places[i], name)
         \/ \E i \in DOMAIN Places : /\ Has(p, Places[i], name)
                                     /\ \A j \in 1 .. i - 1 : ~Has(p, Places[j], name)
                                     /\ Loaded(p, name) = View(p, Places[i])[name]
<1> DEFINE S == {i \in DOMAIN Places : Has(p, Places[i], name)}
<1>1. CASE S = {}
  BY <1>1 DEF Loaded
<1>2. CASE S # {}
  <2>0. S \subseteq Nat
    BY PlacesAre
  <2>1. PICK m \in S : \A n \in S : m <= n
    <3> HIDE DEF S
    <3> QED BY <1>2, <2>0, Least
  <2>2. \A j \in 1 .. m - 1 : j \in DOMAIN Places /\ j \notin S
    BY <2>1, PlacesAre
  <2>3. m \in Reached(p, name) /\ Has(p, Places[m], name)
    BY <2>1, <2>2 DEF Reached
  <2>4. PICK i \in Reached(p, name) : /\ Has(p, Places[i], name)
                                      /\ Loaded(p, name) = View(p, Places[i])[name]
    BY <2>3 DEF Loaded, Reached
  <2> QED BY <2>4 DEF Reached
<1> QED BY <1>1, <1>2
-----------------------------------------------------------------------------
(* What the steps compute *)
LEMMA ViewTyped ==
  ASSUME TypeOK, NEW p \in Procs, NEW h \in Holders
  PROVE  View(p, h) \in Tree \cup {None}
BY DEF TypeOK, ProcState, View

LEMMA LoadedTyped ==
  ASSUME TypeOK, NEW p \in Procs, NEW name \in Names
  PROVE  Loaded(p, name) \in Made \cup {None}
<1>1. ASSUME NEW i \in DOMAIN Places, Has(p, Places[i], name)
      PROVE  View(p, Places[i])[name] \in Made
  BY <1>1, ViewTyped, PlacesAre DEF Has, Tree, Made
<1> QED BY <1>1, LoadedIs

LEMMA CwdTyped ==
  ASSUME Types, NEW name \in Names
  PROVE  tree["cwd"][name] \in Made \cup {None}
<1>1. tree["cwd"] \in Tree \cup {None}
  BY PlacesAre DEF Types, TypeOK
<1>2. tree["cwd"] # None
  BY PlacesAre, CacheAssumption DEF Types
<1> QED BY <1>1, <1>2 DEF Tree, Made

LEMMA GetContentsIs ==
  ASSUME NEW f \in File \cup {None}
  PROVE  \/ GetContents(f) = None /\ (f = None \/ f.blocks = <<>>)
         \/ /\ f \in File /\ GetContents(f) \in File
            /\ GetContents(f).modified = f.modified
            /\ Len(GetContents(f).blocks) \in 0 .. Len(f.blocks)
            /\ \A i \in 1 .. Len(GetContents(f).blocks) :
                 GetContents(f).blocks[i] = f.blocks[i] /\ f.blocks[i] # Hole
            /\ (\A i \in 1 .. Len(f.blocks) : f.blocks[i] # Hole) => GetContents(f) = f
<1> USE CacheAssumption
<1>1. CASE f = None \/ (f # None /\ f.blocks = <<>>)
  BY <1>1 DEF GetContents
<1>2. CASE ~(f = None \/ (f # None /\ f.blocks = <<>>))
  <2>1. f \in File /\ f.blocks \in Seq(Block) /\ Len(f.blocks) \in Nat
        /\ DOMAIN f.blocks = 1 .. Len(f.blocks)
    BY <1>2, LenProperties DEF File
  <2> DEFINE holes == {i \in DOMAIN f.blocks : f.blocks[i] = Hole}
             n == IF holes = {} THEN Len(f.blocks)
                  ELSE CHOOSE n \in 0 .. Len(f.blocks) :
                         n + 1 \in holes /\ \A i \in holes : n < i
  <2>2. GetContents(f) = [f EXCEPT !.blocks = SubSeq(@, 1, n)]
    BY <1>2 DEF GetContents
  <2>3. n \in 0 .. Len(f.blocks) /\ (\A i \in 1 .. n : i \notin holes)
        /\ (holes = {} => n = Len(f.blocks))
    <3>1. CASE holes = {}
      BY <2>1, <3>1
    <3>2. CASE holes # {}
      <4>1. PICK m \in holes : \A i \in holes : m <= i
        <5>1. holes \subseteq Nat
          BY <2>1
        <5> HIDE DEF holes
        <5> QED BY <3>2, <5>1, Least
      <4>2. m - 1 \in 0 .. Len(f.blocks) /\ (m - 1) + 1 \in holes /\ \A i \in holes : m - 1 < i
        BY <2>1, <4>1
      <4>3. n \in 0 .. Len(f.blocks) /\ n + 1 \in holes /\ \A i \in holes : n < i
        <5> HIDE DEF holes
        <5> QED BY <3>2, <4>2
      <4>4. \A i \in 1 .. n : i \notin holes
        <5> HIDE DEF holes, n
        <5> QED BY <4>3
      <4> QED BY <3>2, <4>3, <4>4
    <3> QED BY <3>1, <3>2
  <2>4. ASSUME NEW i \in 1 .. n PROVE f.blocks[i] # Hole /\ i \in 1 .. Len(f.blocks)
    <3> HIDE DEF n
    <3>1. i \in 1 .. Len(f.blocks) /\ i \notin holes
      BY <2>1, <2>3
    <3> QED BY <2>1, <3>1
  <2>5. (\A i \in 1 .. Len(f.blocks) : f.blocks[i] # Hole) => n = Len(f.blocks)
    BY <2>1, <2>3
  <2> HIDE DEF n
  <2>6. /\ SubSeq(f.blocks, 1, n) \in Seq(Block) /\ Len(SubSeq(f.blocks, 1, n)) = n
        /\ \A i \in 1 .. n : SubSeq(f.blocks, 1, n)[i] = f.blocks[i]
    <3>1. n \in Nat /\ \A i \in 1 .. n : f.blocks[i] \in Block
      BY <2>1, <2>3, ElementOfSeq
    <3> QED BY <3>1, SubSeqProperties
  <2>7. n = Len(f.blocks) => SubSeq(f.blocks, 1, n) = f.blocks
    BY <2>1, SubSeqFull
  <2>8. PICK g : g = GetContents(f)
    OBVIOUS
  <2>9. g \in File /\ g.modified = f.modified /\ g.blocks = SubSeq(f.blocks, 1, n)
    BY <2>1, <2>2, <2>6, <2>8 DEF File
  <2>10. g.blocks = f.blocks => g = f
    BY <2>1, <2>9 DEF File
  <2> QED BY <2>1, <2>3, <2>4, <2>5, <2>6, <2>7, <2>8, <2>9, <2>10
<1> QED BY <1>1, <1>2

LEMMA WrittenIs ==
  ASSUME NEW blocks \in Seq(Block), NEW i \in Nat \ {0}, NEW b \in Block
  PROVE  LET n == IF i > Len(blocks) THEN i ELSE Len(blocks)
         IN /\ Written(blocks, i, b) \in Seq(Block)
            /\ DOMAIN Written(blocks, i, b) = 1 .. n
            /\ \A j \in 1 .. n : Written(blocks, i, b)[j] =
                 IF j = i THEN b ELSE IF j <= Len(blocks) THEN blocks[j] ELSE Hole
<1> DEFINE n == IF i > Len(blocks) THEN i ELSE Len(blocks)
           w == [j \in 1 .. n |-> IF j = i THEN b ELSE IF j <= Len(blocks) THEN blocks[j] ELSE Hole]
<1>1. Len(blocks) \in Nat /\ n \in Nat
  BY LenProperties
<1>2. \A j \in 1 .. Len(blocks) : blocks[j] \in Block
  BY ElementOfSeq
<1>3. Hole \in Block
  BY DEF Block
<1>4. w \in [1 .. n -> Block]
  BY <1>1, <1>2, <1>3
<1>5. w \in Seq(Block)
  <2> HIDE DEF w, n
  <2> QED BY <1>1, <1>4, SeqDef
<1>6. w = Written(blocks, i, b)
  BY DEF Written
<1> QED BY <1>5, <1>6
-----------------------------------------------------------------------------
(* What a process becomes *)
Same(p, q) == q.opts = proc[p].opts /\ q.maps = proc[p].maps
Unmoved(p, q) == /\ Same(p, q) /\ q.pc = proc[p].pc /\ q.ext = proc[p].ext
                 /\ q.kind = proc[p].kind /\ q.offset = proc[p].offset
                 /\ q.source = proc[p].source /\ q.raw_load = proc[p].raw_load
                 /\ q.read = proc[p].read /\ q.calm = proc[p].calm
IsDone(q) == /\ q.pc = "ready" /\ q.ext = 1 /\ q.kind = "js" /\ q.offset = 0
             /\ q.read = Off.read /\ q.calm

LEMMA OffIs == Off \in ProcState /\ Off.pc = "off" /\ IsDone([Off EXCEPT !.pc = "ready"])
BY DEF Off, ProcState, Kinds, Extensions, IsDone

LEMMA DoneIs ==
  ASSUME NEW q \in ProcState
  PROVE  /\ Done(q) \in ProcState /\ IsDone(Done(q))
         /\ Done(q).opts = q.opts /\ Done(q).maps = q.maps
         /\ Done(q).archive = q.archive /\ Done(q).blacklisted = q.blacklisted
<1>1. PICK o \in ProcState : o = Off /\ IsDone([o EXCEPT !.pc = "ready"])
  BY OffIs
<1>2. PICK d : d = [o EXCEPT !.pc = "ready", !.opts = q.opts, !.maps = q.maps,
                             !.archive = q.archive, !.blacklisted = q.blacklisted]
  OBVIOUS
<1>3. d = Done(q)
  BY <1>1, <1>2 DEF Done
<1>4. /\ d \in ProcState /\ d.pc = "ready"
      /\ d.opts = q.opts /\ d.maps = q.maps
      /\ d.archive = q.archive /\ d.blacklisted = q.blacklisted
  BY <1>2 DEF ProcState
<1>5. IsDone(d)
  BY <1>1, <1>2 DEF ProcState, IsDone
<1> QED BY <1>3, <1>4, <1>5

LEMMA SearchedIs ==
  ASSUME TypeOK, NEW p \in Procs, NEW name
  PROVE  /\ Searched(p, name) \in ProcState /\ Unmoved(p, Searched(p, name))
         /\ Sees(proc[p]) => Sees(Searched(p, name))
<1> DEFINE jars == {Places[i] : i \in Reached(p, name)} \cap Jars
           b == proc[p].blacklisted \cup {j \in jars : tree[j] = None}
           a == [j \in Jars |-> IF j \in jars THEN View(p, j) ELSE proc[p].archive[j]]
<1>1. proc[p] \in ProcState
  BY DEF TypeOK
<1>2. b \in SUBSET Jars
  BY <1>1 DEF ProcState
<1>3. \A j \in jars : j \in Holders
  BY PlacesAre DEF Reached
<1>4. a \in [Jars -> Tree \cup {None}]
  <2>1. \A j \in jars : View(p, j) \in Tree \cup {None}
    BY <1>3, ViewTyped
  <2>2. \A j \in Jars : proc[p].archive[j] \in Tree \cup {None}
    BY <1>1 DEF ProcState
  <2> HIDE DEF jars
  <2> QED BY <2>1, <2>2
<1>5. Searched(p, name) = [proc[p] EXCEPT !.blacklisted = b, !.archive = a]
  BY <1>1 DEF Searched, ProcState
<1>6. ASSUME Sees(proc[p]), NEW j \in Jars
      PROVE  (j \in b => tree[j] = None) /\ (a[j] # None => a[j] = tree[j])
  <2>1. View(p, j) \in {None, tree[j]}
    BY <1>6 DEF View, Sees
  <2> HIDE DEF jars
  <2> QED BY <1>6, <2>1 DEF Sees
<1> HIDE DEF a, b
<1>7. PICK r : r = Searched(p, name)
  OBVIOUS
<1>8. /\ r \in ProcState /\ Unmoved(p, r) /\ r.blacklisted = b /\ r.archive = a
  BY <1>1, <1>2, <1>4, <1>5, <1>7 DEF ProcState, Unmoved, Same
<1>9. Sees(proc[p]) => Sees(r)
  BY <1>6, <1>8 DEF Sees
<1> QED BY <1>7, <1>8, <1>9

FoundBy(p) == LET name == Extensions[proc[p].ext]
              IN IF Loaded(p, name) # None THEN Loaded(p, name) ELSE tree["cwd"][name]

LEMMA FindIs ==
  ASSUME Types, NEW p \in Procs, Find(p)
  PROVE  \E q \in ProcState :
           /\ proc[p].pc = "find" /\ proc' = [proc EXCEPT ![p] = q] /\ Same(p, q)
           /\ Sees(proc[p]) => Sees(q)
           /\ \/ /\ FoundBy(p) \in Made /\ FoundBy(p) # None /\ Extensions[proc[p].ext] # "js"
                 /\ q.pc = "read" /\ q.source = FoundBy(p)
                 /\ q.raw_load = "load" <=> Loaded(p, Extensions[proc[p].ext]) # None
                 /\ q.kind = proc[p].kind /\ q.offset = proc[p].offset
                 /\ q.read = proc[p].read /\ q.calm = proc[p].calm
              \/ /\ FoundBy(p) = None /\ proc[p].ext < Len(Extensions)
                 /\ q.pc = "find" /\ q.ext = proc[p].ext + 1
                 /\ q.kind = proc[p].kind /\ q.offset = proc[p].offset
                 /\ q.read = proc[p].read /\ q.calm = proc[p].calm
              \/ IsDone(q)
<1> DEFINE name == Extensions[proc[p].ext]
<1>1. proc[p] \in ProcState
  BY DEF Types, TypeOK
<1>2. /\ proc[p].ext \in 1 .. 3 /\ Len(Extensions) = 3 /\ DOMAIN Extensions = 1 .. 3
      /\ name \in Names
  BY <1>1 DEF ProcState, Extensions, Names, Kinds
<1>3. FoundBy(p) \in Made \cup {None}
  BY <1>2, LoadedTyped, CwdTyped DEF FoundBy, Types
<1>4. PICK s \in ProcState : s = Searched(p, name) /\ Unmoved(p, s) /\ (Sees(proc[p]) => Sees(s))
  BY SearchedIs DEF Types
<1>5. PICK raw \in {"load", "read_file"} :
        raw = IF Loaded(p, name) # None THEN "load" ELSE "read_file"
  OBVIOUS
<1>6. PICK r : r = [s EXCEPT !.source = FoundBy(p), !.raw_load = raw]
  OBVIOUS
<1>7. /\ r \in ProcState /\ r.pc = proc[p].pc /\ r.ext = proc[p].ext /\ Same(p, r)
      /\ r.kind = proc[p].kind /\ r.offset = proc[p].offset /\ r.read = proc[p].read
      /\ r.calm = proc[p].calm /\ r.source = FoundBy(p) /\ r.raw_load = raw
      /\ r.blacklisted = s.blacklisted /\ r.archive = s.archive
  BY <1>3, <1>4, <1>6 DEF ProcState, Same, Unmoved, Made
<1>8. /\ proc[p].pc = "find"
      /\ \/ FoundBy(p) # None /\ name # "js" /\ proc' = [proc EXCEPT ![p] = [r EXCEPT !.pc = "read"]]
         \/ proc' = [proc EXCEPT ![p] = Done(r)]
         \/ /\ FoundBy(p) = None /\ proc[p].ext < Len(Extensions)
            /\ proc' = [proc EXCEPT ![p] = [r EXCEPT !.ext = @ + 1]]
  BY <1>4, <1>5, <1>6 DEF Find, Set, FoundBy
<1>9. Sees(proc[p]) => Sees(r)
  BY <1>4, <1>7 DEF Sees
<1>10. CASE FoundBy(p) # None /\ name # "js" /\ proc' = [proc EXCEPT ![p] = [r EXCEPT !.pc = "read"]]
  <2>1. PICK q : q = [r EXCEPT !.pc = "read"]
    OBVIOUS
  <2>2. /\ q \in ProcState /\ q.pc = "read" /\ Same(p, q) /\ (Sees(r) => Sees(q))
        /\ q.source = FoundBy(p) /\ q.raw_load = raw
        /\ q.kind = proc[p].kind /\ q.offset = proc[p].offset
        /\ q.read = proc[p].read /\ q.calm = proc[p].calm
    BY <1>7, <2>1 DEF ProcState, Same, Sees
  <2> QED BY <1>3, <1>5, <1>8, <1>9, <1>10, <2>1, <2>2
<1>11. CASE proc' = [proc EXCEPT ![p] = Done(r)]
  <2>1. Done(r) \in ProcState /\ IsDone(Done(r)) /\ Same(p, Done(r)) /\ (Sees(r) => Sees(Done(r)))
    BY <1>7, DoneIs DEF Same, Sees
  <2> QED BY <1>8, <1>9, <1>11, <2>1
<1>12. CASE /\ FoundBy(p) = None /\ proc[p].ext < Len(Extensions)
            /\ proc' = [proc EXCEPT ![p] = [r EXCEPT !.ext = @ + 1]]
  <2>1. PICK q : q = [r EXCEPT !.ext = @ + 1]
    OBVIOUS
  <2>2. /\ q \in ProcState /\ q.pc = "find" /\ Same(p, q) /\ (Sees(r) => Sees(q))
        /\ q.ext = proc[p].ext + 1
        /\ q.kind = proc[p].kind /\ q.offset = proc[p].offset
        /\ q.read = proc[p].read /\ q.calm = proc[p].calm
    BY <1>2, <1>7, <1>8, <1>12, <2>1 DEF ProcState, Same, Sees
  <2> QED BY <1>8, <1>9, <1>12, <2>1, <2>2
<1> QED BY <1>8, <1>10, <1>11, <1>12

LEMMA NextIs ==
  ASSUME NEW kind \in Kinds, NEW maps \in BOOLEAN
  PROVE  LET next == NextKind(kind, maps)
         IN /\ kind = "js" => next = "cache.json"
            /\ kind = "cache.json" /\ maps => next = "js.map.json"
            /\ kind = "cache.json" /\ ~maps => next = None
            /\ kind = "js.map.json" => next = None
            /\ next # None => next \in {"cache.json", "js.map.json"}
BY CacheAssumption DEF NextKind, Kinds, Names

Near(p, k) == IF proc[p].raw_load = "load" THEN Loaded(p, k) ELSE tree["cwd"][k]

ReadTo(p, q, x, k, next) ==
  /\ k = proc[p].kind /\ next = NextKind(k, proc[p].maps)
  /\ x = IF Near(p, k) # None THEN Near(p, k) ELSE GetContents(cache[k])
  /\ proc[p].pc = "read" /\ proc' = [proc EXCEPT ![p] = q] /\ Same(p, q)
  /\ Sees(proc[p]) => Sees(q)
  /\ q.source = proc[p].source /\ q.raw_load = proc[p].raw_load
  /\ q.ext = proc[p].ext /\ q.offset = proc[p].offset
  /\ q.read = [proc[p].read EXCEPT ![k] = x]
  /\ q.calm <=> proc[p].calm /\ author = "whole"
  /\ next = None => q.pc = "check" /\ q.kind = "js"
  /\ next # None => q.pc = "read" /\ q.kind = next

LEMMA ReadIs ==
  ASSUME Types, NEW p \in Procs, Read(p)
  PROVE  \E q \in ProcState, x \in File \cup {None}, k \in Kinds, next \in Kinds \cup {None} :
           ReadTo(p, q, x, k, next)
<1>1. proc[p] \in ProcState
  BY DEF Types, TypeOK
<1>2. PICK k \in Kinds, next \in Kinds \cup {None} : k = proc[p].kind /\ next = NextKind(k, proc[p].maps)
  <2>1. proc[p].kind \in Kinds /\ proc[p].maps \in BOOLEAN
    BY <1>1 DEF ProcState
  <2> QED BY <2>1, NextIs DEF Kinds
<1>3. PICK x \in File \cup {None} : x = IF Near(p, k) # None THEN Near(p, k) ELSE GetContents(cache[k])
  <2>1. k \in Names
    BY DEF Names
  <2>2. Near(p, k) \in Made \cup {None}
    BY <2>1, LoadedTyped, CwdTyped DEF Near, Types
  <2>3. GetContents(cache[k]) \in File \cup {None}
    <3>1. PICK f \in File \cup {None} : f = cache[k]
      BY DEF Types, TypeOK
    <3> QED BY <3>1, GetContentsIs
  <2> QED BY <2>2, <2>3 DEF Made
<1>4. PICK s \in ProcState : /\ s = (IF proc[p].raw_load = "load" THEN Searched(p, k) ELSE proc[p])
                             /\ Unmoved(p, s) /\ (Sees(proc[p]) => Sees(s))
  BY <1>1, SearchedIs DEF Types, Unmoved, Same
<1>5. PICK calm \in BOOLEAN : calm <=> proc[p].calm /\ author = "whole"
  OBVIOUS
<1>11. PICK kind \in Kinds, t \in {"check", "read"} :
          /\ t = (IF next = None THEN "check" ELSE "read")
          /\ kind = (IF next = None THEN "js" ELSE next)
  BY DEF Kinds
<1>6. PICK q : q = [s EXCEPT !.read[k] = x, !.calm = calm, !.pc = t, !.kind = kind]
  OBVIOUS
<1>7. proc' = [proc EXCEPT ![p] = q] /\ proc[p].pc = "read"
  <2>1. s.calm = proc[p].calm
    BY <1>4 DEF Unmoved
  <2>2. calm = (s.calm /\ author = "whole")
    BY <1>1, <1>5, <2>1 DEF ProcState
  <2> QED BY <1>2, <1>3, <1>4, <1>6, <1>11, <2>2 DEF Read, Set, Near
<1>8. /\ q \in ProcState /\ Same(p, q)
      /\ q.archive = s.archive /\ q.blacklisted = s.blacklisted
      /\ q.source = proc[p].source /\ q.raw_load = proc[p].raw_load
      /\ q.ext = proc[p].ext /\ q.offset = proc[p].offset
      /\ q.read = [proc[p].read EXCEPT ![k] = x]
      /\ q.pc = t /\ q.kind = kind
  <2>1. s.read \in [Kinds -> File \cup {None}]
    BY DEF ProcState
  <2>2. q.read \in [Kinds -> File \cup {None}] /\ q.read = [proc[p].read EXCEPT ![k] = x]
    BY <1>4, <1>6, <2>1 DEF ProcState, Unmoved
  <2>3. q \in ProcState
    BY <1>4, <1>6, <2>2 DEF ProcState
  <2> QED BY <1>4, <1>6, <2>2, <2>3 DEF ProcState, Unmoved, Same
<1>9. q.calm <=> proc[p].calm /\ author = "whole"
  BY <1>4, <1>5, <1>6 DEF ProcState
<1>10. Sees(proc[p]) => Sees(q)
  BY <1>4, <1>8 DEF Sees
<1>12. ReadTo(p, q, x, k, next)
  BY <1>2, <1>3, <1>7, <1>8, <1>9, <1>10, <1>11 DEF ReadTo
<1> QED BY <1>8, <1>12

LEMMA TextIs ==
  ASSUME NEW f \in Made
  PROVE  /\ f \in File /\ f.blocks \in Seq(Block) /\ Len(f.blocks) \in Nat \ {0}
         /\ DOMAIN f.blocks = 1 .. Len(f.blocks)
         /\ \A i \in 1 .. Len(f.blocks) : f.blocks[i] # Hole
         /\ TextOf(f) \in Texts /\ f.modified \in Nat
<1>1. /\ f \in File /\ f.blocks \in Seq(Block) /\ f.modified \in Nat /\ f.blocks # <<>>
      /\ \A i \in DOMAIN f.blocks : f.blocks[i] # Hole
  BY DEF Made, File, Whole
<1>2. Len(f.blocks) \in Nat \ {0} /\ DOMAIN f.blocks = 1 .. Len(f.blocks)
  BY <1>1, EmptySeq, LenProperties
<1>3. f.blocks[1] \in Block /\ f.blocks[1] # Hole
  BY <1>1, <1>2, ElementOfSeq
<1>4. f.blocks[1].text \in Texts
  BY <1>3 DEF Block
<1> QED BY <1>1, <1>2, <1>4 DEF TextOf

LEMMA CompiledIs ==
  ASSUME Types, NEW p \in Procs, HasSource(p)
  PROVE  /\ Compiled(p) \in Block \ {Hole}
         /\ Compiled(p).text = TextOf(proc[p].source) /\ Compiled(p).opts = proc[p].opts
<1>1. TextOf(proc[p].source) \in Texts /\ proc[p].opts \in Opts \cup {None}
  BY TextIs DEF Types, TypeOK, ProcState
<1> QED BY <1>1, CacheAssumption DEF Compiled, Block, Hole
Keeps(p, q) == Same(p, q) /\ q.archive = proc[p].archive /\ q.blacklisted = proc[p].blacklisted
Writes(p, q) == /\ Keeps(p, q) /\ q.pc = "write" /\ q.source = proc[p].source
                /\ q.read \in {proc[p].read, Off.read}
Ends(p, q) == Keeps(p, q) /\ IsDone(q)

OpenTo(p, q, k) ==
  /\ proc[p].pc = "write" /\ k = proc[p].kind /\ proc[p].offset = 0
  /\ proc' = [proc EXCEPT ![p] = q] /\ Writes(p, q) /\ q.kind = k /\ q.offset = 1
  /\ cache' = [cache EXCEPT ![k] = [blocks |-> <<>>, modified |-> Time(k)]]

LEMMA OpenIs ==
  ASSUME Types, NEW p \in Procs, OpenFile(p)
  PROVE  \E q \in ProcState, k \in Kinds : OpenTo(p, q, k)
<1>1. PICK r \in ProcState : r = proc[p]
  BY DEF Types, TypeOK
<1>2. PICK k \in Kinds : k = r.kind
  BY <1>1 DEF ProcState
<1>3. PICK q : q = [r EXCEPT !.offset = 1]
  OBVIOUS
<1>4. /\ r.pc = "write" /\ r.offset = 0 /\ proc' = [proc EXCEPT ![p] = q]
      /\ cache' = [cache EXCEPT ![k] = [blocks |-> <<>>, modified |-> Time(k)]]
  BY <1>1, <1>2, <1>3 DEF OpenFile, Writing, Set
<1>5. /\ q \in ProcState /\ q.opts = r.opts /\ q.maps = r.maps /\ q.archive = r.archive
      /\ q.blacklisted = r.blacklisted /\ q.pc = r.pc /\ q.source = r.source
      /\ q.read = r.read /\ q.kind = k /\ q.offset = 1
  BY <1>2, <1>3 DEF ProcState
<1>6. OpenTo(p, q, k)
  BY <1>1, <1>2, <1>4, <1>5 DEF OpenTo, Writes, Keeps, Same
<1> QED BY <1>5, <1>6

WriteTo(p, q, k, i, next) ==
  /\ proc[p].pc = "write" /\ k = proc[p].kind /\ i = proc[p].offset
  /\ next = NextKind(k, proc[p].maps)
  /\ proc' = [proc EXCEPT ![p] = q]
  /\ cache' = [cache EXCEPT ![k] = [blocks |-> Written(cache[k].blocks, i, Compiled(p)),
                                    modified |-> Time(k)]]
  /\ \/ i < Size[k] /\ Writes(p, q) /\ q.kind = k /\ q.offset = i + 1
     \/ i = Size[k] /\ next # None /\ Writes(p, q) /\ q.kind = next /\ q.offset = 0
     \/ ~(i < Size[k]) /\ ~(i = Size[k] /\ next # None) /\ Ends(p, q)

LEMMA WriteIs ==
  ASSUME Types, NEW p \in Procs, WriteFile(p)
  PROVE  \E q \in ProcState, k \in Kinds, i \in Nat \ {0}, next \in Kinds \cup {None} :
           WriteTo(p, q, k, i, next)
<1>1. PICK r \in ProcState : r = proc[p] /\ r.pc = "write" /\ r.offset # 0
  BY DEF Types, TypeOK, WriteFile, Writing
<1>2. PICK k \in Kinds, i \in Nat \ {0} : k = r.kind /\ i = r.offset
  BY <1>1 DEF ProcState
<1>3. PICK next \in Kinds \cup {None} : next = NextKind(k, r.maps)
  <2>1. r.maps \in BOOLEAN
    BY DEF ProcState
  <2> QED BY <2>1, NextIs DEF Kinds
<1>4. cache' = [cache EXCEPT ![k] = [blocks |-> Written(cache[k].blocks, i, Compiled(p)),
                                     modified |-> Time(k)]]
  BY <1>1, <1>2 DEF WriteFile
<1>5. PICK v : /\ proc' = [proc EXCEPT ![p] = v]
               /\ v = CASE i < Size[k] -> [r EXCEPT !.offset = i + 1]
                        [] i = Size[k] /\ next # None -> [r EXCEPT !.offset = 0, !.kind = next]
                        [] OTHER -> Done(r)
  BY <1>1, <1>2, <1>3 DEF WriteFile, Set
<1>6. i \in Nat /\ Size[k] \in Nat
  BY CacheAssumption
<1>10. /\ i < Size[k] => v = [r EXCEPT !.offset = i + 1]
       /\ i = Size[k] /\ next # None => v = [r EXCEPT !.offset = 0, !.kind = next]
       /\ ~(i < Size[k]) /\ ~(i = Size[k] /\ next # None) => v = Done(r)
  <2>1. ~(i < Size[k] /\ i = Size[k])
    BY <1>6
  <2> QED BY <1>5, <2>1, Zenon
<1>7. CASE i < Size[k]
  <2>1. PICK q : q = [r EXCEPT !.offset = i + 1]
    OBVIOUS
  <2>2. /\ q \in ProcState /\ q.opts = r.opts /\ q.maps = r.maps /\ q.archive = r.archive
        /\ q.blacklisted = r.blacklisted /\ q.pc = r.pc /\ q.source = r.source
        /\ q.read = r.read /\ q.kind = k /\ q.offset = i + 1
    BY <1>2, <2>1 DEF ProcState
  <2>3. proc' = [proc EXCEPT ![p] = q]
    BY <1>5, <1>7, <1>10, <2>1
  <2>4. Writes(p, q)
    BY <1>1, <2>2 DEF Writes, Keeps, Same
  <2>5. WriteTo(p, q, k, i, next)
    BY <1>1, <1>2, <1>3, <1>4, <1>7, <2>2, <2>3, <2>4 DEF WriteTo
  <2> QED BY <2>2, <2>5
<1>8. CASE i = Size[k] /\ next # None
  <2>1. PICK q : q = [r EXCEPT !.offset = 0, !.kind = next]
    OBVIOUS
  <2>2. /\ q \in ProcState /\ q.opts = r.opts /\ q.maps = r.maps /\ q.archive = r.archive
        /\ q.blacklisted = r.blacklisted /\ q.pc = r.pc /\ q.source = r.source
        /\ q.read = r.read /\ q.kind = next /\ q.offset = 0
    BY <1>2, <1>8, <2>1 DEF ProcState
  <2>3. proc' = [proc EXCEPT ![p] = q]
    BY <1>5, <1>8, <1>10, <2>1
  <2>4. Writes(p, q)
    BY <1>1, <2>2 DEF Writes, Keeps, Same
  <2>5. WriteTo(p, q, k, i, next)
    BY <1>1, <1>2, <1>3, <1>4, <1>8, <2>2, <2>3, <2>4 DEF WriteTo
  <2> QED BY <2>2, <2>5
<1>9. CASE ~(i < Size[k]) /\ ~(i = Size[k] /\ next # None)
  <2>1. proc' = [proc EXCEPT ![p] = Done(r)]
    BY <1>5, <1>9, <1>10
  <2>2. Done(r) \in ProcState /\ Ends(p, Done(r))
    BY <1>1, DoneIs DEF Ends, Keeps, Same
  <2>3. WriteTo(p, Done(r), k, i, next)
    BY <1>1, <1>2, <1>3, <1>4, <1>9, <2>1, <2>2 DEF WriteTo
  <2> QED BY <2>2, <2>3
<1> QED BY <1>7, <1>8, <1>9
-----------------------------------------------------------------------------
(* Types *)
LEMMA InitTypes == Init => Types
<1> SUFFICES ASSUME Init PROVE Types
  OBVIOUS
<1>1. proc \in [Procs -> ProcState] /\ \A p \in Procs : proc[p].pc = "off" /\ proc[p].offset = 0
  BY OffIs DEF Init, IsDone, ProcState
<1>2. TypeOK
  BY <1>1, CacheAssumption DEF Init, TypeOK
<1>3. \A h \in Holders \ Jars : tree[h] # None
  BY CacheAssumption DEF Init
<1> QED BY <1>1, <1>2, <1>3 DEF Types, HasSource

LEMMA OneMoves ==
  ASSUME Types, NEW p \in Procs, NEW q \in ProcState, proc' = [proc EXCEPT ![p] = q],
         q.pc \in {"read", "check", "write"} => q.source \in Made,
         q.offset # 0 => q.pc = "write" /\ cache'[q.kind] # None,
         \A k \in Kinds : cache[k] # None => cache'[k] # None,
         UNCHANGED <<tree, now, users>>, cache' \in [Kinds -> File \cup {None}],
         author' \in Procs \cup {"whole", "torn"}
  PROVE  Types'
<1>1. TypeOK'
  BY DEF Types, TypeOK
<1>2. \A r \in Procs : HasSource(r)' => proc'[r].source \in Made
  BY DEF Types, TypeOK, HasSource
<1>3. \A r \in Procs : proc'[r].offset # 0 => Writing(r)' /\ cache'[proc'[r].kind] # None
  BY DEF Types, TypeOK, ProcState, Writing
<1> QED BY <1>1, <1>2, <1>3 DEF Types

LEMMA StartsTypes ==
  ASSUME Types, NEW p \in Procs, Launch(p) \/ Exit(p) \/ Kill(p) \/ Load(p)
  PROVE  Types'
<1>0. proc[p] \in ProcState /\ cache \in [Kinds -> File \cup {None}]
      /\ author \in Procs \cup {"whole", "torn"} /\ (proc[p].pc = "ready" => proc[p].offset = 0)
      /\ Off.offset = 0
  BY OffIs DEF Types, TypeOK, Writing, IsDone, ProcState
<1>1. CASE Launch(p)
  <2>1. PICK opts \in users.opts, maps \in SourceMaps :
          Set(p, [Off EXCEPT !.pc = "ready", !.opts = opts, !.maps = maps])
    BY <1>1 DEF Launch
  <2>2. opts \in Opts /\ maps \in BOOLEAN
    BY CacheAssumption DEF Types, TypeOK, IsCustom
  <2>3. PICK o \in ProcState : o = Off
    BY OffIs
  <2>4. PICK q : q = [o EXCEPT !.pc = "ready", !.opts = opts, !.maps = maps]
    OBVIOUS
  <2>5. q \in ProcState /\ q.pc = "ready" /\ q.offset = 0
    BY <1>0, <2>2, <2>3, <2>4 DEF ProcState
  <2> QED BY <1>0, <1>1, <2>1, <2>3, <2>4, <2>5, OneMoves DEF Launch, Set
<1>2. CASE Exit(p) \/ Kill(p)
  <2>1. author' \in Procs \cup {"whole", "torn"}
    BY <1>0, <1>2 DEF Exit, Kill
  <2> QED BY <1>0, <1>2, <2>1, OffIs, OneMoves DEF Exit, Kill, Set
<1>3. CASE Load(p)
  <2>1. PICK q : q = [proc[p] EXCEPT !.pc = "find"]
    OBVIOUS
  <2>2. q \in ProcState /\ q.pc = "find" /\ q.offset = 0
    BY <1>0, <1>3, <2>1 DEF ProcState, Load
  <2> QED BY <1>0, <1>3, <2>1, <2>2, OneMoves DEF Load, Set
<1> QED BY <1>1, <1>2, <1>3

LEMMA SearchTypes ==
  ASSUME Types, NEW p \in Procs, Find(p) \/ Read(p)
  PROVE  Types'
<1>0. proc[p] \in ProcState /\ cache \in [Kinds -> File \cup {None}]
      /\ author \in Procs \cup {"whole", "torn"}
      /\ (proc[p].pc \in {"find", "read"} => proc[p].offset = 0)
  BY DEF Types, TypeOK, Writing
<1>1. CASE Find(p)
  <2>1. PICK q \in ProcState :
          /\ proc' = [proc EXCEPT ![p] = q]
          /\ (q.pc = "read" /\ q.source \in Made) \/ q.pc = "find" \/ q.pc = "ready"
          /\ q.offset = 0
    BY <1>0, <1>1, FindIs DEF IsDone
  <2> QED BY <1>0, <1>1, <2>1, OneMoves DEF Find
<1>2. CASE Read(p)
  <2>1. PICK q \in ProcState : /\ proc[p].pc = "read" /\ proc' = [proc EXCEPT ![p] = q]
                               /\ q.source = proc[p].source /\ q.offset = 0
    <3>1. PICK q \in ProcState, x \in File \cup {None}, k \in Kinds, next \in Kinds \cup {None} :
            ReadTo(p, q, x, k, next)
      BY <1>2, ReadIs
    <3> QED BY <1>0, <3>1 DEF ReadTo
  <2>2. q.source \in Made
    BY <2>1 DEF Types, HasSource
  <2> QED BY <1>0, <1>2, <2>1, <2>2, OneMoves DEF Read
<1> QED BY <1>1, <1>2

LEMMA WorkTypes ==
  ASSUME Types, NEW p \in Procs, Use(p) \/ Compile(p) \/ OpenFile(p) \/ WriteFile(p)
  PROVE  Types'
<1>0. /\ proc[p] \in ProcState /\ cache \in [Kinds -> File \cup {None}]
      /\ author \in Procs \cup {"whole", "torn"} /\ now \in Nat
      /\ Done(proc[p]) \in ProcState /\ Done(proc[p]).pc = "ready" /\ Done(proc[p]).offset = 0
      /\ (proc[p].pc = "check" => proc[p].offset = 0)
  BY DoneIs, CacheAssumption DEF Types, TypeOK, IsDone, Writing
<1>1. CASE Use(p)
  BY <1>0, <1>1, OneMoves DEF Use, Set
<1>2. CASE Compile(p)
  <2>1. CASE Set(p, Done(proc[p]))
    BY <1>0, <1>2, <2>1, OneMoves DEF Compile, Set
  <2>2. CASE Set(p, [proc[p] EXCEPT !.pc = "write", !.kind = "js", !.read = Off.read])
    <3>1. PICK read \in [Kinds -> File \cup {None}] : read = Off.read
      BY OffIs DEF ProcState
    <3>2. PICK q : q = [proc[p] EXCEPT !.pc = "write", !.kind = "js", !.read = read]
      OBVIOUS
    <3>3. q \in ProcState /\ q.source = proc[p].source /\ q.offset = 0
      BY <1>0, <1>2, <3>2 DEF ProcState, Kinds, Compile
    <3>4. q.source \in Made
      BY <1>2, <3>3 DEF Compile, Types, HasSource
    <3> QED BY <1>0, <1>2, <2>2, <3>1, <3>2, <3>3, <3>4, OneMoves DEF Compile, Set
  <2> QED BY <1>2, <2>1, <2>2 DEF Compile
<1>3. CASE OpenFile(p)
  <2>1. PICK q \in ProcState, k \in Kinds : OpenTo(p, q, k)
    BY <1>3, OpenIs
  <2>2. [blocks |-> <<>>, modified |-> Time(k)] \in File
    BY <1>0, EmptySeq DEF File, Time
  <2>3. /\ cache' \in [Kinds -> File \cup {None}]
        /\ cache'[k] # None /\ \A l \in Kinds : cache[l] # None => cache'[l] # None
    BY <1>0, <2>1, <2>2, CacheAssumption DEF OpenTo
  <2>4. author' \in Procs \cup {"whole", "torn"} /\ UNCHANGED <<tree, now, users>>
    BY <1>0, <1>3 DEF OpenFile
  <2>5. q.source \in Made
    BY <2>1 DEF OpenTo, Writes, Types, HasSource
  <2>6. q.offset # 0 => q.pc = "write" /\ cache'[q.kind] # None
    BY <2>1, <2>3 DEF OpenTo, Writes
  <2> QED BY <2>1, <2>3, <2>4, <2>5, <2>6, OneMoves DEF OpenTo
<1>4. CASE WriteFile(p)
  <2>1. PICK q \in ProcState, k \in Kinds, i \in Nat \ {0}, next \in Kinds \cup {None} :
          WriteTo(p, q, k, i, next)
    BY <1>4, WriteIs
  <2>2. HasSource(p) /\ proc[p].source \in Made /\ cache[k] \in File
    BY <1>0, <2>1 DEF WriteTo, Types, HasSource
  <2>3. [blocks |-> Written(cache[k].blocks, i, Compiled(p)), modified |-> Time(k)] \in File
    <3>1. Written(cache[k].blocks, i, Compiled(p)) \in Seq(Block)
      BY <2>2, CompiledIs, WrittenIs DEF File
    <3> QED BY <1>0, <3>1 DEF File, Time
  <2>4. /\ cache' \in [Kinds -> File \cup {None}]
        /\ cache'[k] # None /\ \A l \in Kinds : cache[l] # None => cache'[l] # None
    BY <1>0, <2>1, <2>3, CacheAssumption DEF WriteTo
  <2>5. author' \in Procs \cup {"whole", "torn"} /\ UNCHANGED <<tree, now, users>>
    BY <1>0, <1>4 DEF WriteFile
  <2>6. /\ q.pc \in {"read", "check", "write"} => q.source \in Made
        /\ q.offset # 0 => q.pc = "write" /\ cache'[q.kind] # None
    BY <2>1, <2>2, <2>4 DEF WriteTo, Writes, Ends, IsDone
  <2> QED BY <2>1, <2>4, <2>5, <2>6, OneMoves DEF WriteTo
<1> QED BY <1>1, <1>2, <1>3, <1>4

(* What users do to the tree *)
EditTo(h, name, f) ==
  /\ h \notin Jars /\ tree[h] \in Tree /\ tree[h][name] \in Made
  /\ tree' = [tree EXCEPT ![h] = [tree[h] EXCEPT ![name] = f]]
  /\ Steady => f.modified = now /\ \A p \in Procs : ~Loading(p)
  /\ UNCHANGED <<now, cache, proc, author, users>>

ReplaceTo(j, f) ==
  /\ tree' = [tree EXCEPT ![j] = [name \in Names |-> IF name # "cljs" THEN None ELSE f]]
  /\ Steady => f.modified = now /\ \A p \in Procs : proc[p].pc = "off"
  /\ UNCHANGED <<now, cache, proc, author, users>>

LEMMA NewIs ==
  ASSUME Types, NEW text \in Texts, NEW time \in Dates
  PROVE  \E f \in Made : /\ f = [blocks |-> <<[text |-> text, opts |-> None]>>, modified |-> time]
                         /\ Steady => f.modified = now
<1>0. Dates \subseteq Nat /\ (Steady => Dates = {now})
  BY CacheAssumption DEF Types, TypeOK, Dates, Steady
<1>1. PICK b \in Block : b = [text |-> text, opts |-> None]
  BY DEF Block
<1>2. b # Hole
  BY <1>1, CacheAssumption DEF Hole
<1>3. PICK blocks \in Seq(Block) : blocks = <<b>> /\ Len(blocks) = 1 /\ blocks[1] = b
  <2>1. <<b>> \in Seq(Block) /\ Len(<<b>>) = 1 /\ <<b>>[1] = b
    OBVIOUS
  <2> QED BY <2>1, Zenon
<1>4. blocks # <<>> /\ DOMAIN blocks = 1 .. 1
  BY <1>3, LenProperties
<1>5. PICK f : f = [blocks |-> blocks, modified |-> time]
  OBVIOUS
<1>6. f \in File /\ f.blocks = blocks /\ f.modified = time
  BY <1>0, <1>5 DEF File
<1>7. Whole(f)
  BY <1>2, <1>3, <1>4, <1>6 DEF Whole
<1> QED BY <1>0, <1>1, <1>3, <1>5, <1>6, <1>7 DEF Made

LEMMA EditIs ==
  ASSUME Types, NEW e \in Edited, Edit(e[1], e[2])
  PROVE  \E h \in Holders, name \in {"cljs", "cljc"}, f \in Made : EditTo(h, name, f)
<1>1. PICK h \in Holders, name \in {"cljs", "cljc"} : h = e[1] /\ name = e[2] /\ h \notin Jars
  BY CacheAssumption
<1>2. PICK text \in Texts, time \in Dates :
        tree' = [tree EXCEPT ![h][name] = [blocks |-> <<[text |-> text, opts |-> None]>>,
                                           modified |-> time]]
  BY <1>1 DEF Edit
<1>3. PICK f \in Made : /\ f = [blocks |-> <<[text |-> text, opts |-> None]>>, modified |-> time]
                        /\ Steady => f.modified = now
  BY NewIs
<1>4. tree[h] \in Tree /\ tree \in [Holders -> Tree \cup {None}]
  BY <1>1 DEF Types, TypeOK
<1>5. tree[h][name] \in Made
  BY <1>1, <1>4 DEF Edit, Tree, Made, Names
<1>6. Steady => \A p \in Procs : ~Loading(p)
  BY DEF Types, TypeOK, Steady, Edit
<1>7. tree' = [tree EXCEPT ![h] = [tree[h] EXCEPT ![name] = f]]
  BY <1>2, <1>3, <1>4
<1> QED BY <1>1, <1>3, <1>4, <1>5, <1>6, <1>7 DEF Edit, EditTo

LEMMA ReplaceIs ==
  ASSUME Types, NEW j \in Jars, Replace(j)
  PROVE  \E f \in Made : ReplaceTo(j, f)
<1>1. PICK text \in Texts, time \in Dates :
        tree' = [tree EXCEPT ![j] =
                   [name \in Names |->
                      IF name # "cljs" THEN None
                      ELSE [blocks |-> <<[text |-> text, opts |-> None]>>, modified |-> time]]]
  BY DEF Replace
<1>2. PICK f \in Made : /\ f = [blocks |-> <<[text |-> text, opts |-> None]>>, modified |-> time]
                        /\ Steady => f.modified = now
  BY NewIs
<1>3. Steady => \A p \in Procs : proc[p].pc = "off"
  BY DEF Types, TypeOK, Steady, Replace
<1> QED BY <1>1, <1>2, <1>3 DEF Replace, ReplaceTo

LEMMA UsersTypes ==
  ASSUME Types,
         (\E e \in Edited : Edit(e[1], e[2])) \/ (\E j \in Jars : Replace(j)) \/ Tick
  PROVE  Types'
<1>0. /\ now \in FirstSecond .. LastSecond /\ FirstSecond \in Nat /\ LastSecond \in Nat
      /\ tree \in [Holders -> Tree \cup {None}]
  BY CacheAssumption DEF Types, TypeOK
<1>1. ASSUME NEW e \in Edited, Edit(e[1], e[2]) PROVE Types'
  <2>1. PICK h \in Holders, name \in {"cljs", "cljc"}, f \in Made : EditTo(h, name, f)
    BY <1>1, EditIs
  <2>2. tree[h] \in [Names -> Made \cup {None}]
    BY <2>1 DEF EditTo, Tree, Made
  <2>3. [tree[h] EXCEPT ![name] = f] \in Tree
    BY <2>2 DEF Tree, Made
  <2>4. tree' \in [Holders -> Tree \cup {None}] /\ \A g \in Holders \ Jars : tree'[g] # None
    BY <1>0, <2>1, <2>3, CacheAssumption DEF Types, EditTo
  <2> QED BY <2>1, <2>4 DEF EditTo, Types, TypeOK, HasSource, Writing
<1>2. ASSUME NEW j \in Jars, Replace(j) PROVE Types'
  <2>1. PICK f \in Made : ReplaceTo(j, f)
    BY <1>2, ReplaceIs
  <2>2. PICK t \in Tree : t = [name \in Names |-> IF name # "cljs" THEN None ELSE f]
    BY DEF Tree, Made
  <2>3. tree' \in [Holders -> Tree \cup {None}] /\ \A g \in Holders \ Jars : tree'[g] # None
    BY <1>0, <2>1, <2>2 DEF Types, ReplaceTo
  <2> QED BY <2>1, <2>3 DEF ReplaceTo, Types, TypeOK, HasSource, Writing
<1>3. CASE Tick
  <2>1. now' \in FirstSecond .. LastSecond
    BY <1>0, <1>3 DEF Tick
  <2> QED BY <1>3, <2>1 DEF Tick, Types, TypeOK, HasSource, Writing
<1> QED BY <1>1, <1>2, <1>3

LEMMA KeepsTypes == Types /\ [Next]_vars => Types'
<1> SUFFICES ASSUME Types, [Next]_vars PROVE Types'
  OBVIOUS
<1>1. ASSUME NEW p \in Procs, Launch(p) \/ Exit(p) \/ Kill(p) \/ Load(p) \/ Step(p) PROVE Types'
  BY <1>1, StartsTypes, SearchTypes, WorkTypes DEF Step
<1>2. CASE UNCHANGED vars
  BY <1>2 DEF vars, Types, TypeOK, HasSource, Writing
<1> QED BY <1>1, <1>2, UsersTypes DEF Next

(* The types, of the search and of what is read and written: there is a    *)
(* source whenever one is compiled, and a file is open while it is written.*)
THEOREM CacheTypes == Spec => []TypeOK
<1>1. Types => TypeOK
  BY DEF Types
<1> QED BY <1>1, InitTypes, KeepsTypes, PTL DEF Spec
-----------------------------------------------------------------------------
(* The shape of the processes: nothing is edited or replaced under them.   *)
LEMMA InitShape == Init => Shape
<1> SUFFICES ASSUME Init PROVE Shape
  OBVIOUS
<1>1. \A p \in Procs : proc[p] = Off /\ Off.pc = "off"
  BY OffIs DEF Init
<1>2. \A j \in Jars : j \notin Off.blacklisted /\ Off.archive[j] = None
  BY DEF Off
<1> QED BY <1>1, <1>2, InitTypes DEF Shape, Sees, Begins, Like, Allowed

LEMMA OneShape ==
  ASSUME Shape, Types', NEW p \in Procs, NEW q \in ProcState, proc' = [proc EXCEPT ![p] = q],
         UNCHANGED tree, Sees(q), Begins(q), Allowed(q),
         \A r \in Procs \ {p} : Like(q, proc[r])
  PROVE  Shape'
<1>0. \A r \in Procs : proc'[r] = IF r = p THEN q ELSE proc[r]
  BY DEF Shape, Types, TypeOK
<1>1. ASSUME NEW r \in Procs PROVE (Sees(proc[r]) /\ Begins(proc[r]) /\ Allowed(proc[r]))'
  BY <1>0 DEF Shape, Sees, Begins, Allowed
<1>2. ASSUME NEW r \in Procs, NEW s \in Procs PROVE Like(proc[r], proc[s])'
  BY <1>0 DEF Shape, Like
<1> QED BY <1>1, <1>2 DEF Shape

(* A process that keeps its options *)
LEMMA SameShape ==
  ASSUME Shape, Types', NEW p \in Procs, NEW q \in ProcState, proc' = [proc EXCEPT ![p] = q],
         UNCHANGED tree, proc[p].pc # "off", Same(p, q), Sees(q), Begins(q)
  PROVE  Shape'
<1>1. Allowed(q) /\ \A r \in Procs \ {p} : Like(q, proc[r])
  BY DEF Shape, Allowed, Like, Same
<1> QED BY <1>1, OneShape

LEMMA StartsShape ==
  ASSUME Steady, Shape, Types', NEW p \in Procs, Launch(p) \/ Exit(p) \/ Kill(p) \/ Load(p)
  PROVE  Shape'
<1>0. proc[p] \in ProcState /\ "mix_options" \notin users.habits
  BY DEF Shape, Types, TypeOK, Steady
<1>1. CASE Launch(p)
  <2>1. PICK opts \in users.opts, maps \in SourceMaps :
          /\ \A q \in Procs \ {p} : proc[q].pc = "off" \/ (proc[q].opts = opts /\ proc[q].maps = maps)
          /\ Set(p, [Off EXCEPT !.pc = "ready", !.opts = opts, !.maps = maps])
    BY <1>0, <1>1 DEF Launch
  <2>2. opts \in Opts /\ maps \in BOOLEAN
    BY CacheAssumption DEF Shape, Types, TypeOK, IsCustom
  <2>3. PICK o \in ProcState : o = Off /\ o.archive = [j \in Jars |-> None] /\ o.blacklisted = {}
                              /\ o.ext = 1 /\ o.kind = "js"
    BY OffIs DEF Off
  <2>4. PICK q : q = [o EXCEPT !.pc = "ready", !.opts = opts, !.maps = maps]
    OBVIOUS
  <2>5. /\ q \in ProcState /\ q.pc = "ready" /\ q.opts = opts /\ q.maps = maps
        /\ q.archive = o.archive /\ q.blacklisted = {} /\ q.ext = 1 /\ q.kind = "js"
    BY <2>2, <2>3, <2>4 DEF ProcState
  <2>6. Sees(q) /\ Begins(q) /\ Allowed(q) /\ \A r \in Procs \ {p} : Like(q, proc[r])
    BY <2>1, <2>2, <2>3, <2>5 DEF Sees, Begins, Allowed, Like
  <2>7. proc' = [proc EXCEPT ![p] = q] /\ UNCHANGED tree
    BY <1>1, <2>1, <2>3, <2>4 DEF Launch, Set
  <2> QED BY <2>5, <2>6, <2>7, OneShape
<1>2. CASE Exit(p) \/ Kill(p)
  <2>1. Sees(Off) /\ Begins(Off) /\ Allowed(Off) /\ \A r \in Procs \ {p} : Like(Off, proc[r])
    BY DEF Off, Sees, Begins, Allowed, Like
  <2> QED BY <1>2, <2>1, OffIs, OneShape DEF Exit, Kill, Set
<1>3. CASE Load(p)
  <2>1. PICK q : q = [proc[p] EXCEPT !.pc = "find"]
    OBVIOUS
  <2>2. /\ q \in ProcState /\ q.pc = "find" /\ Same(p, q) /\ q.kind = proc[p].kind
        /\ q.archive = proc[p].archive /\ q.blacklisted = proc[p].blacklisted
    BY <1>0, <2>1 DEF ProcState, Same
  <2>3. Sees(q) /\ Begins(q) /\ proc[p].pc # "off"
    BY <1>3, <2>2 DEF Shape, Sees, Begins, Load
  <2> QED BY <1>3, <2>1, <2>2, <2>3, SameShape DEF Load, Set
<1> QED BY <1>1, <1>2, <1>3

LEMMA StepShape ==
  ASSUME Shape, Types', NEW p \in Procs, Step(p)
  PROVE  Shape'
<1>0. /\ proc[p] \in ProcState /\ Types /\ Sees(proc[p]) /\ Begins(proc[p])
      /\ Done(proc[p]) \in ProcState /\ Same(p, Done(proc[p]))
      /\ Sees(Done(proc[p])) /\ Begins(Done(proc[p]))
  BY DoneIs DEF Shape, Types, TypeOK, Same, IsDone, Begins, Sees
<1>1. CASE Find(p)
  <2>1. PICK q \in ProcState : /\ proc[p].pc = "find" /\ proc' = [proc EXCEPT ![p] = q]
                               /\ Same(p, q) /\ (Sees(proc[p]) => Sees(q))
                               /\ \/ q.pc \in {"read", "find"} /\ q.kind = proc[p].kind
                                  \/ IsDone(q)
    BY <1>0, <1>1, FindIs
  <2>2. Begins(q)
    BY <1>0, <2>1 DEF Begins, IsDone
  <2> QED BY <1>0, <1>1, <2>1, <2>2, SameShape DEF Find
<1>2. CASE Read(p)
  <2>1. PICK q \in ProcState, x \in File \cup {None}, k \in Kinds, next \in Kinds \cup {None} :
          ReadTo(p, q, x, k, next)
    BY <1>0, <1>2, ReadIs
  <2>2. proc[p].maps \in BOOLEAN
    BY <1>0 DEF ProcState
  <2>3. next = "js.map.json" => proc[p].maps
    <3>1. next = NextKind(k, proc[p].maps)
      BY <2>1 DEF ReadTo
    <3>2. next # "js.map.json" \/ proc[p].maps
      BY <2>2, <3>1, CacheAssumption DEF NextKind, Names, Kinds
    <3> QED BY <3>2
  <2>4. Begins(q)
    BY <2>1, <2>3 DEF ReadTo, Begins, Same
  <2>5. UNCHANGED tree /\ proc[p].pc # "off"
    BY <1>2 DEF Read
  <2> QED BY <1>0, <2>1, <2>4, <2>5, SameShape DEF ReadTo
<1>3. CASE Set(p, Done(proc[p])) /\ UNCHANGED tree /\ proc[p].pc # "off"
  BY <1>0, <1>3, SameShape DEF Set
<1>4. CASE Compile(p) /\ ~Set(p, Done(proc[p]))
  <2>1. PICK q : q = [proc[p] EXCEPT !.pc = "write", !.kind = "js", !.read = Off.read]
    OBVIOUS
  <2>2. proc' = [proc EXCEPT ![p] = q] /\ UNCHANGED tree /\ proc[p].pc # "off"
    BY <1>4, <2>1 DEF Compile, Set
  <2>3. /\ q.pc = "write" /\ Same(p, q)
        /\ q.archive = proc[p].archive /\ q.blacklisted = proc[p].blacklisted
    BY <1>0, <2>1 DEF ProcState, Same
  <2>4. q \in ProcState
    BY <2>2 DEF Types, TypeOK
  <2>5. Sees(q) /\ Begins(q)
    BY <1>0, <2>3 DEF Sees, Begins
  <2> QED BY <2>2, <2>3, <2>4, <2>5, SameShape
<1>5. CASE OpenFile(p) \/ WriteFile(p)
  <2>1. PICK q \in ProcState : /\ proc' = [proc EXCEPT ![p] = q]
                               /\ Writes(p, q) \/ Ends(p, q)
    BY <1>0, <1>5, OpenIs, WriteIs DEF OpenTo, WriteTo
  <2>2. UNCHANGED tree /\ proc[p].pc # "off"
    BY <1>5 DEF OpenFile, WriteFile, Writing
  <2>3. Same(p, q) /\ Sees(q) /\ Begins(q)
    BY <1>0, <2>1 DEF Writes, Ends, Keeps, IsDone, Sees, Begins
  <2> QED BY <2>1, <2>2, <2>3, SameShape
<1>6. Use(p) => Set(p, Done(proc[p]))
  BY DEF Use
<1>7. Step(p) => Find(p) \/ Read(p) \/ (UNCHANGED tree /\ proc[p].pc # "off")
  BY DEF Step, Use, Using, Compile, OpenFile, WriteFile, Writing
<1> QED BY <1>1, <1>2, <1>3, <1>4, <1>5, <1>6, <1>7 DEF Step

LEMMA UsersShape ==
  ASSUME Steady, Shape, Types',
         (\E e \in Edited : Edit(e[1], e[2])) \/ (\E j \in Jars : Replace(j)) \/ Tick
  PROVE  Shape'
<1>0. Types
  BY DEF Shape
<1>1. ASSUME NEW e \in Edited, Edit(e[1], e[2]) PROVE Shape'
  <2>1. PICK h \in Holders, name \in {"cljs", "cljc"}, f \in Made : EditTo(h, name, f)
    BY <1>0, <1>1, EditIs
  <2>2. UNCHANGED proc /\ \A j \in Jars : tree'[j] = tree[j]
    BY <2>1 DEF EditTo, Types, TypeOK
  <2> QED BY <2>2 DEF Shape, Sees, Begins, Allowed, Like
<1>2. ASSUME NEW j \in Jars, Replace(j) PROVE Shape'
  <2>1. UNCHANGED proc /\ \A p \in Procs : proc[p] = Off
    BY <1>0, <1>2, ReplaceIs DEF ReplaceTo, Shape, Begins
  <2>2. \A i \in Jars : i \notin Off.blacklisted /\ Off.archive[i] = None
    BY DEF Off
  <2>3. \A p \in Procs : Sees(proc[p])'
    BY <2>1, <2>2 DEF Sees
  <2> QED BY <2>1, <2>3 DEF Shape, Begins, Allowed, Like
<1>3. CASE Tick
  BY <1>3 DEF Tick, Shape, Sees, Begins, Allowed, Like
<1> QED BY <1>1, <1>2, <1>3
-----------------------------------------------------------------------------
(* What is found *)
LEMMA LoadedShown ==
  ASSUME Shape, NEW p \in Procs, NEW name \in Names
  PROVE  Loaded(p, name) = Shown(tree, name)
<1>1. \A h : View(p, h) = tree[h]
  BY DEF Shape, Sees, Types, TypeOK, ProcState, View
<1>2. \A i \in DOMAIN Places : Has(p, Places[i], name) <=> Held(tree, Places[i], name)
  BY <1>1 DEF Has, Held
<1>3. CASE \A i \in DOMAIN Places : ~Held(tree, Places[i], name)
  BY <1>2, <1>3, LoadedIs, ShownIs
<1>4. CASE \E i \in DOMAIN Places : Held(tree, Places[i], name)
  <2>1. PICK i \in DOMAIN Places : /\ Held(tree, Places[i], name)
                                   /\ \A j \in 1 .. i - 1 : ~Held(tree, Places[j], name)
                                   /\ Shown(tree, name) = tree[Places[i]][name]
    BY <1>4, ShownIs
  <2>2. PICK k \in DOMAIN Places : /\ Has(p, Places[k], name)
                                   /\ \A j \in 1 .. k - 1 : ~Has(p, Places[j], name)
                                   /\ Loaded(p, name) = View(p, Places[k])[name]
    BY <1>2, <1>4, LoadedIs
  <2>3. i = k
    <3>1. ~(i \in 1 .. k - 1) /\ ~(k \in 1 .. i - 1)
      BY <1>2, <2>1, <2>2
    <3>2. i \in Nat \ {0} /\ k \in Nat \ {0}
      BY PlacesAre
    <3> QED BY <3>1, <3>2
  <2> QED BY <1>1, <2>1, <2>2, <2>3
<1> QED BY <1>3, <1>4

LEMMA FoundIs ==
  ASSUME Shape, NEW p \in Procs
  PROVE  /\ FoundBy(p) = From(tree, Extensions[proc[p].ext])
         /\ Loaded(p, Extensions[proc[p].ext]) = Shown(tree, Extensions[proc[p].ext])
<1>1. proc[p].ext \in 1 .. 3
  BY DEF Shape, Types, TypeOK, ProcState, Extensions
<1>2. PICK name \in Names : name = Extensions[proc[p].ext]
  BY <1>1 DEF Extensions, Names, Kinds
<1>3. Loaded(p, name) = Shown(tree, name)
  BY LoadedShown
<1> QED BY <1>2, <1>3 DEF FoundBy, From

(* Who edits or replaces brings in a source of now. *)
LEMMA ShippedStays ==
  ASSUME Steady, Types, Shipped(tree),
         \/ \E h \in Holders, name \in {"cljs", "cljc"}, f \in Made : EditTo(h, name, f)
         \/ \E j \in Jars, f \in Made : ReplaceTo(j, f)
  PROVE  Shipped(tree)'
<1>0. /\ now \in Nat /\ FirstSecond \in Nat \ {0} /\ FirstSecond <= now
      /\ tree \in [Holders -> Tree \cup {None}]
  BY CacheAssumption DEF Types, TypeOK
<1> DEFINE Brings(f) ==
        /\ f.modified = now
        /\ \A h \in Holders : tree'[h] # None /\ tree'[h]["js"] # None =>
             tree[h] # None /\ tree'[h]["js"] = tree[h]["js"]
        /\ \A g \in Holders, name \in {"cljs", "cljc"} : tree'[g] # None /\ tree'[g][name] # None =>
             \/ tree'[g][name] = f
             \/ tree[g] # None /\ tree'[g][name] = tree[g][name]
<1>1. PICK f \in Made : Brings(f)
  <2>1. ASSUME NEW h \in Holders, NEW name \in {"cljs", "cljc"}, NEW f \in Made, EditTo(h, name, f)
        PROVE  Brings(f)
    <3>1. \A g \in Holders \ {h} : tree'[g] = tree[g]
      BY <1>0, <2>1 DEF EditTo
    <3>2. tree'[h] = [tree[h] EXCEPT ![name] = f] /\ tree[h] # None /\ tree[h] \in Tree
      BY <1>0, <2>1, CacheAssumption DEF EditTo
    <3>3. \A n \in Names : tree'[h][n] = IF n = name THEN f ELSE tree[h][n]
      BY <3>2 DEF Tree, Names
    <3>4. f.modified = now /\ {"cljs", "cljc", "js"} \subseteq Names
      BY <2>1 DEF EditTo, Names, Kinds
    <3> QED BY <3>1, <3>2, <3>3, <3>4
  <2>2. ASSUME NEW j \in Jars, NEW f \in Made, ReplaceTo(j, f)
        PROVE  Brings(f)
    <3>1. \A g \in Holders \ {j} : tree'[g] = tree[g]
      BY <1>0, <2>2 DEF ReplaceTo
    <3>2. \A n \in Names : j \in Holders => tree'[j][n] = IF n = "cljs" THEN f ELSE None
      BY <1>0, <2>2 DEF ReplaceTo
    <3>3. f.modified = now /\ {"cljs", "cljc", "js"} \subseteq Names
      BY <2>2 DEF ReplaceTo, Names, Kinds
    <3> QED BY <3>1, <3>2, <3>3
  <2> HIDE DEF Brings
  <2> QED BY <2>1, <2>2
<1>2. ASSUME NEW h \in Holders, tree'[h] # None, tree'[h]["js"] # None,
             NEW g \in Holders, NEW name \in {"cljs", "cljc"}, tree'[g] # None, tree'[g][name] # None
      PROVE  /\ tree'[h]["js"].modified <= FirstSecond
             /\ tree'[h]["js"].modified <= tree'[g][name].modified
             /\ tree'[g][name].modified = 0 =>
                  \A i \in DOMAIN tree'[h]["js"].blocks :
                    tree'[h]["js"].blocks[i].text = TextOf(tree'[g][name])
  <2>1. tree[h] # None /\ tree'[h]["js"] = tree[h]["js"]
    BY <1>1, <1>2
  <2>2. tree[h]["js"].modified <= FirstSecond /\ tree[h]["js"].modified \in Nat
    <3>1. tree[h]["js"] \in Made
      BY <1>0, <1>2, <2>1 DEF Tree, Made, Names, Kinds
    <3> QED BY <1>2, <2>1, <3>1, TextIs DEF Shipped
  <2>3. CASE tree'[g][name] = f
    BY <1>0, <1>1, <2>1, <2>2, <2>3
  <2>4. CASE tree[g] # None /\ tree'[g][name] = tree[g][name]
    BY <1>2, <2>1, <2>2, <2>4 DEF Shipped
  <2> QED BY <1>1, <1>2, <2>3, <2>4
<1>3. ASSUME NEW h \in Holders, tree'[h] # None, tree'[h]["js"] # None
      PROVE  tree'[h]["js"].modified <= FirstSecond
  BY <1>1, <1>3 DEF Shipped
<1> QED BY <1>2, <1>3 DEF Shipped

LEMMA SourceStays ==
  ASSUME Steady, Types,
         \/ \E h \in Holders, name \in {"cljs", "cljc"}, f \in Made : EditTo(h, name, f)
         \/ \E j \in Jars, f \in Made : ReplaceTo(j, f)
  PROVE  Source(tree') \in {Source(tree)} \cup {f \in Made : f.modified = now}
<1>0. /\ tree \in [Holders -> Tree \cup {None}] /\ {"cljs", "cljc"} \subseteq Names
      /\ tree["cwd"] # None /\ "cwd" \in Holders \ Jars /\ None \notin Made
  BY PlacesAre, CacheAssumption DEF Types, TypeOK, Names, Made
<1>1. ASSUME NEW h \in Holders, NEW name \in {"cljs", "cljc"}, NEW f \in Made, EditTo(h, name, f)
      PROVE  Source(tree') \in {Source(tree), f}
  <2>1. \A g \in Holders \ {h} : tree'[g] = tree[g]
    BY <1>0, <1>1 DEF EditTo
  <2>2. tree[h] # None /\ tree'[h] # None /\ \A n \in Names : tree'[h][n] = IF n = name THEN f ELSE tree[h][n]
    <3>1. tree[h] \in [Names -> Made \cup {None}]
      BY <1>1 DEF EditTo, Tree, Made
    <3>2. tree'[h] = [tree[h] EXCEPT ![name] = f]
      BY <1>0, <1>1 DEF EditTo
    <3>3. tree'[h] \in Tree
      BY <3>1, <3>2 DEF Tree, Made
    <3> QED BY <1>1, <3>1, <3>2, <3>3, CacheAssumption DEF EditTo
  <2>3. tree[h][name] # None /\ f # None
    BY <1>0, <1>1 DEF EditTo
  <2>4. ASSUME NEW n \in {"cljs", "cljc"}
        PROVE  /\ From(tree', n) \in {From(tree, n), f}
               /\ From(tree', n) # None <=> From(tree, n) # None
    <3>1. \A g \in Holders : /\ Held(tree', g, n) <=> Held(tree, g, n)
                             /\ tree'[g][n] \in {tree[g][n], f}
                             /\ tree'[g][n] # None <=> tree[g][n] # None
      BY <1>0, <2>1, <2>2, <2>3 DEF Held
    <3>2. /\ Shown(tree', n) \in {Shown(tree, n), f}
          /\ Shown(tree', n) # None <=> Shown(tree, n) # None
      <4>1. CASE \A i \in DOMAIN Places : ~Held(tree, Places[i], n)
        BY <3>1, <4>1, PlacesAre, ShownIs
      <4>2. CASE \E i \in DOMAIN Places : Held(tree, Places[i], n)
        <5>1. PICK i \in DOMAIN Places : /\ Held(tree, Places[i], n)
                                         /\ \A j \in 1 .. i - 1 : ~Held(tree, Places[j], n)
                                         /\ Shown(tree, n) = tree[Places[i]][n]
          BY <4>2, ShownIs
        <5>2. PICK k \in DOMAIN Places : /\ Held(tree', Places[k], n)
                                         /\ \A j \in 1 .. k - 1 : ~Held(tree', Places[j], n)
                                         /\ Shown(tree', n) = tree'[Places[k]][n]
          BY <3>1, <4>2, PlacesAre, ShownIs
        <5>3. i = k
          <6>1. i \in Nat \ {0} /\ k \in Nat \ {0} /\ \A j \in 1 .. k : Places[j] \in Holders
            BY PlacesAre
          <6>2. ~(i \in 1 .. k - 1) /\ ~(k \in 1 .. i - 1)
            BY <3>1, <5>1, <5>2, <6>1, PlacesAre
          <6> QED BY <6>1, <6>2
        <5> QED BY <3>1, <5>1, <5>2, <5>3, PlacesAre
      <4> QED BY <4>1, <4>2
    <3> QED BY <1>0, <3>1, <3>2 DEF From
  <2> QED BY <2>4 DEF Source
<1>2. ASSUME NEW j \in Jars, NEW f \in Made, ReplaceTo(j, f)
      PROVE  Source(tree') \in {Source(tree), f}
  <2>1. PICK k \in DOMAIN Places : Places[k] = j
    BY PlacesAre
  <2>2. \A g \in Holders \ {j} : tree'[g] = tree[g]
    BY <1>0, <1>2 DEF ReplaceTo
  <2>3. tree'[j] # None /\ tree'[j]["cljs"] = f
    <3>1. PICK t \in Tree : t = [name \in Names |-> IF name # "cljs" THEN None ELSE f]
      BY DEF Tree, Made
    <3> QED BY <1>0, <1>2, <2>1, <3>1, PlacesAre, CacheAssumption DEF ReplaceTo
  <2>4. Held(tree', Places[k], "cljs")
    BY <1>0, <2>1, <2>3 DEF Held
  <2>5. PICK i \in DOMAIN Places : /\ Held(tree', Places[i], "cljs")
                                   /\ \A l \in 1 .. i - 1 : ~Held(tree', Places[l], "cljs")
                                   /\ Shown(tree', "cljs") = tree'[Places[i]]["cljs"]
    BY <2>4, ShownIs
  <2>6. Shown(tree', "cljs") # None /\ Source(tree') = Shown(tree', "cljs")
    BY <2>5 DEF Held, Source, From
  <2>7. CASE Places[i] = j
    BY <2>3, <2>5, <2>6, <2>7
  <2>8. CASE Places[i] # j
    <3>1. Held(tree, Places[i], "cljs") /\ tree'[Places[i]] = tree[Places[i]]
      BY <2>2, <2>5, <2>8, PlacesAre DEF Held
    <3>2. \A l \in 1 .. i - 1 : ~Held(tree, Places[l], "cljs")
      <4>1. ASSUME NEW l \in 1 .. i - 1 PROVE ~Held(tree, Places[l], "cljs")
        <5>1. l \in DOMAIN Places /\ Places[l] \in Holders /\ ~Held(tree', Places[l], "cljs")
          BY <2>5, PlacesAre
        <5>2. Places[l] # j
          BY <2>1, <2>4, <5>1
        <5> QED BY <2>2, <5>1, <5>2 DEF Held
      <4> QED BY <4>1
    <3>3. PICK m \in DOMAIN Places : /\ Held(tree, Places[m], "cljs")
                                     /\ \A l \in 1 .. m - 1 : ~Held(tree, Places[l], "cljs")
                                     /\ Shown(tree, "cljs") = tree[Places[m]]["cljs"]
      BY <3>1, ShownIs
    <3>4. m = i
      <4>1. m \in Nat \ {0} /\ i \in Nat \ {0}
        BY PlacesAre
      <4>2. ~(i \in 1 .. m - 1) /\ ~(m \in 1 .. i - 1)
        BY <3>1, <3>2, <3>3
      <4> QED BY <4>1, <4>2
    <3>5. Shown(tree, "cljs") = Shown(tree', "cljs")
      BY <2>5, <3>1, <3>3, <3>4
    <3> QED BY <2>6, <3>5 DEF Source, From
  <2> QED BY <2>7, <2>8
<1> QED BY <1>1, <1>2 DEF EditTo, ReplaceTo
-----------------------------------------------------------------------------
(* What is being loaded is the source. *)
Starts(p, q) == \/ q = Off /\ proc[p].pc # "off"
                \/ IsDone(q) /\ proc[p].pc = "off"
                \/ /\ proc[p].pc = "ready" /\ q.pc = "find" /\ q.ext = proc[p].ext
                   /\ q.kind = proc[p].kind /\ q.read = proc[p].read /\ q.calm = proc[p].calm

LEMMA StartIs ==
  ASSUME Types, NEW p \in Procs, Launch(p) \/ Exit(p) \/ Kill(p) \/ Load(p)
  PROVE  \E q : Starts(p, q) /\ proc' = [proc EXCEPT ![p] = q] /\ UNCHANGED <<now, tree, cache, users>>
<1>0. proc[p] \in ProcState
  BY DEF Types, TypeOK
<1>1. CASE Launch(p)
  <2>1. PICK opts, maps : Set(p, [Off EXCEPT !.pc = "ready", !.opts = opts, !.maps = maps])
    BY <1>1 DEF Launch
  <2>2. PICK o \in ProcState : o = Off /\ IsDone([o EXCEPT !.pc = "ready"])
    BY OffIs
  <2>3. PICK q : q = [o EXCEPT !.pc = "ready", !.opts = opts, !.maps = maps]
    OBVIOUS
  <2>4. IsDone(q)
    BY <2>2, <2>3 DEF IsDone, ProcState
  <2> QED BY <1>1, <2>1, <2>2, <2>3, <2>4 DEF Launch, Set, Starts
<1>2. CASE Exit(p) \/ Kill(p)
  BY <1>2 DEF Exit, Kill, Loading, Set, Starts
<1>3. CASE Load(p)
  <2>1. PICK q : q = [proc[p] EXCEPT !.pc = "find"]
    OBVIOUS
  <2>2. /\ q.pc = "find" /\ q.ext = proc[p].ext /\ q.kind = proc[p].kind
        /\ q.read = proc[p].read /\ q.calm = proc[p].calm
    BY <1>0, <2>1 DEF ProcState
  <2> QED BY <1>3, <2>1, <2>2 DEF Load, Set, Starts
<1> QED BY <1>1, <1>2, <1>3

Decides(p, q) == /\ proc[p].pc = "check"
                 /\ \/ Ends(p, q)
                    \/ Writes(p, q) /\ q.kind = "js" /\ q.offset = 0 /\ q.read = Off.read

LEMMA DecideIs ==
  ASSUME Types, NEW p \in Procs, Use(p) \/ Compile(p)
  PROVE  \E q : /\ Decides(p, q) /\ proc' = [proc EXCEPT ![p] = q]
                /\ UNCHANGED <<now, tree, cache, author, users>>
<1>0. proc[p] \in ProcState /\ proc[p].pc = "check" /\ proc[p].offset = 0
  BY DEF Types, TypeOK, Use, Using, Compile, Writing
<1>1. CASE Set(p, Done(proc[p]))
  <2>1. Ends(p, Done(proc[p]))
    BY <1>0, DoneIs DEF Ends, Keeps, Same
  <2> QED BY <1>0, <1>1, <2>1 DEF Decides, Use, Compile, Set
<1>2. CASE Compile(p) /\ ~Set(p, Done(proc[p]))
  <2>1. PICK q : q = [proc[p] EXCEPT !.pc = "write", !.kind = "js", !.read = Off.read]
    OBVIOUS
  <2>2. Writes(p, q) /\ q.kind = "js" /\ q.offset = 0 /\ q.read = Off.read
    BY <1>0, <2>1 DEF ProcState, Writes, Keeps, Same
  <2> QED BY <1>0, <1>2, <2>1, <2>2 DEF Decides, Compile, Set
<1> QED BY <1>1, <1>2 DEF Use

LEMMA OneFinds ==
  ASSUME Types, Sourced, NEW p \in Procs, NEW q, proc' = [proc EXCEPT ![p] = q], UNCHANGED tree,
         Finds(q)
  PROVE  Sourced'
BY DEF Types, TypeOK, Sourced, Finds

LEMMA StepSourced ==
  ASSUME Shape, Sourced, NEW p \in Procs, Launch(p) \/ Exit(p) \/ Kill(p) \/ Load(p) \/ Step(p)
  PROVE  Sourced'
<1>0. Types /\ Finds(proc[p]) /\ Begins(proc[p]) /\ proc[p] \in ProcState /\ Off.pc = "off"
  BY OffIs DEF Shape, Types, TypeOK, Sourced
<1>1. CASE Launch(p) \/ Exit(p) \/ Kill(p) \/ Load(p)
  <2>1. PICK q : Starts(p, q) /\ proc' = [proc EXCEPT ![p] = q] /\ UNCHANGED tree
    BY <1>0, <1>1, StartIs
  <2>2. Finds(q)
    BY <1>0, <2>1 DEF Starts, Finds, Begins, IsDone
  <2> QED BY <1>0, <2>1, <2>2, OneFinds
<1>2. CASE Find(p)
  <2>1. PICK q \in ProcState :
          /\ proc[p].pc = "find" /\ proc' = [proc EXCEPT ![p] = q]
          /\ \/ /\ FoundBy(p) # None /\ Extensions[proc[p].ext] # "js"
                /\ q.pc = "read" /\ q.source = FoundBy(p)
             \/ FoundBy(p) = None /\ q.pc = "find" /\ q.ext = proc[p].ext + 1
             \/ IsDone(q)
    BY <1>0, <1>2, FindIs
  <2>2. PICK e \in 1 .. 3 : /\ e = proc[p].ext /\ FoundBy(p) = From(tree, Extensions[e])
                            /\ \A d \in 1 .. e - 1 : From(tree, Extensions[d]) = None
    BY <1>0, <2>1, FoundIs DEF ProcState, Extensions, Finds
  <2>3. Extensions[1] = "cljs" /\ Extensions[2] = "cljc" /\ Extensions[3] = "js"
    BY DEF Extensions
  <2>4. CASE FoundBy(p) # None /\ Extensions[e] # "js" /\ q.pc = "read" /\ q.source = FoundBy(p)
    <3>1. e = 1 \/ e = 2
      BY <2>3, <2>4
    <3>2. FoundBy(p) = Source(tree)
      <4>1. CASE e = 1
        BY <2>2, <2>3, <2>4, <4>1 DEF Source
      <4>2. CASE e = 2
        <5>1. From(tree, Extensions[1]) = None
          BY <2>2, <4>2
        <5> QED BY <2>2, <2>3, <4>2, <5>1 DEF Source
      <4> QED BY <3>1, <4>1, <4>2
    <3>3. Finds(q)
      BY <2>4, <3>2 DEF Finds
    <3> QED BY <1>0, <1>2, <2>1, <3>3, OneFinds DEF Find
  <2>5. CASE FoundBy(p) = None /\ q.pc = "find" /\ q.ext = e + 1
    <3>1. \A d \in 1 .. q.ext - 1 : d \in 1 .. e - 1 \/ d = e
      BY <2>5
    <3>2. Finds(q)
      BY <2>2, <2>5, <3>1 DEF Finds
    <3> QED BY <1>0, <1>2, <2>1, <3>2, OneFinds DEF Find
  <2>6. CASE IsDone(q)
    <3>1. Finds(q)
      BY <2>6 DEF IsDone, Finds
    <3> QED BY <1>0, <1>2, <2>1, <3>1, OneFinds DEF Find
  <2> QED BY <2>1, <2>2, <2>4, <2>5, <2>6
<1>3. CASE Read(p)
  <2>1. PICK q \in ProcState : /\ proc[p].pc = "read" /\ proc' = [proc EXCEPT ![p] = q]
                               /\ q.source = proc[p].source /\ q.pc \in {"read", "check"}
    BY <1>0, <1>3, ReadIs DEF ReadTo
  <2>2. Finds(q)
    BY <1>0, <2>1 DEF Finds
  <2> QED BY <1>0, <1>3, <2>1, <2>2, OneFinds DEF Read
<1>4. CASE Use(p) \/ Compile(p)
  <2>1. PICK q : Decides(p, q) /\ proc' = [proc EXCEPT ![p] = q] /\ UNCHANGED tree
    BY <1>0, <1>4, DecideIs
  <2>2. Finds(q)
    BY <1>0, <2>1 DEF Decides, Writes, Ends, IsDone, Finds
  <2> QED BY <1>0, <2>1, <2>2, OneFinds
<1>5. CASE OpenFile(p) \/ WriteFile(p)
  <2>1. PICK q \in ProcState : /\ proc[p].pc = "write" /\ proc' = [proc EXCEPT ![p] = q]
                               /\ Writes(p, q) \/ Ends(p, q)
    BY <1>0, <1>5, OpenIs, WriteIs DEF OpenTo, WriteTo
  <2>2. Finds(q)
    BY <1>0, <2>1 DEF Writes, Ends, IsDone, Finds
  <2> QED BY <1>0, <1>5, <2>1, <2>2, OneFinds DEF OpenFile, WriteFile
<1> QED BY <1>1, <1>2, <1>3, <1>4, <1>5 DEF Step
-----------------------------------------------------------------------------
(* The JavaScript in the cache *)

(* Who compiles at the same time compiles the same source with the same    *)
(* options.                                                                *)
LEMMA SameCompiled ==
  ASSUME Shape, Sourced, NEW p \in Procs, NEW q \in Procs, HasSource(p), HasSource(q)
  PROVE  Compiled(p) = Compiled(q)
<1>1. proc[p].source = proc[q].source
  BY DEF Sourced, Finds, HasSource
<1>2. proc[p].opts = proc[q].opts
  BY DEF Shape, Like, HasSource
<1> QED BY <1>1, <1>2 DEF Compiled

LEMMA SoundStays ==
  ASSUME Types, Sound, UNCHANGED tree, cache'["js"] = cache["js"], now' \in Nat, now <= now',
         \A r \in Procs : Opened(r)' => Opened(r) /\ Compiled(r)' = Compiled(r)
  PROVE  Sound'
<1>1. now \in Nat
  BY CacheAssumption DEF Types, TypeOK
<1>2. 1 .. now \subseteq 1 .. now'
  BY <1>1
<1> QED BY <1>2 DEF Sound, Filled, Fits

(* A file of what p compiles *)
LEMMA SoundFile ==
  ASSUME Shape, Sourced, UNCHANGED <<tree, now>>, NEW p \in Procs, HasSource(p),
         cache'["js"] # None, cache'["js"].modified \in 1 .. now, Filled(cache'["js"], Compiled(p)),
         \A r \in Procs : Opened(r)' => HasSource(r) /\ Compiled(r)' = Compiled(r)
  PROVE  Sound'
<1>1. /\ Compiled(p) \in Block \ {Hole} /\ Compiled(p).text = TextOf(Source(tree))
  BY CompiledIs DEF Shape, Sourced, Finds, HasSource
<1>2. Fits(cache'["js"], Source(tree))
  BY <1>1 DEF Fits
<1>3. \A r \in Procs : Opened(r)' => Filled(cache'["js"], Compiled(r)')
  BY SameCompiled
<1> QED BY <1>1, <1>2, <1>3 DEF Sound, Filled, Fits

(* Who has a file open *)
LEMMA OthersOpened ==
  ASSUME Types, NEW p \in Procs, NEW q, proc' = [proc EXCEPT ![p] = q]
  PROVE  /\ \A r \in Procs \ {p} : (Opened(r)' <=> Opened(r)) /\ Compiled(r)' = Compiled(r)
         /\ Opened(p)' <=> q.pc = "write" /\ (q.kind # "js" \/ q.offset # 0)
         /\ Writes(p, q) => Compiled(p)' = Compiled(p)
         /\ proc'[p] = q
BY DEF Types, TypeOK, Opened, Writing, Compiled, Writes, Keeps, Same

LEMMA QuietSound ==
  ASSUME Types, Sound, NEW p \in Procs, NEW q, proc' = [proc EXCEPT ![p] = q],
         UNCHANGED <<now, tree>>, cache'["js"] = cache["js"],
         q.pc = "write" => /\ Writes(p, q)
                           /\ (q.kind # "js" \/ q.offset # 0) => Opened(p)
  PROVE  Sound'
<1>1. now \in Nat
  BY CacheAssumption DEF Types, TypeOK
<1>2. \A r \in Procs : Opened(r)' => Opened(r) /\ Compiled(r)' = Compiled(r)
  BY OthersOpened
<1> QED BY <1>1, <1>2, SoundStays

LEMMA OpenSound ==
  ASSUME Shape, Sourced, Sound, Types', NEW p \in Procs, OpenFile(p)
  PROVE  Sound'
<1>0. Types /\ cache \in [Kinds -> File \cup {None}] /\ now \in 1 .. now /\ now \in Nat
  BY CacheAssumption DEF Shape, Types, TypeOK
<1>1. PICK q \in ProcState, k \in Kinds : OpenTo(p, q, k)
  BY <1>0, OpenIs
<1>2. UNCHANGED <<now, tree>> /\ proc' = [proc EXCEPT ![p] = q] /\ Writes(p, q) /\ HasSource(p)
  BY <1>1 DEF OpenFile, OpenTo, HasSource
<1>3. CASE k = "js"
  <2>1. cache'["js"] = [blocks |-> <<>>, modified |-> now]
    BY <1>0, <1>1, <1>3 DEF OpenTo, Time
  <2>2. cache'["js"].modified \in 1 .. now /\ cache'["js"] # None
    <3>1. cache'["js"] \in File
      BY <1>0, <2>1, EmptySeq DEF File
    <3> QED BY <1>0, <2>1, <3>1, CacheAssumption
  <2>3. Filled(cache'["js"], Compiled(p))
    BY <2>1 DEF Filled
  <2>4. \A r \in Procs : Opened(r)' => HasSource(r) /\ Compiled(r)' = Compiled(r)
    BY <1>0, <1>2, OthersOpened DEF Opened, Writing, HasSource
  <2> QED BY <1>2, <2>2, <2>3, <2>4, SoundFile
<1>4. CASE k # "js"
  <2>1. cache'["js"] = cache["js"] /\ Opened(p)
    BY <1>0, <1>1, <1>4 DEF OpenTo, Opened, Writing
  <2> QED BY <1>0, <1>2, <2>1, QuietSound
<1> QED BY <1>3, <1>4

LEMMA WriteSound ==
  ASSUME Shape, Sourced, Sound, Types', NEW p \in Procs, WriteFile(p)
  PROVE  Sound'
<1>0. Types /\ cache \in [Kinds -> File \cup {None}] /\ now \in 1 .. now
  BY CacheAssumption DEF Shape, Types, TypeOK
<1>1. PICK q \in ProcState, k \in Kinds, i \in Nat \ {0}, next \in Kinds \cup {None} :
        WriteTo(p, q, k, i, next)
  BY <1>0, WriteIs
<1>2. /\ UNCHANGED <<now, tree>> /\ proc' = [proc EXCEPT ![p] = q] /\ HasSource(p) /\ Opened(p)
      /\ q.pc = "write" => Writes(p, q)
  BY <1>1 DEF WriteFile, WriteTo, HasSource, Opened, Writing, Ends, IsDone
<1>3. CASE k = "js"
  <2>1. PICK f : f = [blocks |-> Written(cache["js"].blocks, i, Compiled(p)), modified |-> now]
    OBVIOUS
  <2>2. cache'["js"] = f
    BY <1>0, <1>1, <1>3, <2>1 DEF WriteTo, Time
  <2>3. cache["js"] \in File /\ Filled(cache["js"], Compiled(p))
    BY <1>0, <1>2 DEF Sound, Kinds
  <2>4. PICK b \in Seq(Block) : b = cache["js"].blocks
    BY <2>3 DEF File
  <2>5. \A j \in DOMAIN f.blocks : f.blocks[j] \in {Compiled(p), Hole}
    <3>1. PICK c \in Block : c = Compiled(p)
      BY <1>0, <1>2, CompiledIs
    <3>2. \A j \in 1 .. Len(b) : b[j] \in {c, Hole}
      <4>1. DOMAIN b = 1 .. Len(b)
        BY LenProperties
      <4> QED BY <2>3, <2>4, <3>1, <4>1 DEF Filled
    <3>3. f.blocks = Written(b, i, c)
      BY <2>1, <2>4, <3>1
    <3>4. \A j \in DOMAIN Written(b, i, c) : Written(b, i, c)[j] \in {c, Hole}
      BY <3>2, LenProperties DEF Written
    <3> QED BY <3>1, <3>3, <3>4
  <2>6. cache'["js"] # None
    <3>1. Written(cache["js"].blocks, i, Compiled(p)) \in Seq(Block)
      BY <1>0, <1>2, <2>4, CompiledIs, WrittenIs
    <3>2. f \in File
      BY <1>0, <2>1, <3>1 DEF File
    <3> QED BY <2>2, <3>2, CacheAssumption
  <2>7. \A r \in Procs : Opened(r)' => HasSource(r) /\ Compiled(r)' = Compiled(r)
    BY <1>0, <1>2, OthersOpened DEF Opened, Writing, HasSource
  <2> QED BY <1>0, <1>2, <2>1, <2>2, <2>5, <2>6, <2>7, SoundFile DEF Filled
<1>4. CASE k # "js"
  <2>1. cache'["js"] = cache["js"]
    BY <1>0, <1>1, <1>4 DEF WriteTo
  <2> QED BY <1>0, <1>2, <2>1, QuietSound
<1> QED BY <1>3, <1>4

LEMMA StepSound ==
  ASSUME Shape, Sourced, Sound, Types', NEW p \in Procs,
         Launch(p) \/ Exit(p) \/ Kill(p) \/ Load(p) \/ Step(p)
  PROVE  Sound'
<1>0. Types /\ Off.pc = "off"
  BY OffIs DEF Shape
<1>1. CASE Launch(p) \/ Exit(p) \/ Kill(p) \/ Load(p)
  <2>1. PICK q : Starts(p, q) /\ proc' = [proc EXCEPT ![p] = q] /\ UNCHANGED <<now, tree, cache>>
    BY <1>0, <1>1, StartIs
  <2>2. q.pc # "write"
    BY <1>0, <2>1 DEF Starts, IsDone
  <2> QED BY <1>0, <2>1, <2>2, QuietSound
<1>2. CASE Find(p) \/ Read(p)
  <2>1. PICK q \in ProcState : proc' = [proc EXCEPT ![p] = q] /\ q.pc # "write"
    BY <1>0, <1>2, FindIs, ReadIs DEF ReadTo, IsDone
  <2> QED BY <1>0, <1>2, <2>1, QuietSound DEF Find, Read
<1>3. CASE Use(p) \/ Compile(p)
  <2>1. PICK q : /\ Decides(p, q) /\ proc' = [proc EXCEPT ![p] = q]
                 /\ UNCHANGED <<now, tree, cache>>
    BY <1>0, <1>3, DecideIs
  <2>2. q.pc = "write" => Writes(p, q) /\ q.kind = "js" /\ q.offset = 0
    BY <2>1 DEF Decides, Ends, IsDone
  <2> QED BY <1>0, <2>1, <2>2, QuietSound
<1> QED BY <1>1, <1>2, <1>3, OpenSound, WriteSound DEF Step

LEMMA UsersSound ==
  ASSUME Steady, Shape, Sound,
         (\E e \in Edited : Edit(e[1], e[2])) \/ (\E j \in Jars : Replace(j)) \/ Tick
  PROVE  Sound'
<1>0. Types /\ now \in Nat
  BY CacheAssumption DEF Shape, Types, TypeOK
<1>1. CASE Tick
  <2>1. /\ UNCHANGED tree /\ cache'["js"] = cache["js"] /\ now' \in Nat /\ now <= now'
        /\ \A r \in Procs : Opened(r)' => Opened(r) /\ Compiled(r)' = Compiled(r)
    BY <1>0, <1>1 DEF Tick, Opened, Writing, Compiled
  <2> QED BY <1>0, <2>1, SoundStays
<1>2. CASE \/ \E h \in Holders, name \in {"cljs", "cljc"}, f \in Made : EditTo(h, name, f)
           \/ \E j \in Jars, f \in Made : ReplaceTo(j, f)
  <2>1. UNCHANGED <<now, cache, proc>> /\ \A p \in Procs : ~Opened(p)
    BY <1>2 DEF EditTo, ReplaceTo, Loading, Opened, Writing
  <2>2. Source(tree') \in {Source(tree)} \cup {f \in Made : f.modified = now}
    BY <1>0, <1>2, SourceStays
  <2>3. ASSUME cache["js"] # None, Source(tree') # None PROVE Fits(cache["js"], Source(tree'))
    <3>1. CASE Source(tree') = Source(tree)
      BY <2>3, <3>1 DEF Sound
    <3>2. CASE Source(tree').modified = now
      <4>1. PICK b \in Block \ {Hole} : Filled(cache["js"], b)
        BY <2>3 DEF Sound
      <4>2. ~(cache["js"].modified > Source(tree').modified)
        BY <1>0, <2>3, <3>2 DEF Sound
      <4> QED BY <4>1, <4>2 DEF Fits
    <3> QED BY <2>2, <3>1, <3>2
  <2>4. \A p \in Procs : ~Opened(p)'
    BY <2>1 DEF Opened, Writing
  <2> QED BY <2>1, <2>3, <2>4 DEF Sound, Filled, Fits
<1> QED BY <1>0, <1>1, <1>2, EditIs, ReplaceIs
-----------------------------------------------------------------------------
(* What is read *)
LEMMA InitInv ==
  ASSUME AllShipped, Init
  PROVE  CacheInv
<1>1. Shape /\ Shipped(tree)
  BY InitShape DEF Init, AllShipped
<1>2. (\A p \in Procs : proc[p].pc = "off") /\ cache["js"] = None
  BY OffIs DEF Init, Kinds
<1> QED BY <1>1, <1>2 DEF CacheInv, Sourced, Finds, Sound, Opened, Writing, ReadsSound, ReadsWell, Got

LEMMA UsersSourced ==
  ASSUME Steady, Shape, Sourced, Shipped(tree), ReadsSound,
         (\E e \in Edited : Edit(e[1], e[2])) \/ (\E j \in Jars : Replace(j)) \/ Tick
  PROVE  Sourced' /\ Shipped(tree)' /\ ReadsSound'
<1>0. Types
  BY DEF Shape
<1>1. CASE Tick
  BY <1>1 DEF Tick, Sourced, Finds, ReadsSound, ReadsWell, Got, Readable, Fits, Filled
<1>2. CASE \/ \E h \in Holders, name \in {"cljs", "cljc"}, f \in Made : EditTo(h, name, f)
           \/ \E j \in Jars, f \in Made : ReplaceTo(j, f)
  <2>1. UNCHANGED proc /\ \A p \in Procs : ~Loading(p)
    BY <1>2 DEF EditTo, ReplaceTo, Loading
  <2>2. Sourced'
    BY <2>1 DEF Loading, Sourced, Finds
  <2>3. ReadsSound'
    BY <2>1 DEF ReadsSound, ReadsWell, Got, Readable, Fits, Filled
  <2> QED BY <1>0, <1>2, <2>2, <2>3, ShippedStays
<1> QED BY <1>0, <1>1, <1>2, EditIs, ReplaceIs

LEMMA OneReads ==
  ASSUME Types, ReadsSound, NEW p \in Procs, NEW q, proc' = [proc EXCEPT ![p] = q], ReadsWell(q)
  PROVE  ReadsSound'
BY DEF Types, TypeOK, ReadsSound, ReadsWell, Got, Readable, Fits, Filled

(* What is found is in a place. *)
LEMMA ShownHeld ==
  ASSUME NEW t, NEW name, Shown(t, name) # None
  PROVE  \E h \in Holders : t[h] # None /\ Shown(t, name) = t[h][name]
BY ShownIs, PlacesAre DEF Held

LEMMA SourceHeld ==
  ASSUME Types, Source(tree) # None
  PROVE  \E g \in Holders, name \in {"cljs", "cljc"} :
           tree[g] # None /\ tree[g][name] # None /\ Source(tree) = tree[g][name]
<1>1. ASSUME NEW name, From(tree, name) # None
      PROVE  \E g \in Holders : tree[g] # None /\ tree[g][name] # None /\ From(tree, name) = tree[g][name]
  <2>1. "cwd" \in Holders /\ tree["cwd"] # None
    BY PlacesAre, CacheAssumption DEF Types
  <2> QED BY <1>1, <2>1, ShownHeld DEF From
<1> QED BY <1>1 DEF Source

LEMMA NearIs ==
  ASSUME Shape, NEW p \in Procs, NEW k \in Kinds
  PROVE  /\ Near(p, k) = Beside(proc[p], k) /\ Near(p, k) \in Made \cup {None}
         /\ Near(p, k) # None =>
              \E h \in Holders : tree[h] # None /\ tree[h][k] = Near(p, k)
<1>1. k \in Names /\ "cwd" \in Holders /\ tree["cwd"] # None
  BY PlacesAre, CacheAssumption DEF Names, Shape, Types
<1>2. Near(p, k) = Beside(proc[p], k)
  BY <1>1, LoadedShown DEF Near, Beside
<1>3. Near(p, k) \in Made \cup {None}
  BY <1>1, LoadedTyped, CwdTyped DEF Near, Shape, Types
<1> QED BY <1>1, <1>2, <1>3, ShownHeld DEF Beside

LEMMA BesideOlder ==
  ASSUME Shape, Shipped(tree), NEW p \in Procs, Source(tree) # None, Near(p, "js") # None
  PROVE  \E x \in Made, s \in Made :
           /\ x = Near(p, "js") /\ s = Source(tree) /\ x.modified <= s.modified
           /\ s.modified = 0 => \A i \in DOMAIN x.blocks : x.blocks[i].text = TextOf(s)
<1>1. PICK h \in Holders : tree[h] # None /\ tree[h]["js"] = Near(p, "js")
  BY NearIs DEF Kinds
<1>2. PICK g \in Holders, name \in {"cljs", "cljc"} :
        tree[g] # None /\ tree[g][name] # None /\ Source(tree) = tree[g][name]
  BY SourceHeld DEF Shape
<1>3. Near(p, "js") \in Made
  BY NearIs DEF Kinds
<1>4. tree[g][name] \in Made
  BY <1>2, CacheAssumption DEF Shape, Types, TypeOK, Tree, Made, Names
<1>5. PICK x \in Made, s \in Made : x = Near(p, "js") /\ s = Source(tree)
  BY <1>2, <1>3, <1>4
<1>6. /\ x.modified <= s.modified
      /\ s.modified = 0 => \A i \in DOMAIN x.blocks : x.blocks[i].text = TextOf(s)
  BY <1>1, <1>2, <1>5 DEF Shipped
<1> QED BY <1>5, <1>6

LEMMA BesideReadable ==
  ASSUME Shape, Shipped(tree), NEW p \in Procs, Source(tree) # None, Near(p, "js") # None
  PROVE  Readable(Near(p, "js"), Source(tree))
<1>1. PICK x \in Made, s \in Made :
        /\ x = Near(p, "js") /\ s = Source(tree) /\ x.modified <= s.modified
        /\ s.modified = 0 => \A i \in DOMAIN x.blocks : x.blocks[i].text = TextOf(s)
  BY BesideOlder
<1>2. /\ x.modified \in Nat /\ s.modified \in Nat
      /\ x.blocks # <<>> /\ \A i \in DOMAIN x.blocks : x.blocks[i] # Hole
  BY TextIs DEF Made, Whole
<1> QED BY <1>1, <1>2 DEF Readable

LEMMA CacheReadable ==
  ASSUME Types, Sound, Source(tree) # None, GetContents(cache["js"]) # None
  PROVE  Readable(GetContents(cache["js"]), Source(tree))
<1>1. PICK f \in File \cup {None} : f = cache["js"]
  BY DEF Types, TypeOK, Kinds
<1>2. PICK x \in File : /\ x = GetContents(f) /\ f \in File /\ x.modified = f.modified
                        /\ Len(x.blocks) <= Len(f.blocks)
                        /\ \A i \in 1 .. Len(x.blocks) :
                             x.blocks[i] = f.blocks[i] /\ f.blocks[i] # Hole
  BY <1>1, GetContentsIs
<1>3. /\ DOMAIN x.blocks = 1 .. Len(x.blocks) /\ DOMAIN f.blocks = 1 .. Len(f.blocks)
      /\ Len(x.blocks) \in Nat /\ Len(f.blocks) \in Nat
  BY <1>2, LenProperties DEF File
<1>4. f.modified # 0 /\ Fits(f, Source(tree))
  BY <1>1, <1>2, CacheAssumption DEF Sound
<1>5. Fits(x, Source(tree))
  <2>1. PICK b \in Block \ {Hole} : /\ Filled(f, b)
                                    /\ f.modified > Source(tree).modified => b.text = TextOf(Source(tree))
    BY <1>4 DEF Fits
  <2>2. Filled(x, b)
    BY <1>2, <1>3, <2>1 DEF Filled
  <2> QED BY <1>2, <2>1, <2>2 DEF Fits
<1> QED BY <1>1, <1>2, <1>3, <1>4, <1>5 DEF Readable

LEMMA ReadReads ==
  ASSUME Shape, Shipped(tree), Sourced, Sound, ReadsSound, NEW p \in Procs, Read(p)
  PROVE  ReadsSound'
<1>0. Types /\ proc[p] \in ProcState /\ cache \in [Kinds -> File \cup {None}]
  BY DEF Shape, Types, TypeOK
<1>1. PICK q \in ProcState, x \in File \cup {None}, k \in Kinds, next \in Kinds \cup {None} :
        ReadTo(p, q, x, k, next)
  BY <1>0, ReadIs
<1>2. /\ proc' = [proc EXCEPT ![p] = q] /\ proc[p].pc = "read" /\ proc[p].kind = k
      /\ q.source = proc[p].source /\ q.read = [proc[p].read EXCEPT ![k] = x]
      /\ x = IF Near(p, k) # None THEN Near(p, k) ELSE GetContents(cache[k])
  BY <1>1 DEF ReadTo
<1>3. q.source = Source(tree) /\ Source(tree) # None
  BY <1>2 DEF Sourced, Finds
<1>4. CASE k = "js"
  <2>1. q.read["js"] = x
    BY <1>0, <1>2, <1>4 DEF ProcState
  <2>2. x # None => Readable(x, Source(tree))
    BY <1>0, <1>2, <1>3, <1>4, BesideReadable, CacheReadable
  <2>3. ReadsWell(q)
    BY <1>3, <2>1, <2>2 DEF ReadsWell
  <2> QED BY <1>0, <1>2, <2>3, OneReads
<1>5. CASE k # "js"
  <2>1. q.read["js"] = proc[p].read["js"] /\ Got(proc[p], "js")
    BY <1>0, <1>2, <1>5 DEF ProcState, Got
  <2>2. ReadsWell(proc[p])
    BY DEF ReadsSound
  <2>3. ReadsWell(q)
    BY <1>2, <2>1, <2>2 DEF ReadsWell
  <2> QED BY <1>0, <1>2, <2>3, OneReads
<1> QED BY <1>4, <1>5

LEMMA StepReads ==
  ASSUME Shape, Shipped(tree), Sourced, Sound, ReadsSound, NEW p \in Procs,
         Launch(p) \/ Exit(p) \/ Kill(p) \/ Load(p) \/ Step(p)
  PROVE  ReadsSound'
<1>0. Types /\ Begins(proc[p])
  BY DEF Shape
<1>1. ASSUME NEW q, proc' = [proc EXCEPT ![p] = q], ~Got(q, "js")
      PROVE  ReadsSound'
  <2>1. ReadsWell(q)
    BY <1>1 DEF ReadsWell
  <2> QED BY <1>0, <1>1, <2>1, OneReads
<1>2. CASE Launch(p) \/ Exit(p) \/ Kill(p) \/ Load(p)
  <2>1. PICK q : Starts(p, q) /\ proc' = [proc EXCEPT ![p] = q]
    BY <1>0, <1>2, StartIs
  <2>2. q.pc \notin {"read", "check"}
    BY <2>1, OffIs DEF Starts, IsDone
  <2> QED BY <1>1, <2>1, <2>2 DEF Got
<1>3. CASE Find(p)
  <2>1. PICK q \in ProcState : /\ proc' = [proc EXCEPT ![p] = q] /\ proc[p].pc = "find"
                               /\ \/ q.pc = "read" /\ q.kind = proc[p].kind
                                  \/ q.pc = "find"
                                  \/ IsDone(q)
    BY <1>0, <1>3, FindIs
  <2>2. ~Got(q, "js")
    BY <1>0, <2>1 DEF Got, Begins, IsDone
  <2> QED BY <1>1, <2>1, <2>2
<1>4. CASE Use(p) \/ Compile(p)
  <2>1. PICK q : Decides(p, q) /\ proc' = [proc EXCEPT ![p] = q]
    BY <1>0, <1>4, DecideIs
  <2>2. ~Got(q, "js")
    BY <2>1 DEF Got, Decides, Writes, Ends, IsDone
  <2> QED BY <1>1, <2>1, <2>2
<1>5. CASE OpenFile(p) \/ WriteFile(p)
  <2>1. PICK q \in ProcState : /\ proc' = [proc EXCEPT ![p] = q]
                               /\ Writes(p, q) \/ Ends(p, q)
    BY <1>0, <1>5, OpenIs, WriteIs DEF OpenTo, WriteTo
  <2>2. ~Got(q, "js")
    BY <2>1 DEF Got, Writes, Ends, IsDone
  <2> QED BY <1>1, <2>1, <2>2
<1> QED BY <1>2, <1>3, <1>4, <1>5, ReadReads DEF Step

LEMMA KeepsInv ==
  ASSUME Steady, CacheInv, [Next]_vars
  PROVE  CacheInv'
<1>0. Shape /\ Types /\ Shipped(tree) /\ Sourced /\ Sound /\ ReadsSound /\ Types'
  BY KeepsTypes DEF CacheInv, Shape
<1>1. ASSUME NEW p \in Procs, Launch(p) \/ Exit(p) \/ Kill(p) \/ Load(p) \/ Step(p)
      PROVE  CacheInv'
  <2>1. Shape' /\ Sourced' /\ Sound' /\ ReadsSound'
    BY <1>0, <1>1, StartsShape, StepShape, StepSourced, StepSound, StepReads
  <2>2. UNCHANGED tree
    BY <1>1 DEF Launch, Exit, Kill, Load, Step, Find, Read, Use, Compile, OpenFile, WriteFile
  <2>3. Shipped(tree)'
    BY <1>0, <2>2 DEF Shipped
  <2> QED BY <2>1, <2>3 DEF CacheInv
<1>2. CASE (\E e \in Edited : Edit(e[1], e[2])) \/ (\E j \in Jars : Replace(j)) \/ Tick
  <2>1. Shape' /\ Sourced' /\ Shipped(tree)' /\ Sound' /\ ReadsSound'
    BY <1>0, <1>2, UsersShape, UsersSourced, UsersSound
  <2> QED BY <2>1 DEF CacheInv
<1>3. CASE UNCHANGED vars
  <2>1. UNCHANGED <<now, tree, cache, proc>>
    BY <1>3 DEF vars
  <2>2. Shape'
    BY <1>0, <2>1 DEF Shape, Sees, Begins, Allowed, Like
  <2>3. Sound'
    BY <1>0, <2>1 DEF Sound, Filled, Fits, Opened, Writing, Compiled
  <2> QED BY <1>0, <2>1, <2>2, <2>3 DEF CacheInv, Shipped, Sourced, Finds,
          ReadsSound, ReadsWell, Got, Readable, Fits, Filled
<1> QED BY <1>1, <1>2, <1>3 DEF Next

LEMMA InvRunsItsCode ==
  ASSUME CacheInv
  PROVE  RunsItsCode
<1> SUFFICES ASSUME NEW p \in Procs, Using(p)
             PROVE  LET js == proc[p].read["js"]
                    IN /\ js.blocks # <<>>
                       /\ \A i \in DOMAIN js.blocks :
                            \/ js.blocks[i] = Compiled(p)
                            \/ js.modified = 0 /\ js.blocks[i].text = TextOf(proc[p].source)
  BY DEF RunsItsCode
<1>0. Types /\ proc[p] \in ProcState /\ proc[p].pc = "check"
  BY DEF CacheInv, Shape, Types, TypeOK, Using
<1>1. PICK js \in File \cup {None} : js = proc[p].read["js"]
  BY <1>0 DEF ProcState, Kinds
<1>2. js \in File /\ Valid(js, proc[p].source, proc[p].opts)
  BY <1>1 DEF Using, Valid
<1>3. Readable(js, proc[p].source)
  <2>1. ReadsWell(proc[p])
    BY DEF CacheInv, ReadsSound
  <2> QED BY <1>0, <1>1, <1>2, <2>1, CacheAssumption DEF ReadsWell, Got
<1>4. CASE js.modified = 0 /\ proc[p].source.modified = 0
  BY <1>1, <1>3, <1>4 DEF Readable
<1>5. CASE /\ js.modified > proc[p].source.modified
           /\ js.blocks # <<>> /\ js.blocks[1].opts = proc[p].opts
  <2>1. PICK b \in Block \ {Hole} : Filled(js, b) /\ b.text = TextOf(proc[p].source)
    BY <1>3, <1>5 DEF Readable, Fits
  <2>2. \A i \in DOMAIN js.blocks : js.blocks[i] = b
    BY <1>3, <2>1 DEF Readable, Filled
  <2>3. 1 \in DOMAIN js.blocks
    BY <1>2, <1>5, EmptySeq, LenProperties DEF File
  <2>4. b = Compiled(p)
    BY <1>5, <2>1, <2>2, <2>3 DEF Block, Compiled
  <2> QED BY <1>1, <1>5, <2>2, <2>4
<1> QED BY <1>2, <1>4, <1>5 DEF Valid

(* Code from the cache is that of the source that was found, and of the    *)
(* options of the process, if users do no more than launch, load, edit     *)
(* between loads, replace archives while Planck does not run, and kill.    *)
THEOREM CodeIsRight ==
  ASSUME Steady, AllShipped
  PROVE  Spec => []RunsItsCode
<1>1. Init => CacheInv
  BY InitInv
<1>2. CacheInv /\ [Next]_vars => CacheInv'
  BY KeepsInv
<1>3. CacheInv => RunsItsCode
  BY InvRunsItsCode
<1> QED BY <1>1, <1>2, <1>3, PTL DEF Spec
-----------------------------------------------------------------------------
(* Whole files *)
LEMMA QuietAuthored ==
  ASSUME Types, Authored, NEW p \in Procs, NEW q, proc' = [proc EXCEPT ![p] = q],
         UNCHANGED <<cache, author>>, ~Opened(p), ~(q.pc = "write" /\ (q.kind # "js" \/ q.offset # 0))
  PROVE  Authored'
<1>1. \A r \in Procs : (Opened(r)' <=> Opened(r))
                       /\ (Opened(r) => Compiled(r)' = Compiled(r) /\ proc'[r] = proc[r])
  BY OthersOpened DEF Types, TypeOK
<1>2. (\A l \in Kinds : \A b : Full(l, b)' <=> Full(l, b)) /\ author' = author
  BY DEF Full
<1>3. author # p /\ ~Opened(p)'
  BY OthersOpened DEF Authored
<1>4. ASSUME NEW r \in Procs, Opened(r)' PROVE author' \in {r, "torn"}
  BY <1>1, <1>2, <1>4 DEF Authored
<1>5. ASSUME NEW r \in Procs, author' = r
      PROVE  /\ Opened(r)'
             /\ \A k \in Before(proc'[r].kind) : Full(k, Compiled(r))'
             /\ proc'[r].offset # 0 =>
                  /\ cache'[proc'[r].kind] # None
                  /\ proc'[r].offset <= Size[proc'[r].kind]
                  /\ cache'[proc'[r].kind].blocks = Blocks(proc'[r].offset - 1, Compiled(r)')
  <2>1. author = r /\ Opened(r) /\ Opened(r)' /\ proc'[r] = proc[r] /\ Compiled(r)' = Compiled(r)
    BY <1>1, <1>2, <1>5 DEF Authored
  <2>2. \A k \in Before(proc[r].kind) : Full(k, Compiled(r))'
    <3>1. \A k \in Before(proc[r].kind) : Full(k, Compiled(r))
      BY <2>1 DEF Authored
    <3> QED BY <2>1, <3>1 DEF Full
  <2> QED BY <2>1, <2>2 DEF Authored
<1>6. author' = "whole" => \/ cache'["js"] = None
                           \/ \E b \in Block \ {Hole} : \A k \in Kept : Full(k, b)'
  BY DEF Authored, Full
<1> QED BY <1>4, <1>5, <1>6 DEF Authored, Full

LEMMA TornAuthored ==
  ASSUME author' = "torn"
  PROVE  Authored'
BY CacheAssumption DEF Authored

LEMMA OpenAuthored ==
  ASSUME Types, Types', Authored, NEW p \in Procs, OpenFile(p)
  PROVE  Authored' /\ author' # "whole"
<1>1. PICK q \in ProcState, k \in Kinds : OpenTo(p, q, k)
  BY OpenIs
<1>2. /\ proc[p].pc = "write" /\ proc[p].kind = k /\ proc' = [proc EXCEPT ![p] = q]
      /\ Writes(p, q) /\ q.pc = "write" /\ q.kind = k /\ q.offset = 1
      /\ cache' = [cache EXCEPT ![k] = [blocks |-> <<>>, modified |-> Time(k)]]
  BY <1>1 DEF OpenTo, Writes
<1>3. CASE \E r \in Procs \ {p} : Writing(r)
  <2>1. author' = "torn"
    BY <1>3 DEF OpenFile
  <2> QED BY <2>1, TornAuthored
<1>4. CASE ~\E r \in Procs \ {p} : Writing(r)
  <2>1. IF k = "js" THEN author' = p ELSE author' = author /\ Opened(p)
    BY <1>2, <1>4 DEF OpenFile, Opened, Writing
  <2>2. author' \in {p, "torn"}
    BY <2>1 DEF Authored
  <2>3. CASE author' = "torn"
    BY <2>3, TornAuthored
  <2>4. CASE author' = p
    <3>1. author' # "whole"
      BY <2>4, CacheAssumption
    <3>2. proc'[p] = q /\ Opened(p)' /\ Compiled(p)' = Compiled(p)
      <4>1. Opened(p)' <=> q.pc = "write" /\ (q.kind # "js" \/ q.offset # 0)
        BY <1>2, OthersOpened
      <4>2. proc'[p] = q /\ Compiled(p)' = Compiled(p)
        BY <1>2, OthersOpened
      <4> QED BY <1>2, <4>1, <4>2
    <3>3. ASSUME NEW r \in Procs, Opened(r)' PROVE author' \in {r, "torn"}
      <4>1. CASE r # p
        BY <1>2, <1>4, <3>3, <4>1, OthersOpened DEF Opened
      <4> QED BY <2>4, <4>1
    <3>4. ASSUME NEW l \in Before(k) PROVE Full(l, Compiled(p))'
      <4>1. l # k /\ l \in Kinds
        BY <3>4 DEF Before, Kinds
      <4>2. k # "js"
        BY <3>4 DEF Before
      <4>3. Full(l, Compiled(p))
        BY <1>2, <2>1, <2>4, <3>4, <4>2 DEF Authored
      <4>4. cache'[l] = cache[l]
        BY <1>2, <4>1 DEF Types, TypeOK
      <4> QED BY <3>2, <4>3, <4>4 DEF Full
    <3>5. /\ cache'[k] # None /\ 1 <= Size[k]
          /\ cache'[k].blocks = Blocks(0, Compiled(p))
      <4>1. cache'[k] # None
        BY <1>2, <3>2 DEF Types
      <4>2. cache'[k].blocks = <<>>
        BY <1>2 DEF Types, TypeOK
      <4>3. <<>> = Blocks(0, Compiled(p))
        BY DEF Blocks
      <4>4. 1 <= Size[k]
        BY CacheAssumption
      <4> QED BY <4>1, <4>2, <4>3, <4>4
    <3>6. author' = p => /\ Opened(p)'
                         /\ \A l \in Before(proc'[p].kind) : Full(l, Compiled(p))'
                         /\ /\ cache'[proc'[p].kind] # None
                            /\ proc'[p].offset <= Size[proc'[p].kind]
                            /\ cache'[proc'[p].kind].blocks
                                 = Blocks(proc'[p].offset - 1, Compiled(p)')
      BY <1>2, <3>2, <3>4, <3>5
    <3>7. \A r \in Procs : author' = r => r = p
      BY <2>4
    <3> QED BY <3>1, <3>3, <3>6, <3>7 DEF Authored
  <2> QED BY <2>2, <2>3, <2>4
<1> QED BY <1>3, <1>4

LEMMA WrittenNext ==
  ASSUME NEW i \in Nat \ {0}, NEW b
  PROVE  Written(Blocks(i - 1, b), i, b) = Blocks(i, b)
<1> DEFINE s == Blocks(i - 1, b)
<1>1. Len(s) = i - 1 /\ \A j \in 1 .. i - 1 : s[j] = b
  BY DEF Blocks
<1>2. Written(s, i, b) = [j \in 1 .. (IF i > Len(s) THEN i ELSE Len(s)) |->
                            IF j = i THEN b ELSE IF j <= Len(s) THEN s[j] ELSE Hole]
  BY DEF Written
<1>3. (IF i > Len(s) THEN i ELSE Len(s)) = i
  BY <1>1
<1>4. \A j \in 1 .. i : (IF j = i THEN b ELSE IF j <= Len(s) THEN s[j] ELSE Hole) = b
  BY <1>1
<1> HIDE DEF s
<1>5. Written(s, i, b) = Blocks(i, b)
  BY <1>2, <1>3, <1>4 DEF Blocks
<1> QED BY <1>5 DEF s

LEMMA KeptIs ==
  ASSUME OneSetting, Shape, NEW p \in Procs, proc[p].pc # "off"
  PROVE  Kept = Needed(p)
<1>1. proc[p].maps \in SourceMaps /\ SourceMaps \subseteq BOOLEAN
  BY CacheAssumption DEF Shape, Allowed
<1>2. proc[p].maps <=> TRUE \in SourceMaps
  BY <1>1 DEF OneSetting
<1> QED BY <1>2 DEF Kept, Needed

(* The last block of a file that p writes alone *)
LEMMA FileDone ==
  ASSUME Shape, Authored, NEW p \in Procs, WriteFile(p), author = p,
         NEW q, NEW k \in Kinds, NEW i \in Nat \ {0}, NEW next, WriteTo(p, q, k, i, next),
         NEW b, b = Compiled(p)
  PROVE  /\ cache'[k] # None /\ i <= Size[k]
         /\ cache'[k].blocks = Blocks(i, b)
         /\ \A l \in Before(k) : Full(l, b)'
         /\ i = Size[k] => \A l \in Before(k) \cup {k} : Full(l, b)'
<1>0. /\ proc[p].pc = "write" /\ k = proc[p].kind /\ i = proc[p].offset /\ Types /\ HasSource(p)
      /\ cache \in [Kinds -> File \cup {None}] /\ now \in Nat
      /\ cache' = [cache EXCEPT ![k] = [blocks |-> Written(cache[k].blocks, i, Compiled(p)),
                                        modified |-> Time(k)]]
  BY CacheAssumption DEF WriteTo, Shape, Types, TypeOK, HasSource
<1>1. /\ cache[k] # None /\ i <= Size[k]
      /\ cache[k].blocks = Blocks(i - 1, b)
      /\ \A l \in Before(k) : Full(l, Compiled(p))
  BY <1>0 DEF Authored
<1>2. cache'[k].blocks = Blocks(i, b)
  <2>1. cache'[k].blocks = Written(Blocks(i - 1, b), i, b)
    BY <1>0, <1>1
  <2> QED BY <2>1, WrittenNext
<1>3. cache'[k] # None
  <2>1. PICK c \in Block : c = Compiled(p)
    BY <1>0, CompiledIs
  <2>2. Written(cache[k].blocks, i, c) \in Seq(Block)
    BY <1>0, <1>1, WrittenIs DEF File
  <2>3. cache'[k] \in File
    BY <1>0, <2>1, <2>2 DEF File, Time
  <2> QED BY <2>3, CacheAssumption
<1>4. ASSUME NEW l \in Before(k) PROVE Full(l, b)'
  <2>1. l # k /\ l \in Kinds /\ Full(l, Compiled(p))
    BY <1>1, <1>4 DEF Before, Kinds
  <2>2. cache'[l] = cache[l]
    BY <1>0, <2>1
  <2> QED BY <2>1, <2>2 DEF Full
<1> QED BY <1>1, <1>2, <1>3, <1>4 DEF Full, Uniform

(* Who finishes the last file alone leaves everything whole. *)
LEMMA WriteAuthored ==
  ASSUME OneSetting, Shape, Authored, NEW p \in Procs, WriteFile(p), NEW b, b = Compiled(p)
  PROVE  Authored' /\ (author' = "whole" => \A l \in Kept : Full(l, b)')
<1>0. Types /\ author \in Procs \cup {"whole", "torn"} /\ proc[p] \in ProcState
  BY DEF Shape, Types, TypeOK
<1>1. PICK q \in ProcState, k \in Kinds, i \in Nat \ {0}, next \in Kinds \cup {None} :
        WriteTo(p, q, k, i, next)
  BY <1>0, WriteIs
<1>2. /\ proc[p].pc = "write" /\ k = proc[p].kind /\ i = proc[p].offset
      /\ next = NextKind(k, proc[p].maps) /\ proc' = [proc EXCEPT ![p] = q]
      /\ \/ i < Size[k] /\ Writes(p, q) /\ q.kind = k /\ q.offset = i + 1
         \/ i = Size[k] /\ next # None /\ Writes(p, q) /\ q.kind = next /\ q.offset = 0
         \/ ~(i < Size[k]) /\ ~(i = Size[k] /\ next # None) /\ Ends(p, q)
  BY <1>1 DEF WriteTo
<1>3. author \in {p, "torn"} /\ Opened(p) /\ HasSource(p)
  BY <1>2 DEF Opened, Writing, Authored, HasSource
<1>4. author' = IF i = Size[k] /\ next = None /\ author = p THEN "whole" ELSE author
  BY <1>2 DEF WriteFile
<1>5. CASE author = "torn"
  <2>1. author' = "torn"
    BY <1>4, <1>5, CacheAssumption
  <2> QED BY <2>1, TornAuthored
<1>6. CASE author = p
  <2>1. /\ cache'[k] # None /\ i <= Size[k]
        /\ cache'[k].blocks = Blocks(i, b)
        /\ \A l \in Before(k) : Full(l, b)'
        /\ i = Size[k] => \A l \in Before(k) \cup {k} : Full(l, b)'
    BY <1>1, <1>6, FileDone
  <2>2. i \in Nat /\ Size[k] \in Nat \ {0} /\ proc[p].maps \in BOOLEAN
    BY <1>0, CacheAssumption DEF ProcState
  <2>3. \A r \in Procs \ {p} : ~Opened(r) /\ ~Opened(r)'
    <3>1. \A r \in Procs \ {p} : ~Opened(r)
      BY <1>6, CacheAssumption DEF Authored
    <3> QED BY <1>0, <1>2, <3>1, OthersOpened
  <2>4. proc'[p] = q /\ (q.pc = "write" /\ (q.kind # "js" \/ q.offset # 0) => Opened(p)')
    BY <1>0, <1>2, OthersOpened
  <2>5. CASE i = Size[k] /\ next = None
    <3>1. author' = "whole"
      BY <1>4, <1>6, <2>5
    <3>2. Kept \subseteq Before(k) \cup {k}
      <4>1. Kept = Needed(p)
        BY <1>2, KeptIs
      <4>2. k = "js.map.json" \/ (k = "cache.json" /\ ~proc[p].maps)
        BY <1>2, <2>2, <2>5, CacheAssumption DEF NextKind, Kinds, Names
      <4> QED BY <4>1, <4>2 DEF Needed, Before, Kinds
    <3>3. \A l \in Kept : Full(l, b)'
      BY <2>1, <2>5, <3>2
    <3>4. ~Opened(p)'
      <4>1. q.pc = "ready"
        BY <1>2, <2>2, <2>5 DEF Ends, IsDone
      <4> QED BY <1>0, <1>2, <4>1, OthersOpened
    <3>5. author' \notin Procs
      BY <3>1, CacheAssumption
    <3>6. b \in Block \ {Hole}
      BY <1>0, <1>3, CompiledIs
    <3>7. \E c \in Block \ {Hole} : \A l \in Kept : Full(l, c)'
      BY <3>3, <3>6
    <3> QED BY <2>3, <3>3, <3>4, <3>5, <3>7 DEF Authored
  <2>6. CASE ~(i = Size[k] /\ next = None)
    <3>1. author' = p /\ author' # "whole" /\ author' # "torn"
      BY <1>4, <1>6, <2>6, CacheAssumption
    <3>2. /\ Writes(p, q)
          /\ \/ i < Size[k] /\ q.kind = k /\ q.offset = i + 1
             \/ i = Size[k] /\ next # None /\ q.kind = next /\ q.offset = 0
      BY <1>2, <2>1, <2>2, <2>6
    <3>3. Compiled(p)' = b /\ q.pc = "write"
      BY <1>0, <1>2, <3>2, OthersOpened DEF Writes
    <3>4. CASE i < Size[k] /\ q.kind = k /\ q.offset = i + 1
      <4>1. Opened(p)' /\ q.offset <= Size[q.kind] /\ q.offset - 1 = i
        BY <2>2, <2>4, <3>3, <3>4
      <4>2. /\ \A l \in Before(proc'[p].kind) : Full(l, b)'
            /\ cache'[proc'[p].kind] # None
            /\ proc'[p].offset <= Size[proc'[p].kind]
            /\ cache'[proc'[p].kind].blocks = Blocks(proc'[p].offset - 1, Compiled(p)')
        BY <2>1, <2>4, <3>3, <3>4, <4>1
      <4>3. \A l \in Before(proc'[p].kind) : Full(l, Compiled(p))'
        BY <3>3, <4>2 DEF Full
      <4> QED BY <2>3, <3>1, <4>1, <4>2, <4>3 DEF Authored
    <3>5. CASE i = Size[k] /\ next # None /\ q.kind = next /\ q.offset = 0
      <4>1. q.kind # "js" /\ Before(q.kind) \subseteq Before(k) \cup {k}
        <5>1. \/ k = "js" /\ next = "cache.json"
              \/ k = "cache.json" /\ next = "js.map.json"
          BY <1>2, <2>2, <3>5, NextIs DEF Kinds
        <5> QED BY <3>5, <5>1 DEF Before
      <4>2. Opened(p)'
        BY <2>4, <3>3, <4>1
      <4>3. \A l \in Before(proc'[p].kind) : Full(l, b)'
        BY <2>1, <2>4, <3>5, <4>1
      <4>4. \A l \in Before(proc'[p].kind) : Full(l, Compiled(p))'
        BY <3>3, <4>3 DEF Full
      <4> QED BY <2>3, <2>4, <3>1, <3>5, <4>2, <4>4 DEF Authored
    <3> QED BY <3>1, <3>2, <3>4, <3>5
  <2> QED BY <2>5, <2>6
<1> QED BY <1>3, <1>5, <1>6, CacheAssumption

LEMMA StepAuthored ==
  ASSUME OneSetting, Shape, Types', Authored, NEW p \in Procs,
         Launch(p) \/ Exit(p) \/ Kill(p) \/ Load(p) \/ Step(p)
  PROVE  Authored'
<1>0. Types
  BY DEF Shape
<1>1. CASE Launch(p) \/ Exit(p) \/ Kill(p) \/ Load(p)
  <2>1. PICK q : Starts(p, q) /\ proc' = [proc EXCEPT ![p] = q] /\ UNCHANGED cache
    BY <1>0, <1>1, StartIs
  <2>2. q.pc # "write"
    BY <2>1, OffIs DEF Starts, IsDone
  <2>3. CASE author' = "torn"
    BY <2>3, TornAuthored
  <2>4. CASE author' # "torn"
    <3>1. UNCHANGED author /\ ~Opened(p)
      BY <1>1, <2>4 DEF Launch, Exit, Kill, Load, Opened, Writing
    <3> QED BY <1>0, <2>1, <2>2, <3>1, QuietAuthored
  <2> QED BY <2>3, <2>4
<1>2. CASE Find(p) \/ Read(p)
  <2>1. PICK q \in ProcState : proc' = [proc EXCEPT ![p] = q] /\ q.pc # "write"
    BY <1>0, <1>2, FindIs, ReadIs DEF ReadTo, IsDone
  <2>2. ~Opened(p) /\ UNCHANGED <<cache, author>>
    BY <1>2 DEF Find, Read, Opened, Writing
  <2> QED BY <1>0, <2>1, <2>2, QuietAuthored
<1>3. CASE Use(p) \/ Compile(p)
  <2>1. PICK q : /\ Decides(p, q) /\ proc' = [proc EXCEPT ![p] = q]
                 /\ UNCHANGED <<cache, author>>
    BY <1>0, <1>3, DecideIs
  <2>2. ~Opened(p) /\ ~(q.pc = "write" /\ (q.kind # "js" \/ q.offset # 0))
    BY <2>1 DEF Decides, Ends, IsDone, Opened, Writing
  <2> QED BY <1>0, <2>1, <2>2, QuietAuthored
<1>4. CASE OpenFile(p)
  BY <1>0, <1>4, OpenAuthored
<1>5. CASE WriteFile(p)
  BY <1>0, <1>5, WriteAuthored
<1> QED BY <1>1, <1>2, <1>3, <1>4, <1>5 DEF Step

(* What is not read is not used. *)
LEMMA ReadGot ==
  ASSUME Shape, NEW p \in Procs, NEW q, NEW x, NEW k \in Kinds, NEW next, ReadTo(p, q, x, k, next)
  PROVE  /\ \A l \in Kinds : Got(q, l) <=> Got(proc[p], l) \/ l = k
         /\ k # "js" => Got(proc[p], "js")
         /\ k = "js.map.json" => proc[p].maps
<1>1. /\ proc[p].pc = "read" /\ k = proc[p].kind /\ next = NextKind(k, proc[p].maps)
      /\ q.maps = proc[p].maps /\ proc[p].maps \in BOOLEAN
      /\ next = None => q.pc = "check" /\ q.kind = "js"
      /\ next # None => q.pc = "read" /\ q.kind = next
      /\ k = "js.map.json" => proc[p].maps
  BY DEF ReadTo, Same, Shape, Types, TypeOK, ProcState, Begins
<1>2. CASE k = "js"
  <2>1. next = "cache.json" /\ next # None
    BY <1>1, <1>2, CacheAssumption DEF NextKind, Names, Kinds
  <2> QED BY <1>1, <1>2, <2>1 DEF Got
<1>3. CASE k = "cache.json" /\ proc[p].maps
  <2>1. next = "js.map.json" /\ next # None
    BY <1>1, <1>3, CacheAssumption DEF NextKind, Names, Kinds
  <2> QED BY <1>1, <1>3, <2>1 DEF Got
<1>4. CASE k = "cache.json" /\ ~proc[p].maps
  <2>1. next = None
    BY <1>1, <1>4 DEF NextKind
  <2> QED BY <1>1, <1>4, <2>1 DEF Got, Kinds
<1>5. CASE k = "js.map.json"
  <2>1. next = None
    BY <1>1, <1>5 DEF NextKind
  <2> QED BY <1>1, <1>5, <2>1 DEF Got, Kinds
<1> QED BY <1>1, <1>2, <1>3, <1>4, <1>5 DEF Kinds

LEMMA OneUnread ==
  ASSUME Types, Unread, NEW p \in Procs, NEW q, proc' = [proc EXCEPT ![p] = q], Reads(q)
  PROVE  Unread'
BY DEF Types, TypeOK, Unread, Reads, Got

LEMMA StepUnread ==
  ASSUME Shape, Unread, NEW p \in Procs,
         Launch(p) \/ Exit(p) \/ Kill(p) \/ Load(p) \/ Step(p)
  PROVE  Unread'
<1>0. Types /\ Begins(proc[p]) /\ Reads(proc[p]) /\ \A k \in Kinds : Off.read[k] = None
  BY DEF Shape, Unread, Off
<1>1. CASE Launch(p) \/ Exit(p) \/ Kill(p) \/ Load(p)
  <2>1. PICK q : Starts(p, q) /\ proc' = [proc EXCEPT ![p] = q]
    BY <1>0, <1>1, StartIs
  <2>2. Reads(q)
    BY <1>0, <2>1 DEF Starts, IsDone, Reads, Got
  <2> QED BY <1>0, <2>1, <2>2, OneUnread
<1>2. CASE Find(p)
  <2>1. PICK q \in ProcState : /\ proc' = [proc EXCEPT ![p] = q] /\ proc[p].pc = "find"
                               /\ \/ q.pc \in {"read", "find"} /\ q.read = proc[p].read
                                  \/ IsDone(q)
    BY <1>0, <1>2, FindIs
  <2>2. Reads(q)
    BY <1>0, <2>1 DEF IsDone, Reads, Got
  <2> QED BY <1>0, <2>1, <2>2, OneUnread
<1>3. CASE Read(p)
  <2>1. PICK q \in ProcState, x \in File \cup {None}, k \in Kinds, next \in Kinds \cup {None} :
          ReadTo(p, q, x, k, next)
    BY <1>0, <1>3, ReadIs
  <2>2. q.read = [proc[p].read EXCEPT ![k] = x] /\ proc' = [proc EXCEPT ![p] = q]
        /\ proc[p].read \in [Kinds -> File \cup {None}]
    BY <1>0, <2>1 DEF ReadTo, Types, TypeOK, ProcState
  <2>3. \A l \in Kinds : Got(q, l) <=> Got(proc[p], l) \/ l = k
    BY <2>1, ReadGot
  <2>4. Reads(q)
    BY <1>0, <2>2, <2>3 DEF Reads
  <2> QED BY <1>0, <2>2, <2>4, OneUnread
<1>4. CASE Use(p) \/ Compile(p)
  <2>1. PICK q : Decides(p, q) /\ proc' = [proc EXCEPT ![p] = q]
    BY <1>0, <1>4, DecideIs
  <2>2. Reads(q)
    BY <1>0, <2>1 DEF Decides, Ends, IsDone, Reads, Got
  <2> QED BY <1>0, <2>1, <2>2, OneUnread
<1>5. CASE OpenFile(p) \/ WriteFile(p)
  <2>1. PICK q \in ProcState : /\ proc' = [proc EXCEPT ![p] = q] /\ proc[p].pc = "write"
                               /\ Writes(p, q) \/ Ends(p, q)
    BY <1>0, <1>5, OpenIs, WriteIs DEF OpenTo, WriteTo
  <2>2. Reads(q)
    BY <1>0, <2>1 DEF Writes, Ends, IsDone, Reads, Got
  <2> QED BY <1>0, <2>1, <2>2, OneUnread
<1> QED BY <1>1, <1>2, <1>3, <1>4, <1>5 DEF Step
-----------------------------------------------------------------------------
(* What is used together *)

(* Analysis and source map come with JavaScript. *)
LEMMA ShippedBeside ==
  ASSUME ShippedWhole(tree), Types, NEW q, NEW k \in Kinds
  PROVE  /\ Beside(q, "js") = None => Beside(q, k) = None
         /\ Beside(q, "js") # None /\ Beside(q, "js").modified = 0 =>
              Beside(q, k) # None /\ Beside(q, k).blocks = Uniform(k, Beside(q, "js").blocks[1])
<1>0. "cwd" \in Holders /\ tree["cwd"] # None /\ \A i \in DOMAIN Places : Places[i] \in Holders
  BY PlacesAre, CacheAssumption DEF Types
<1>1. CASE q.raw_load # "load"
  BY <1>0, <1>1 DEF ShippedWhole, Beside
<1>2. CASE q.raw_load = "load" /\ Shown(tree, "js") = None
  <2>1. \A i \in DOMAIN Places : ~Held(tree, Places[i], k)
    <3>1. \A i \in DOMAIN Places : ~Held(tree, Places[i], "js")
      BY <1>2, ShownIs DEF Held
    <3> QED BY <1>0, <3>1 DEF ShippedWhole, Held
  <2> QED BY <1>2, <2>1, ShownIs DEF Beside
<1>3. CASE q.raw_load = "load" /\ Shown(tree, "js") # None /\ Shown(tree, "js").modified = 0
  <2>1. PICK i \in DOMAIN Places : /\ Held(tree, Places[i], "js")
                                   /\ \A j \in 1 .. i - 1 : ~Held(tree, Places[j], "js")
                                   /\ Shown(tree, "js") = tree[Places[i]]["js"]
    BY <1>3, ShownIs
  <2>2. Held(tree, Places[i], k) /\ tree[Places[i]][k].blocks = Uniform(k, Shown(tree, "js").blocks[1])
    BY <1>0, <1>3, <2>1 DEF ShippedWhole, Held
  <2>3. \A j \in 1 .. i - 1 : ~Held(tree, Places[j], k)
    <3>1. \A j \in 1 .. i - 1 : Places[j] \in Holders
      BY <1>0, PlacesAre
    <3> QED BY <2>1, <3>1 DEF ShippedWhole, Held
  <2>4. PICK m \in DOMAIN Places : /\ Held(tree, Places[m], k)
                                   /\ \A j \in 1 .. m - 1 : ~Held(tree, Places[j], k)
                                   /\ Shown(tree, k) = tree[Places[m]][k]
    BY <2>2, ShownIs
  <2>5. m = i
    <3>1. m \in Nat \ {0} /\ i \in Nat \ {0}
      BY PlacesAre
    <3>2. ~(i \in 1 .. m - 1) /\ ~(m \in 1 .. i - 1)
      BY <2>2, <2>3, <2>4
    <3> QED BY <3>1, <3>2
  <2> QED BY <1>3, <2>2, <2>4, <2>5 DEF Beside, Held
<1> QED BY <1>1, <1>2, <1>3 DEF Beside

LEMMA BlocksAre ==
  ASSUME NEW n \in Nat \ {0}, NEW b
  PROVE  /\ Len(Blocks(n, b)) = n /\ DOMAIN Blocks(n, b) = 1 .. n /\ Blocks(n, b) # <<>>
         /\ 1 \in 1 .. n /\ \A i \in 1 .. n : Blocks(n, b)[i] = b
<1>1. Len(Blocks(n, b)) = n /\ DOMAIN Blocks(n, b) = 1 .. n /\ \A i \in 1 .. n : Blocks(n, b)[i] = b
  BY DEF Blocks
<1>2. Blocks(n, b) # <<>>
  BY <1>1
<1> QED BY <1>1, <1>2

LEMMA FullIs ==
  ASSUME Types, NEW k \in Kinds, NEW b \in Block \ {Hole}, Full(k, b)
  PROVE  /\ cache[k] \in File /\ GetContents(cache[k]) = cache[k] /\ cache[k] # None
         /\ cache[k].blocks = Uniform(k, b) /\ cache[k].blocks[1] = b
         /\ 1 \in DOMAIN cache[k].blocks
<1>1. PICK f \in File : f = cache[k] /\ f.blocks = Blocks(Size[k], b)
  BY DEF Types, TypeOK, Full, Uniform
<1>2. Size[k] \in Nat \ {0}
  BY CacheAssumption
<1>3. /\ Len(f.blocks) = Size[k] /\ f.blocks # <<>> /\ f.blocks[1] = b /\ 1 \in DOMAIN f.blocks
      /\ \A i \in 1 .. Len(f.blocks) : f.blocks[i] # Hole
  BY <1>1, <1>2, BlocksAre
<1>4. GetContents(f) = f
  BY <1>3, GetContentsIs, CacheAssumption
<1> QED BY <1>1, <1>3, <1>4, CacheAssumption DEF Uniform

LEMMA OneTogether ==
  ASSUME Types, Together, NEW p \in Procs, NEW q, proc' = [proc EXCEPT ![p] = q],
         UNCHANGED tree, Stands(q) => (Agrees(q) /\ StillThere(q))',
         \A r \in Procs \ {p} :
           /\ Stands(proc[r]) /\ Agrees(proc[r]) /\ StillThere(proc[r])
           /\ Beside(proc[r], "js") = None /\ author' = "whole"
           => \A k \in Kept : Full(k, FirstBlock(proc[r]))'
  PROVE  Together'
<1>1. ASSUME NEW r \in Procs \ {p} PROVE Joins(proc[r])'
  <2>1. PICK s : s = proc[r] /\ s = proc'[r]
    BY DEF Types, TypeOK
  <2>2. ASSUME Stands(s) PROVE (Agrees(s) /\ StillThere(s))'
    <3>1. Agrees(s) /\ StillThere(s)
      BY <2>1, <2>2 DEF Together, Joins
    <3>2. \A k : Beside(s, k)' = Beside(s, k)
      BY DEF Beside, Shown, First, Held
    <3>3. Agrees(s)'
      BY <3>1, <3>2 DEF Agrees, FirstBlock, Got, Uniform, Blocks
    <3>4. Beside(s, "js") = None /\ author' = "whole" => \A k \in Kept : Full(k, FirstBlock(s))'
      BY <2>1, <2>2, <3>1 DEF FirstBlock, Full
    <3> QED BY <3>2, <3>3, <3>4 DEF StillThere, FirstBlock, Full
  <2>3. Joins(s)'
    BY <2>2 DEF Joins, Stands, Got, Valid
  <2>4. Stands(proc[r])' => Stands(s)'
    BY <2>1 DEF Stands, Got, Valid
  <2>5. Agrees(s)' => Agrees(proc[r])'
    BY <2>1 DEF Agrees, FirstBlock, Beside, Got
  <2>6. StillThere(s)' => StillThere(proc[r])'
    BY <2>1 DEF StillThere, FirstBlock, Beside, Full
  <2> QED BY <2>3, <2>4, <2>5, <2>6 DEF Joins
<1>2. Joins(proc[p])'
  <2>1. PICK s : s = q /\ s = proc'[p]
    BY DEF Types, TypeOK
  <2>2. Stands(s)' => Stands(q)
    BY <2>1 DEF Stands, Got, Valid
  <2>3. (Agrees(q) /\ StillThere(q))' => (Agrees(s) /\ StillThere(s))'
    BY <2>1
  <2>4. Joins(s)'
    BY <2>2, <2>3 DEF Joins
  <2>5. Stands(proc[p])' => Stands(s)'
    BY <2>1 DEF Stands, Got, Valid
  <2>6. Agrees(s)' => Agrees(proc[p])'
    BY <2>1 DEF Agrees, FirstBlock, Beside, Got
  <2>7. StillThere(s)' => StillThere(proc[p])'
    BY <2>1 DEF StillThere, FirstBlock, Beside, Full
  <2> QED BY <2>4, <2>5, <2>6, <2>7 DEF Joins
<1> QED BY <1>1, <1>2 DEF Together

LEMMA ReadFirst ==
  ASSUME CacheInv, ShippedWhole(tree), Authored, NEW p \in Procs, NEW q, NEW x, NEW next,
         ReadTo(p, q, x, "js", next), Stands(q)
  PROVE  Agrees(q) /\ StillThere(q)
<1>0. /\ Types /\ Shape /\ Sourced /\ Sound /\ Shipped(tree) /\ "js" \in Kinds
      /\ proc[p] \in ProcState
  BY DEF CacheInv, Shape, Types, TypeOK, Kinds
<1>1. /\ proc[p].pc = "read" /\ proc[p].kind = "js" /\ q.read = [proc[p].read EXCEPT !["js"] = x]
      /\ q.source = proc[p].source /\ q.raw_load = proc[p].raw_load
      /\ x = IF Near(p, "js") # None THEN Near(p, "js") ELSE GetContents(cache["js"])
      /\ q.calm <=> proc[p].calm /\ author = "whole"
  BY DEF ReadTo
<1>2. q.read["js"] = x /\ q.source = Source(tree) /\ Source(tree) # None
  BY <1>0, <1>1 DEF ProcState, Sourced, Finds
<1>3. \A l \in Kinds : Got(q, l) => l = "js"
  BY <1>0, <1>1, ReadGot DEF Got
<1>4. Beside(q, "js") = Near(p, "js")
  BY <1>0, <1>1, NearIs DEF Beside
<1>5. author = "whole" /\ Valid(x, Source(tree), q.opts)
  BY <1>1, <1>2 DEF Stands
<1>6. CASE Near(p, "js") # None
  <2>1. PICK y \in Made, s \in Made : y = Near(p, "js") /\ s = Source(tree) /\ y.modified <= s.modified
    BY <1>0, <1>2, <1>6, BesideOlder
  <2>2. y.modified = 0
    BY <1>1, <1>5, <1>6, <2>1, TextIs DEF Valid
  <2>3. y.blocks = Uniform("js", y.blocks[1])
    BY <1>0, <1>4, <1>6, <2>1, <2>2, ShippedBeside
  <2> QED BY <1>1, <1>2, <1>3, <1>4, <1>6, <2>1, <2>3 DEF Agrees, StillThere, FirstBlock
<1>7. CASE Near(p, "js") = None
  <2>1. x = GetContents(cache["js"]) /\ x # None /\ cache["js"] # None
    BY <1>1, <1>5, <1>7 DEF Valid, GetContents
  <2>2. PICK b \in Block \ {Hole} : \A k \in Kept : Full(k, b)
    BY <1>5, <2>1 DEF Authored
  <2>3. /\ x = cache["js"] /\ x.blocks = Uniform("js", b) /\ x.blocks[1] = b
        /\ 1 \in DOMAIN x.blocks /\ x \in File
    <3>1. Full("js", b)
      BY <1>0, <2>2 DEF Kept
    <3> QED BY <1>0, <2>1, <3>1, FullIs
  <2>4. b.text = TextOf(Source(tree)) /\ b.opts = q.opts
    <3>1. /\ x.modified \in 1 .. now
          /\ Fits(x, Source(tree))
      BY <1>0, <1>2, <2>1, <2>3 DEF Sound
    <3>2. x.modified > Source(tree).modified /\ x.blocks[1].opts = q.opts
      BY <1>5, <3>1 DEF Valid
    <3>3. PICK c \in Block \ {Hole} : Filled(x, c) /\ c.text = TextOf(Source(tree))
      BY <3>1, <3>2 DEF Fits
    <3>4. b = c
      BY <2>3, <3>3 DEF Filled
    <3> QED BY <2>3, <3>2, <3>3, <3>4
  <2>5. b = [text |-> TextOf(q.source), opts |-> q.opts]
    BY <1>2, <2>4 DEF Block
  <2> QED BY <1>2, <1>3, <1>4, <1>7, <2>1, <2>2, <2>3, <2>5 DEF Agrees, StillThere, FirstBlock
<1> QED BY <1>6, <1>7

LEMMA ReadRest ==
  ASSUME CacheInv, ShippedWhole(tree), Together, NEW p \in Procs, NEW q, NEW x, NEW k \in Kinds,
         NEW next, ReadTo(p, q, x, k, next), k # "js", Stands(q)
  PROVE  Agrees(q) /\ StillThere(q)
<1>0. /\ Types /\ Shape /\ Sourced /\ Shipped(tree) /\ proc[p] \in ProcState /\ "js" \in Kinds
  BY DEF CacheInv, Shape, Types, TypeOK, Kinds
<1>1. /\ proc[p].pc = "read" /\ proc[p].kind = k /\ q.read = [proc[p].read EXCEPT ![k] = x]
      /\ q.source = proc[p].source /\ q.raw_load = proc[p].raw_load
      /\ q.opts = proc[p].opts
      /\ x = IF Near(p, k) # None THEN Near(p, k) ELSE GetContents(cache[k])
      /\ q.calm <=> proc[p].calm /\ author = "whole"
  BY DEF ReadTo, Same
<1>2. /\ q.read["js"] = proc[p].read["js"] /\ q.read[k] = x
      /\ \A l \in Kinds \ {k} : q.read[l] = proc[p].read[l]
      /\ q.source = Source(tree) /\ Source(tree) # None
  BY <1>0, <1>1 DEF ProcState, Sourced, Finds
<1>3. /\ \A l \in Kinds : Got(q, l) <=> Got(proc[p], l) \/ l = k
      /\ Got(proc[p], "js") /\ (k = "js.map.json" => proc[p].maps)
  BY <1>0, ReadGot
<1>4. author = "whole" /\ Stands(proc[p])
  BY <1>1, <1>2, <1>3 DEF Stands
<1>5. Agrees(proc[p]) /\ StillThere(proc[p]) /\ FirstBlock(q) = FirstBlock(proc[p])
  BY <1>2, <1>4 DEF Together, Joins, FirstBlock
<1>6. /\ \A l \in Kinds : Beside(q, l) = Beside(proc[p], l)
      /\ Beside(q, k) = Near(p, k) /\ Beside(q, "js") = Near(p, "js")
  BY <1>0, <1>1, NearIs DEF Beside
<1>7. x # None /\ x.blocks = Uniform(k, FirstBlock(q))
  <2>1. CASE Beside(q, "js") # None
    <3>1. PICK y \in Made, s \in Made : y = Near(p, "js") /\ s = Source(tree) /\ y.modified <= s.modified
      BY <1>0, <1>2, <1>6, <2>1, BesideOlder
    <3>2. q.read["js"] = y /\ Valid(y, s, q.opts)
      BY <1>0, <1>1, <1>2, <1>4, <1>5, <1>6, <2>1, <3>1 DEF Agrees, Stands
    <3>3. y.modified = 0
      BY <3>1, <3>2, TextIs DEF Valid
    <3>4. Beside(q, k) # None /\ Beside(q, k).blocks = Uniform(k, y.blocks[1])
      BY <1>0, <1>6, <2>1, <3>1, <3>3, ShippedBeside
    <3> QED BY <1>1, <1>6, <3>2, <3>4 DEF FirstBlock
  <2>2. CASE Beside(q, "js") = None
    <3>1. Beside(q, k) = None
      BY <1>0, <2>2, ShippedBeside
    <3>2. k \in Kept
      BY <1>0, <1>1, <1>3 DEF Kept, Shape, Allowed, ProcState
    <3>3. Full(k, FirstBlock(q))
      BY <1>0, <1>4, <1>5, <1>6, <2>2, <3>2 DEF StillThere
    <3>4. FirstBlock(q) \in Block \ {Hole}
      <4>1. FirstBlock(q) = Compiled(p) /\ HasSource(p)
        BY <1>0, <1>1, <1>5, <1>6, <2>2 DEF Agrees, Compiled, HasSource
      <4> QED BY <1>0, <4>1, CompiledIs
    <3> QED BY <1>0, <1>1, <1>6, <3>1, <3>3, <3>4, FullIs
  <2> QED BY <2>1, <2>2
<1>8. Agrees(q)
  <2>1. ASSUME NEW l \in Kinds, Got(q, l)
        PROVE  q.read[l] # None /\ q.read[l].blocks = Uniform(l, FirstBlock(q))
    BY <1>2, <1>3, <1>5, <1>7, <2>1 DEF Agrees
  <2> QED BY <1>0, <1>1, <1>2, <1>5, <1>6, <2>1 DEF Agrees
<1>9. StillThere(q)
  BY <1>0, <1>5, <1>6 DEF StillThere
<1> QED BY <1>8, <1>9

LEMMA StepTogether ==
  ASSUME OneSetting, CacheInv, WholeInv, Types', NEW p \in Procs,
         Launch(p) \/ Exit(p) \/ Kill(p) \/ Load(p) \/ Step(p)
  PROVE  Together'
<1>0. /\ Types /\ Shape /\ Sourced /\ Begins(proc[p]) /\ ShippedWhole(tree) /\ Authored /\ Together
  BY DEF CacheInv, WholeInv, Shape
<1>1. ASSUME NEW q, proc' = [proc EXCEPT ![p] = q], ~Got(q, "js"),
             UNCHANGED <<tree, cache>>, author' \in {author, "torn"}
      PROVE  Together'
  <2>1. author' = "whole" => author = "whole"
    BY <1>1
  <2>2. \A r \in Procs \ {p} :
          StillThere(proc[r]) /\ Beside(proc[r], "js") = None /\ author' = "whole" =>
            \A k \in Kept : Full(k, FirstBlock(proc[r]))'
    <3>1. ASSUME NEW r \in Procs \ {p} PROVE FirstBlock(proc[r])' = FirstBlock(proc[r])
      BY <1>0, <1>1 DEF FirstBlock, Types, TypeOK
    <3> QED BY <1>1, <2>1, <3>1 DEF StillThere, Full
  <2> QED BY <1>0, <1>1, <2>2, OneTogether DEF Stands
<1>2. CASE Launch(p) \/ Exit(p) \/ Kill(p) \/ Load(p)
  <2>1. PICK q : Starts(p, q) /\ proc' = [proc EXCEPT ![p] = q] /\ UNCHANGED <<tree, cache>>
    BY <1>0, <1>2, StartIs
  <2>2. ~Got(q, "js")
    BY <2>1, OffIs DEF Starts, IsDone, Got
  <2>3. author' \in {author, "torn"}
    BY <1>2 DEF Launch, Exit, Kill, Load
  <2> QED BY <1>1, <2>1, <2>2, <2>3
<1>3. CASE Find(p)
  <2>1. PICK q \in ProcState : /\ proc' = [proc EXCEPT ![p] = q] /\ proc[p].pc = "find"
                               /\ \/ q.pc = "read" /\ q.kind = proc[p].kind
                                  \/ q.pc = "find"
                                  \/ IsDone(q)
    BY <1>0, <1>3, FindIs
  <2>2. ~Got(q, "js")
    BY <1>0, <2>1 DEF Got, Begins, IsDone
  <2> QED BY <1>1, <1>3, <2>1, <2>2 DEF Find
<1>4. CASE Use(p) \/ Compile(p)
  <2>1. PICK q : /\ Decides(p, q) /\ proc' = [proc EXCEPT ![p] = q]
                 /\ UNCHANGED <<tree, cache, author>>
    BY <1>0, <1>4, DecideIs
  <2>2. ~Got(q, "js")
    BY <2>1 DEF Got, Decides, Writes, Ends, IsDone
  <2> QED BY <1>1, <2>1, <2>2
<1>5. CASE Read(p)
  <2>1. PICK q \in ProcState, x \in File \cup {None}, k \in Kinds, next \in Kinds \cup {None} :
          ReadTo(p, q, x, k, next)
    BY <1>0, <1>5, ReadIs
  <2>2. proc' = [proc EXCEPT ![p] = q] /\ UNCHANGED <<tree, cache, author>>
    BY <1>5, <2>1 DEF ReadTo, Read
  <2>3. Stands(q) => Agrees(q) /\ StillThere(q)
    BY <1>0, <2>1, ReadFirst, ReadRest
  <2>4. Stands(q) => (Agrees(q) /\ StillThere(q))'
    <3>1. \A l : Beside(q, l)' = Beside(q, l)
      BY <2>2 DEF Beside, Shown, First, Held
    <3>2. Agrees(q) => Agrees(q)'
      BY <3>1 DEF Agrees, FirstBlock, Got, Uniform, Blocks
    <3>3. StillThere(q) => StillThere(q)'
      BY <2>2, <3>1 DEF StillThere, FirstBlock, Full
    <3> QED BY <2>3, <3>2, <3>3
  <2>5. \A r \in Procs \ {p} :
          StillThere(proc[r]) /\ Beside(proc[r], "js") = None /\ author' = "whole" =>
            \A l \in Kept : Full(l, FirstBlock(proc[r]))'
    <3>1. ASSUME NEW r \in Procs \ {p} PROVE FirstBlock(proc[r])' = FirstBlock(proc[r])
      BY <1>0, <2>2 DEF FirstBlock, Types, TypeOK
    <3> QED BY <2>2, <3>1 DEF StillThere, Full
  <2> QED BY <1>0, <2>2, <2>4, <2>5, OneTogether
<1>6. CASE OpenFile(p) \/ WriteFile(p)
  <2>1. PICK q \in ProcState : /\ proc' = [proc EXCEPT ![p] = q] /\ proc[p].pc = "write"
                               /\ Writes(p, q) \/ Ends(p, q)
    BY <1>0, <1>6, OpenIs, WriteIs DEF OpenTo, WriteTo
  <2>2. ~Got(q, "js") /\ UNCHANGED tree /\ HasSource(p)
    BY <1>6, <2>1 DEF Writes, Ends, IsDone, Got, OpenFile, WriteFile, HasSource
  <2>3. PICK b : b = Compiled(p)
    OBVIOUS
  <2>4. author' = "whole" => \A l \in Kept : Full(l, b)'
    BY <1>0, <1>6, <2>3, OpenAuthored, WriteAuthored
  <2>5. ASSUME NEW r \in Procs \ {p}, Stands(proc[r]), Agrees(proc[r]),
               Beside(proc[r], "js") = None, author' = "whole"
        PROVE  \A k \in Kept : Full(k, FirstBlock(proc[r]))'
    <3>1. HasSource(r) /\ FirstBlock(proc[r]) = Compiled(r)
      BY <2>5 DEF Stands, Got, HasSource, Agrees, Compiled
    <3>2. FirstBlock(proc[r]) = b
      BY <1>0, <2>2, <2>3, <3>1, SameCompiled
    <3>3. FirstBlock(proc[r])' = b
      BY <1>0, <2>1, <3>2 DEF FirstBlock, Types, TypeOK
    <3> QED BY <2>4, <2>5, <3>3 DEF Full
  <2> QED BY <1>0, <2>1, <2>2, <2>5, OneTogether DEF Stands
<1> QED BY <1>2, <1>3, <1>4, <1>5, <1>6 DEF Step

LEMMA SameTogether ==
  ASSUME Together, UNCHANGED <<tree, cache, proc, author>>
  PROVE  Together'
<1> SUFFICES ASSUME NEW r \in Procs PROVE Joins(proc[r])'
  BY DEF Together
<1>1. PICK s : s = proc[r] /\ s = proc'[r]
  OBVIOUS
<1>2. Joins(s)
  BY <1>1 DEF Together
<1>3. \A k : Beside(s, k)' = Beside(s, k)
  BY DEF Beside, Shown, First, Held
<1>4. Agrees(s) => Agrees(s)'
  BY <1>3 DEF Agrees, FirstBlock, Got, Uniform, Blocks
<1>5. StillThere(s) => StillThere(s)'
  BY <1>3 DEF StillThere, FirstBlock, Full
<1>6. Joins(s)'
  BY <1>2, <1>4, <1>5 DEF Joins, Stands, Got, Valid
<1> QED BY <1>1, <1>6 DEF Joins, Stands, Got, Valid, Agrees, StillThere, FirstBlock, Beside, Full

LEMMA UsersWhole ==
  ASSUME Steady, CacheInv, WholeInv,
         (\E e \in Edited : Edit(e[1], e[2])) \/ (\E j \in Jars : Replace(j)) \/ Tick
  PROVE  WholeInv'
<1>0. /\ Types /\ tree \in [Holders -> Tree \cup {None}] /\ Kinds \subseteq Names
      /\ "cljs" \notin Kinds /\ "cljc" \notin Kinds /\ "js" \in Kinds
  BY DEF CacheInv, Shape, Types, TypeOK, Names, Kinds
<1>1. UNCHANGED <<cache, proc, author>>
  BY <1>0, EditIs, ReplaceIs DEF EditTo, ReplaceTo, Tick
<1>2. Authored'
  <2>1. Authored
    BY DEF WholeInv
  <2> QED BY <1>1, <2>1 DEF Authored, Full, Opened, Writing, Compiled
<1>3. Unread'
  BY <1>1 DEF WholeInv, Unread, Reads, Got
<1>4. CASE Tick
  <2>1. UNCHANGED tree
    BY <1>4 DEF Tick
  <2>2. ShippedWhole(tree)'
    BY <2>1 DEF WholeInv, ShippedWhole
  <2>3. Together'
    BY <1>1, <2>1, SameTogether DEF WholeInv
  <2> QED BY <1>2, <1>3, <2>2, <2>3 DEF WholeInv
<1>5. CASE \/ \E h \in Holders, name \in {"cljs", "cljc"}, f \in Made : EditTo(h, name, f)
           \/ \E j \in Jars, f \in Made : ReplaceTo(j, f)
  <2>1. \A p \in Procs : ~Loading(p)
    BY <1>5 DEF EditTo, ReplaceTo, Loading
  <2>2. Together'
    <3>1. \A p \in Procs : ~(proc'[p].pc \in {"read", "check"})
      BY <1>1, <2>1 DEF Loading
    <3> QED BY <3>1 DEF Together, Joins, Stands, Got
  <2>3. ShippedWhole(tree)'
    <3>1. ASSUME NEW h \in Holders, tree'[h] # None
          PROVE  \/ tree[h] # None /\ \A k \in Kinds : tree'[h][k] = tree[h][k]
                 \/ \A k \in Kinds : tree'[h][k] = None
      <4>1. ASSUME NEW g \in Holders, NEW name \in {"cljs", "cljc"}, NEW f \in Made, EditTo(g, name, f)
            PROVE  tree[h] # None /\ \A k \in Kinds : tree'[h][k] = tree[h][k]
        <5>1. tree' = [tree EXCEPT ![g] = [tree[g] EXCEPT ![name] = f]] /\ tree[g] \in Tree
          BY <4>1 DEF EditTo
        <5>2. CASE h # g
          BY <1>0, <3>1, <5>1, <5>2
        <5>3. CASE h = g
          <6>1. tree'[h] = [tree[h] EXCEPT ![name] = f] /\ tree[h] # None
            BY <1>0, <5>1, <5>3, CacheAssumption
          <6>2. \A k \in Kinds : tree'[h][k] = tree[h][k]
            BY <1>0, <4>1, <5>1, <5>3, <6>1 DEF Tree
          <6> QED BY <6>1, <6>2
        <5> QED BY <5>2, <5>3
      <4>2. ASSUME NEW j \in Jars, NEW f \in Made, ReplaceTo(j, f)
            PROVE  \/ tree[h] # None /\ \A k \in Kinds : tree'[h][k] = tree[h][k]
                   \/ \A k \in Kinds : tree'[h][k] = None
        <5>1. tree' = [tree EXCEPT ![j] = [name \in Names |-> IF name # "cljs" THEN None ELSE f]]
          BY <4>2 DEF ReplaceTo
        <5>2. CASE h # j
          BY <1>0, <3>1, <5>1, <5>2
        <5>3. CASE h = j
          BY <1>0, <5>1, <5>3
        <5> QED BY <5>2, <5>3
      <4> QED BY <1>5, <4>1, <4>2
    <3> QED BY <1>0, <3>1 DEF WholeInv, ShippedWhole
  <2> QED BY <1>2, <1>3, <2>2, <2>3 DEF WholeInv
<1> QED BY <1>0, <1>4, <1>5, EditIs, ReplaceIs

LEMMA InitWhole ==
  ASSUME AllShippedWhole, Init
  PROVE  WholeInv
<1>1. /\ \A p \in Procs : proc[p] = Off
      /\ Off.pc = "off" /\ \A k \in Kinds : Off.read[k] = None
  BY OffIs DEF Init, Off
<1>2. ShippedWhole(tree)
  BY DEF Init, AllShippedWhole
<1>3. Authored
  BY <1>1, CacheAssumption DEF Init, Authored, Opened, Writing, Kinds
<1>4. Unread /\ Together
  BY <1>1 DEF Unread, Reads, Together, Joins, Stands, Got
<1> QED BY <1>2, <1>3, <1>4 DEF WholeInv

LEMMA KeepsWhole ==
  ASSUME Steady, OneSetting, CacheInv, WholeInv, [Next]_vars
  PROVE  WholeInv'
<1>1. Shape /\ Types /\ Types'
  BY KeepsTypes DEF CacheInv, Shape
<1>2. ASSUME NEW p \in Procs, Launch(p) \/ Exit(p) \/ Kill(p) \/ Load(p) \/ Step(p)
      PROVE  WholeInv'
  <2>1. Authored' /\ Unread' /\ Together'
    BY <1>1, <1>2, StepAuthored, StepUnread, StepTogether DEF WholeInv
  <2>2. UNCHANGED tree
    BY <1>2 DEF Launch, Exit, Kill, Load, Step, Find, Read, Use, Compile, OpenFile, WriteFile
  <2>3. ShippedWhole(tree)'
    BY <2>2 DEF WholeInv, ShippedWhole
  <2> QED BY <2>1, <2>3 DEF WholeInv
<1>3. CASE UNCHANGED vars
  <2>1. UNCHANGED <<tree, cache, proc, author>>
    BY <1>3 DEF vars
  <2>2. Authored'
    BY <2>1 DEF WholeInv, Authored, Full, Opened, Writing, Compiled
  <2>3. Unread' /\ ShippedWhole(tree)'
    BY <2>1 DEF WholeInv, Unread, Reads, Got, ShippedWhole
  <2>4. Together'
    BY <2>1, SameTogether DEF WholeInv
  <2> QED BY <2>2, <2>3, <2>4 DEF WholeInv
<1> QED BY <1>2, <1>3, UsersWhole DEF Next

LEMMA InvBelongTogether ==
  ASSUME CacheInv, WholeInv
  PROVE  BelongTogether
<1> SUFFICES ASSUME NEW p \in Procs, Using(p), proc[p].calm
             PROVE  /\ ~Throws(p)
                    /\ \A k \in Needed(p) :
                         LET f == proc[p].read[k]
                         IN f # None /\ f.blocks = [i \in 1 .. Size[k] |-> proc[p].read["js"].blocks[1]]
  BY DEF BelongTogether
<1>1. /\ proc[p].pc = "check" /\ Reads(proc[p]) /\ Joins(proc[p])
      /\ Valid(proc[p].read["js"], proc[p].source, proc[p].opts)
  BY DEF Using, WholeInv, Unread, Together
<1>2. \A k \in Kinds : Got(proc[p], k) <=> k \in Needed(p)
  BY <1>1 DEF Got, Needed, Kinds
<1>3. Agrees(proc[p])
  BY <1>1 DEF Joins, Stands, Got
<1>4. ASSUME NEW k \in Needed(p)
      PROVE  /\ proc[p].read[k] # None
             /\ proc[p].read[k].blocks = Blocks(Size[k], FirstBlock(proc[p]))
             /\ Len(proc[p].read[k].blocks) = Size[k]
  <2>1. k \in Kinds
    BY DEF Needed
  <2>2. proc[p].read[k] # None /\ proc[p].read[k].blocks = Blocks(Size[k], FirstBlock(proc[p]))
    BY <1>2, <1>3, <2>1 DEF Agrees, Uniform
  <2>3. Size[k] \in Nat \ {0}
    BY <2>1, CacheAssumption
  <2> QED BY <2>2, <2>3, BlocksAre
<1>5. ~Throws(p)
  <2>1. ASSUME NEW k \in {"cache.json", "js.map.json"}, Cut(proc[p].read[k], k) PROVE FALSE
    <3>1. k \in Kinds /\ Size[k] \in Nat
      BY CacheAssumption DEF Kinds
    <3>2. proc[p].read[k] # None
      BY <2>1 DEF Cut
    <3>3. k \in Needed(p)
      BY <1>1, <1>2, <3>1, <3>2 DEF Reads
    <3> QED BY <1>4, <2>1, <3>1, <3>3 DEF Cut
  <2> QED BY <2>1 DEF Throws
<1> QED BY <1>4, <1>5 DEF Blocks, FirstBlock

(* Code, analysis and source map that are used are whole and come from one *)
(* compilation, if the cache was as one writer left it when they were read,*)
(* whoever writes or is killed meanwhile; for users as above, when all     *)
(* processes write source maps or none does.                               *)
THEOREM FilesBelong ==
  ASSUME Steady, AllShipped, AllShippedWhole, OneSetting
  PROVE  Spec => []BelongTogether
<1>1. Init => CacheInv /\ WholeInv
  BY InitInv, InitWhole
<1>2. (CacheInv /\ WholeInv) /\ [Next]_vars => (CacheInv /\ WholeInv)'
  BY KeepsInv, KeepsWhole
<1>3. CacheInv /\ WholeInv => BelongTogether
  BY InvBelongTogether
<1> QED BY <1>1, <1>2, <1>3, PTL DEF Spec
=============================================================================

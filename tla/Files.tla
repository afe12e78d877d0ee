------------------------------- MODULE Files --------------------------------
(***************************************************************************)
(* The files that a program works with by planck/io.cljs: writers, output  *)
(* streams and input streams (file.c and stdio under them), the copying of *)
(* files, and the copying of what the reader of module Reader reads.       *)
(*                                                                         *)
(* JavaScript runs one native call at a time, except that copy_file is a   *)
(* long call, between whose system calls others use the file system.       *)
(***************************************************************************)
EXTENDS Reader

CONSTANTS Programs,     (* what programs do: see program, below            *)
          Paths, Nodes, Addresses,
          NodeOf,       (* the nodes of files that are there at first ...  *)
          Contents,     (* ... and the texts they hold                     *)
          MaxStreams,   (* bound: the streams that are made                *)
          MaxFile,      (* bound: the length of a file                     *)
          StdioBuffer,  (* the characters that the buffer of a FILE holds  *)
          CopyBuffer,   (* the characters that copy_file_loop reads at once*)
          StaleUse,     (* TRUE: a stream is used after it was closed and  *)
                        (* its descriptor has become that of another one   *)
          OntoItself    (* TRUE: a file is copied to its own path          *)

ASSUME FilesAssumption ==
  /\ Programs \subseteq {"reads", "writes", "copies", "pours"}
  /\ Nil \notin Nodes /\ Closed \notin {"done", "failed"} /\ NodeOf \in [Paths -> Nodes]
  /\ \A p, q \in Paths : NodeOf[p] = NodeOf[q] => p = q
  /\ Contents \subseteq Text
  /\ MaxStreams \in Nat /\ MaxFile \in Nat
  /\ StdioBuffer \in Nat
  /\ CopyBuffer \in Nat \ {0}
  /\ StaleUse \in BOOLEAN /\ OntoItself \in BOOLEAN

VARIABLES program,    (* uses a reader, writes files, copies a file, or    *)
                      (* pours what a reader reads into a stream; or ended *)
          dir,        (* the file system: the node at a path, or Nil, ...  *)
          content,    (* ... and the text in a node                        *)
          heap,       (* the FILEs, by their addresses                     *)
          registered, (* open-file-*-descriptors, by kind of stream        *)
          stream,     (* the streams that were made, in that order         *)
          copy,       (* the call of copy that is under way                *)
          meant,      (* history: the texts that were written to a node    *)
          told        (* history: was the stream used last open, and what  *)
                      (* did it answer?                                    *)

disk == <<dir, content>>
table == <<heap, registered, stream>>
history == <<meant, told>>
fvars == <<program, disk, table, copy, history>>
allvars == <<vars, fvars>>

StreamKinds == {"writer", "output", "input"}
NoFILE == [open |-> FALSE, node |-> Nil, data |-> <<>>, pos |-> 0]
NoCopy == [pc |-> "idle", way |-> "file", from |-> Nil, to |-> Nil, source |-> Nil,
           target |-> Nil, again |-> FALSE, at |-> 0, left |-> <<>>, before |-> <<>>]

Taken == {dir[p] : p \in Paths} \cup {stream[i].node : i \in DOMAIN stream}
             \cup {copy.source, copy.target}

(* Its state is then never used. *)
MakesNoReader == /\ kind = CHOOSE k \in Kinds : TRUE
                 /\ limit = CHOOSE m \in Limits : TRUE
                 /\ source = CHOOSE s \in Sources : TRUE

FilesInit ==
  /\ Init
  /\ program \in Programs
  /\ program \in {"writes", "copies"} => MakesNoReader
  /\ \E there \in IF program \in {"reads", "pours"} THEN {{}} ELSE SUBSET Paths,
        text \in [Nodes -> Contents \cup {<<>>}] :
       /\ \A n \in Nodes : n \notin {NodeOf[p] : p \in there} => text[n] = <<>>
       /\ dir = [p \in Paths |-> IF p \in there THEN NodeOf[p] ELSE Nil]
       /\ content = text
  /\ heap = [a \in Addresses |-> NoFILE]
  /\ registered = [k \in StreamKinds |-> {}]
  /\ stream = <<>>
  /\ copy = NoCopy
  /\ meant = content
  /\ told = [was |-> "none", answer |-> Nil]
-----------------------------------------------------------------------------
(* Streams.  A stream is what make-writer, make-output-stream and          *)
(* make-input-stream return; at is its descriptor, the address of a FILE   *)
(* (or of the UFILE around it).  closed and dirty are history: -close was  *)
(* called; something was written that was not flushed since.               *)

Registered(h) == stream[h].at \in registered[stream[h].kind]

(* The descriptor is that of a stream of the same kind that is open. *)
Stale(h) == /\ stream[h].closed
            /\ \E g \in DOMAIN stream \ {h} : /\ stream[g].kind = stream[h].kind
                                              /\ stream[g].at = stream[h].at
                                              /\ ~stream[g].closed
MayUse(h) == Stale(h) => StaleUse

Told(h, a) == told' = [was |-> IF stream[h].closed THEN "closed" ELSE "open", answer |-> a]

(* A file has one writer at a time. *)
Writes(g, n) == stream[g].node = n /\ stream[g].kind # "input" /\ ~stream[g].closed

(* fopen *)
Fopen(a, n) == /\ ~heap[a].open
               /\ heap' = [heap EXCEPT ![a] = [NoFILE EXCEPT !.open = TRUE, !.node = n]]
Register(k, a, n) ==
  /\ registered' = [registered EXCEPT ![k] = @ \cup {a}]
  /\ stream' = Append(stream, [kind |-> k, at |-> a, node |-> n, closed |-> FALSE, dirty |-> FALSE])
  /\ told' = [was |-> "none", answer |-> Nil]

OpenInput(p, a) == /\ dir[p] # Nil
                   /\ Fopen(a, dir[p])
                   /\ Register("input", a, dir[p])
                   /\ UNCHANGED <<program, disk, copy, meant>>

(* Mode "w" makes the file, or empties it; mode "a" makes it, or leaves it *)
(* as it is.                                                               *)
Truncate(n, keep) == IF keep THEN UNCHANGED <<content, meant>>
                       ELSE /\ content' = [content EXCEPT ![n] = <<>>]
                            /\ meant' = [meant EXCEPT ![n] = <<>>]
OpenOutput(k, p, append, a) ==
  /\ \E n \in Nodes : /\ IF dir[p] = Nil THEN n \notin Taken ELSE n = dir[p]
                      /\ \A g \in DOMAIN stream : ~Writes(g, n)
                      /\ Fopen(a, n)
                      /\ Register(k, a, n)
                      /\ dir' = [dir EXCEPT ![p] = n]
                      /\ Truncate(n, append /\ dir[p] # Nil)
  /\ UNCHANGED <<program, copy>>

(* An fopen that fails makes the descriptor "0", for which                 *)
(* check-file-descriptor throws.                                           *)
OpenThrows == /\ told' = [was |-> "none", answer |-> "failed"]
              /\ UNCHANGED <<program, disk, table, copy, meant>>

(* fwrite, or u_file_write: some characters go to the file at once, and    *)
(* the buffer holds the others.                                            *)
Fwrite(a, s) ==
  LET data == heap[a].data \o s
  IN \E n \in 0 .. Len(data) :
       /\ Len(data) - n <= StdioBuffer
       /\ content' = [content EXCEPT ![heap[a].node] = @ \o SubSeq(data, 1, n)]
       /\ heap' = [heap EXCEPT ![a].data = Drop(data, n)]
Write(h, s) ==
  /\ stream[h].kind # "input"
  /\ MayUse(h)
  /\ IF Registered(h)
     THEN /\ Len(meant[stream[h].node]) + Len(s) <= MaxFile
          /\ Fwrite(stream[h].at, s)
          /\ meant' = [meant EXCEPT ![stream[h].node] = @ \o s]
          /\ stream' = [stream EXCEPT ![h].dirty = TRUE]
          /\ Told(h, "done")
     ELSE Told(h, Closed) /\ UNCHANGED <<content, heap, stream, meant>>
  /\ UNCHANGED <<dir, registered>>

(* fflush, which fclose does, too *)
Fflush(a) == content' = [content EXCEPT ![heap[a].node] = @ \o heap[a].data]
Flush(h) ==
  /\ stream[h].kind # "input"
  /\ MayUse(h)
  /\ IF Registered(h)
     THEN /\ Fflush(stream[h].at)
          /\ heap' = [heap EXCEPT ![stream[h].at].data = <<>>]
          /\ stream' = [stream EXCEPT ![h].dirty = FALSE]
          /\ Told(h, "done")
     ELSE Told(h, Closed) /\ UNCHANGED <<content, heap, stream>>
  /\ UNCHANGED <<program, dir, registered, copy, meant>>

(* file_read of the bytes that are next *)
UpTo(max, s) == IF Len(s) < max THEN Len(s) ELSE max
ReadBytes(h) ==
  /\ stream[h].kind = "input"
  /\ MayUse(h)
  /\ IF Registered(h)
     THEN LET a == stream[h].at
              n == UpTo(CopyBuffer, Drop(content[heap[a].node], heap[a].pos))
          IN heap' = [heap EXCEPT ![a].pos = @ + n] /\ Told(h, IF n = 0 THEN Nil ELSE "done")
     ELSE Told(h, Closed) /\ UNCHANGED heap
  /\ UNCHANGED <<program, disk, registered, stream, copy, meant>>

(* Mutations of CloseStream: the FILE is forgotten, but not closed; the    *)
(* descriptor stays registered.                                            *)
CloseStreamOnlyForgets(h) ==
  /\ MayUse(h)
  /\ Registered(h)
  /\ registered' = [registered EXCEPT ![stream[h].kind] = @ \ {stream[h].at}]
  /\ stream' = [stream EXCEPT ![h].closed = TRUE, ![h].dirty = FALSE]
  /\ told' = [was |-> "none", answer |-> Nil]
  /\ UNCHANGED <<program, disk, heap, copy, meant>>
CloseStreamKeeps(h) ==
  /\ MayUse(h)
  /\ Registered(h)
  /\ Fflush(stream[h].at)
  /\ heap' = [heap EXCEPT ![stream[h].at] = NoFILE]
  /\ stream' = [stream EXCEPT ![h].closed = TRUE, ![h].dirty = FALSE]
  /\ told' = [was |-> "none", answer |-> Nil]
  /\ UNCHANGED <<program, dir, registered, copy, meant>>

CloseStream(h) ==
  /\ MayUse(h)
  /\ IF Registered(h)
     THEN LET a == stream[h].at
          IN /\ registered' = [registered EXCEPT ![stream[h].kind] = @ \ {a}]
             /\ Fflush(a)
             /\ heap' = [heap EXCEPT ![a] = NoFILE]
     ELSE UNCHANGED <<content, heap, registered>>
  /\ stream' = [stream EXCEPT ![h].closed = TRUE, ![h].dirty = FALSE]
  /\ told' = [was |-> "none", answer |-> Nil]
  /\ UNCHANGED <<program, dir, copy, meant>>

(* exit flushes what is open; of the FILEs of a node, at most one is       *)
(* written to.                                                             *)
Unflushed(n) == {a \in Addresses : heap[a].node = n /\ heap[a].data # <<>>}
Waiting(n) == IF Unflushed(n) = {} THEN <<>> ELSE heap[CHOOSE a \in Unflushed(n) : TRUE].data
Exit ==
  /\ program' = "ended"
  /\ content' = [n \in Nodes |-> content[n] \o Waiting(n)]
  /\ heap' = [a \in Addresses |-> NoFILE]
  /\ stream' = <<>>
  /\ registered' = [k \in StreamKinds |-> {}]
  /\ UNCHANGED <<dir, copy, history>>
-----------------------------------------------------------------------------
(* copy of one File to another: copy_file_loop_unlinking.  Each system     *)
(* call may fail (CopyFails); before is history: the source's text when    *)
(* it was opened.                                                          *)
Step(c) == copy' = c /\ UNCHANGED <<program, table, history>>

CopyFile(p, q) ==
  /\ copy.pc = "idle"
  /\ p = q => OntoItself
  /\ Step([NoCopy EXCEPT !.pc = "open from", !.from = p, !.to = q])
  /\ UNCHANGED disk

OpenFrom ==
  /\ copy.pc = "open from"
  /\ dir[copy.from] # Nil
  /\ Step([copy EXCEPT !.pc = "open to", !.source = dir[copy.from], !.before = content[dir[copy.from]]])
  /\ UNCHANGED disk

(* O_CREAT | O_EXCL; for EEXIST it is tried again after unlink(to).        *)
OpenTo ==
  /\ copy.pc = "open to"
  /\ \/ /\ dir[copy.to] = Nil
        /\ \E n \in Nodes \ Taken :
             /\ dir' = [dir EXCEPT ![copy.to] = n]
             /\ content' = [content EXCEPT ![n] = <<>>]
             /\ Step([copy EXCEPT !.pc = "read", !.target = n])
     \/ /\ dir[copy.to] # Nil
        /\ Step([copy EXCEPT !.pc = IF copy.again THEN "failed" ELSE "unlink"])
        /\ UNCHANGED disk

Unlink ==
  /\ copy.pc = "unlink"
  /\ \/ /\ dir[copy.to] # Nil
        /\ dir' = [dir EXCEPT ![copy.to] = Nil]
        /\ Step([copy EXCEPT !.pc = "open from", !.again = TRUE])
     \/ /\ dir[copy.to] = Nil
        /\ Step([copy EXCEPT !.pc = "failed"])
        /\ UNCHANGED dir
  /\ UNCHANGED content

ReadSource ==
  /\ copy.pc = "read"
  /\ LET ahead == Drop(content[copy.source], copy.at)
         n == UpTo(CopyBuffer, ahead)
     IN Step([copy EXCEPT !.pc = IF n = 0 THEN "close" ELSE "write",
                          !.at = @ + n, !.left = SubSeq(ahead, 1, n)])
  /\ UNCHANGED disk

(* Mutation of WriteTarget: what a write did not take is forgotten. *)
WriteTargetOnce ==
  /\ copy.pc = "write"
  /\ \E n \in 1 .. Len(copy.left) :
       /\ content' = [content EXCEPT ![copy.target] = @ \o SubSeq(copy.left, 1, n)]
       /\ Step([copy EXCEPT !.pc = "read", !.left = <<>>])
  /\ UNCHANGED dir

(* write may take a part of what it is given. *)
WriteTarget ==
  /\ copy.pc = "write"
  /\ \E n \in 1 .. Len(copy.left) :
       /\ content' = [content EXCEPT ![copy.target] = @ \o SubSeq(copy.left, 1, n)]
       /\ Step([copy EXCEPT !.pc = IF n = Len(copy.left) THEN "read" ELSE "write",
                            !.left = Drop(@, n)])
  /\ UNCHANGED dir

CloseBoth == /\ copy.pc = "close"
             /\ Step([copy EXCEPT !.pc = "done"])
             /\ UNCHANGED disk

(* An error that is not EEXIST: the call returns -1, and copy throws.      *)
CopyFails == /\ copy.pc \in {"open from", "open to", "unlink", "read", "write", "close"}
             /\ Step([copy EXCEPT !.pc = "failed"])
             /\ UNCHANGED disk

CopyStep == OpenFrom \/ OpenTo \/ Unlink \/ ReadSource \/ WriteTarget \/ CloseBoth \/ CopyFails

(* Others use the file system meanwhile: the source grows, the target is   *)
(* made or removed.                                                        *)
Grows(p, c) == /\ dir[p] # Nil
               /\ p = copy.from
               /\ Len(content[dir[p]]) < MaxFile
               /\ content' = [content EXCEPT ![dir[p]] = Append(@, c)]
               /\ UNCHANGED <<program, dir, table, copy, history>>
Meddles(p) == /\ p # copy.from /\ copy.from # Nil
              /\ IF dir[p] = Nil
                 THEN \E n \in Nodes \ Taken : /\ dir' = [dir EXCEPT ![p] = n]
                                               /\ content' = [content EXCEPT ![n] = <<>>]
                 ELSE dir' = [dir EXCEPT ![p] = Nil] /\ UNCHANGED content
              /\ UNCHANGED <<program, table, copy, history>>
-----------------------------------------------------------------------------
(* copy of a Reader to a Writer, which writes piece by piece, or to an     *)
(* OutputStream: the Reader is then slurped, which closes it (though copy  *)
(* "does not close any streams except those it opens itself"), and the     *)
(* text written.  The stream is the first that was made.  before is        *)
(* history: what there was to read, with what came to it.                  *)
Pour == /\ copy.pc = "idle" /\ pc = "idle"
        /\ stream # <<>> /\ ~stream[1].closed
        /\ copy' = [NoCopy EXCEPT !.pc = "pour", !.way = stream[1].kind, !.before = Rest]
        /\ UNCHANGED <<vars, program, disk, table, history>>

PourRead ==
  /\ copy.pc = "pour"
  /\ Read
  /\ \/ /\ answer' \in Text
        /\ copy' = [copy EXCEPT !.pc = IF copy.way = "writer" THEN "put" ELSE "pour",
                                !.left = @ \o answer']
     \/ /\ answer' = Nil
        /\ copy' = [copy EXCEPT !.pc = IF copy.way = "writer" THEN "done" ELSE "close"]
     \/ /\ answer' = Closed
        /\ copy' = [copy EXCEPT !.pc = IF copy.way = "writer" THEN "failed" ELSE "finally"]
  /\ UNCHANGED <<program, disk, table, history>>

(* with-open of slurp *)
SlurpCloses ==
  /\ copy.pc \in {"close", "finally"}
  /\ Close
  /\ copy' = [copy EXCEPT !.pc = IF copy.pc = "close" THEN "put" ELSE "failed"]
  /\ UNCHANGED <<program, disk, table, history>>

PourWrite ==
  /\ copy.pc = "put"
  /\ Write(1, copy.left)
  /\ copy' = [copy EXCEPT !.pc = IF copy.way = "writer" THEN "pour" ELSE "done", !.left = <<>>]
  /\ UNCHANGED <<vars, program>>

(* The file that is read grows. *)
SourceGrows(c) ==
  /\ copy.pc \in {"pour", "put"}
  /\ Len(copy.before) < MaxFile
  /\ Append1(c)
  /\ copy' = IF open THEN [copy EXCEPT !.before = Append(@, c)] ELSE copy
  /\ UNCHANGED <<program, disk, table, history>>
-----------------------------------------------------------------------------
UseStream ==
  \/ \E p \in Paths, a \in Addresses : \/ OpenInput(p, a)
                                       \/ \E k \in {"writer", "output"}, append \in BOOLEAN :
                                            OpenOutput(k, p, append, a)
  \/ \E h \in DOMAIN stream : \/ \E s \in Pushable : Write(h, s) /\ UNCHANGED <<program, copy>>
                              \/ Flush(h) \/ ReadBytes(h) \/ CloseStream(h)
  \/ OpenThrows
  \/ Exit

CopyFiles == \/ \E p, q \in Paths : CopyFile(p, q)
             \/ CopyStep
             \/ \E p \in Paths : Meddles(p) \/ \E c \in Chars : Grows(p, c)

PourStep == PourRead \/ SlurpCloses \/ PourWrite \/ \E c \in Chars : SourceGrows(c)

(* Bound: what a program that pours does with the reader before. *)
MayRead == asked = "none" \/ pc = "line"

FilesNext ==
  \/ program = "reads" /\ Next /\ UNCHANGED fvars
  \/ program = "writes" /\ UseStream /\ Len(stream') <= MaxStreams /\ UNCHANGED vars
  \/ program = "copies" /\ CopyFiles /\ UNCHANGED vars
  \/ program = "pours" /\ \/ /\ stream = <<>> /\ UNCHANGED vars
                             /\ \E p \in Paths, k \in {"writer", "output"}, a \in Addresses :
                                  OpenOutput(k, p, FALSE, a)
                          \/ Next /\ copy.pc = "idle" /\ stream # <<>> /\ MayRead /\ UNCHANGED fvars
                          \/ Pour \/ PourStep

FilesSpec == FilesInit /\ [][FilesNext]_allvars
-----------------------------------------------------------------------------
(* What is written to a stream gets into the file it was opened for, in    *)
(* order and whole, or waits in the stream's own buffer, also while other  *)
(* streams are opened and closed and use its descriptor before or after    *)
(* it; flushed, closed or at the end of the process, all of it is there.   *)
WrittenIsKept ==
  program # "copies" =>
    \A n \in Nodes :
      /\ \/ Unflushed(n) = {} /\ content[n] = meant[n]
         \/ \E a \in Addresses : Unflushed(n) = {a} /\ content[n] \o heap[a].data = meant[n]
      /\ Unflushed(n) # {} => \E h \in DOMAIN stream : stream[h].node = n /\ stream[h].dirty

(* io_test.cljs:98 and 104, CHANGELOG.md:752 ("Throw if using closed       *)
(* file."): a stream that was closed throws "File closed.", however often  *)
(* it is closed or used, and one that is open does not.  It supposes that  *)
(* closed streams are not used any more once their descriptor is that of   *)
(* another stream (StaleUse): they would write to it, or close it.         *)
ClosedIsRefused == /\ told.was = "closed" => told.answer = Closed
                   /\ told.was = "open" => told.answer # Closed

(* A copy that returned has written the text of its source, and left the   *)
(* source as it was, whatever was at the target; a copy that failed has    *)
(* left the source, too.  It supposes that a file is not copied to its own *)
(* path (OntoItself): the file is then unlinked before it is read.         *)
CopiesAreWhole ==
  /\ program = "copies" /\ copy.source # Nil =>
       /\ dir[copy.from] = copy.source
       /\ \E n \in 0 .. Len(content[copy.source]) :
            content[copy.source] = copy.before \o Drop(content[copy.source], n)
  /\ program = "copies" /\ copy.target # Nil =>
       content[copy.target] \o copy.left = SubSeq(content[copy.source], 1, copy.at)
  /\ copy.pc = "done" /\ copy.way = "file" =>
       Len(content[copy.target]) >= Len(copy.before)
  /\ copy.pc = "done" /\ copy.way # "file" => meant[stream[1].node] = copy.before
=============================================================================

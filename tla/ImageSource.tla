----------------------------- MODULE ImageSource -----------------------------
(***************************************************************************)
(* libisofs/fs_image.c and data_source.c: the filesystem of a loaded image *)
(* and its file sources.                                                   *)
(*                                                                         *)
(* A source keeps a reference to the filesystem and, once it was handed    *)
(* out by readdir, to its directory.  An open regular file keeps the data  *)
(* source open; an open directory keeps the list of children which was     *)
(* read when it was opened.  Any block may turn out to be unreadable.      *)
(*                                                                         *)
(* Byte u of block b is <<b, u>>.  heap holds what is allocated:           *)
(*   src      sources by number                                            *)
(*   fsrefs   references to the filesystem, 0 when it is disposed          *)
(*   open     open_count of the filesystem                                 *)
(*   dsOpen   the data source is open                                      *)
(***************************************************************************)
EXTENDS RrRead, FiniteSets, TLC

CONSTANTS
  Images,     \* images: settings, disk, root block, files that readdir shall show
  MaxSrc,     \* sources that exist at the same time
  Bs,         \* bytes of a block of file data, 2048 in the code
  DirBs,      \* length units of a directory block
  Counts,     \* byte counts of ifs_read()
  Offsets,    \* offsets of ifs_lseek()
  Paths       \* paths of ifs_get_by_path()

ASSUME SourceAssumption == MaxSrc \in Nat \ {0} /\ Bs \in Nat \ {0} /\ DirBs \in Nat \ {0}

VARIABLES
  img,        \* the image
  heap,
  app,        \* references held by the application: per source, filesystem, open calls
  job,        \* directory being read, and on whose behalf
  last,       \* outcome of the last read
  dirty,      \* sources with a failed ifs_lseek() since the last successful one
  spoiled,    \* directories of which ifs_open() failed
  lost        \* open calls lost by ifs_get_by_path()

isVars == <<img, heap, app, job, last, dirty, spoiled, lost>>

Ids  == 1..MaxSrc
Free == [refs |-> 0, opened |-> 0, off |-> 0, buf |-> 0, parent |-> 0, kids |-> <<>>, f |-> Blank]
NoWalk == [pc |-> "idle", dir |-> 0, block |-> 0, idx |-> 0, pend |-> Blank, path |-> <<>>, by |-> "app"]
NoRead == [data |-> <<>>, want |-> <<>>, ret |-> 0, short |-> FALSE]
Live(h)    == {s \in Ids : h.src[s].refs > 0}
Unused(h)  == CHOOSE s \in Ids : h.src[s].refs = 0 /\ \A t \in Ids : h.src[t].refs = 0 => s <= t
Room(h)    == \E s \in Ids : h.src[s].refs = 0

-----------------------------------------------------------------------------
(* Filesystem and references.                                               *)

\* ifs_fs_open(): the first open opens the data source, which may fail.
ifs_fs_open(h, ok) ==
  IF h.open = 0 /\ ~ok THEN {} ELSE {[h EXCEPT !.open = @ + 1, !.dsOpen = TRUE]}

\* ifs_fs_close().
ifs_fs_close(h) == [h EXCEPT !.open = @ - 1, !.dsOpen = IF h.open = 1 THEN FALSE ELSE @]

\* ifs_fs_free() by the last reference.
iso_filesystem_unref(h) ==
  [h EXCEPT !.fsrefs = @ - 1, !.dsOpen = IF h.fsrefs = 1 /\ h.open > 0 THEN FALSE ELSE @]

\* iso_file_source_unref(), ifs_free(), ifs_close() and child_list_free():
\* disposal closes the source, which drops the unread children of a directory,
\* and gives up the references to filesystem and parent.
RECURSIVE iso_file_source_unref(_, _)
RECURSIVE child_list_free(_, _)
\* Mutant: closing a file leaves the filesystem open.
CloseKeepsFs(h, s) ==
  CASE h.src[s].opened = 2 -> child_list_free([h EXCEPT !.src[s].opened = 0, !.src[s].kids = <<>>], h.src[s].kids)
    [] OTHER               -> [h EXCEPT !.src[s].opened = 0, !.src[s].buf = 0, !.src[s].off = 0]
ifs_close(h, s) ==
  CASE h.src[s].opened = 2 -> child_list_free([h EXCEPT !.src[s].opened = 0, !.src[s].kids = <<>>], h.src[s].kids)
    [] h.src[s].opened = 1 -> ifs_fs_close([h EXCEPT !.src[s].opened = 0, !.src[s].buf = 0, !.src[s].off = 0])
    [] OTHER               -> h
child_list_free(h, kids) ==
  IF kids = <<>> THEN h ELSE child_list_free(iso_file_source_unref(h, Head(kids)), Tail(kids))
ifs_free(h, s) ==
  LET c == ifs_close(h, s)
      d == iso_filesystem_unref([c EXCEPT !.src[s] = Free])
  IN IF h.src[s].parent # 0 THEN iso_file_source_unref(d, h.src[s].parent) ELSE d
iso_file_source_unref(h, s) ==
  IF h.src[s].refs > 1 THEN [h EXCEPT !.src[s].refs = @ - 1] ELSE ifs_free(h, s)

\* A source for a parsed record: reference of its own, and one to the filesystem.
NewSource(h, f) ==
  [h EXCEPT !.src[Unused(h)] = [Free EXCEPT !.refs = 1, !.f = f], !.fsrefs = @ + 1]

Bytes(secs) == FoldLeft(LAMBDA n, c : n + c.size, 0, secs)

-----------------------------------------------------------------------------
(* Opening, reading directories.                                            *)

Run(h, j) == heap' = h /\ job' = j
Keep == last' = NoRead /\ UNCHANGED <<img, dirty>>

\* ifs_get_root(): opens the filesystem while it reads the root record.
GetRoot(h, bad) ==
  iso_file_source_new_ifs(img.set, img.disk, img.disk.dir[img.root][1], Blank, TRUE, FALSE, bad)

ifs_get_root(ok, bad) ==
  /\ job.pc = "idle" /\ app.fs > 0 /\ Room(heap)
  /\ \/ ifs_fs_open(heap, ok) = {} /\ UNCHANGED <<heap, app>>
     \/ \E h \in ifs_fs_open(heap, ok) :
          \E r \in {IF img.root \in bad THEN Res(-1, Blank) ELSE GetRoot(h, bad)} :
            IF r.ret = 1
            THEN /\ heap' = ifs_fs_close(NewSource(h, r.src))
                 /\ app' = [app EXCEPT !.src[Unused(h)] = 1]
            ELSE heap' = ifs_fs_close(h) /\ UNCHANGED app
  /\ UNCHANGED <<job, spoiled, lost>> /\ Keep

\* ifs_open() of a directory: read_dir() gets its first block.
OpenDir(h, s, j, ok, bad) ==
  IF ifs_fs_open(h, ok) = {} THEN Run(h, [j EXCEPT !.pc = "failed"])
  ELSE LET g == CHOOSE g \in ifs_fs_open(h, ok) : TRUE
           b == h.src[s].f.secs[1].block
       IN IF b \in bad THEN Run(ifs_fs_close(g), [j EXCEPT !.pc = "failed"])
          ELSE Run(g, [j EXCEPT !.pc = "dir", !.dir = s, !.block = b, !.idx = 3])

IfsOpenDir(s, ok, bad) ==
  /\ job.pc = "idle" /\ app.src[s] > 0 /\ s \notin spoiled
  /\ heap.src[s].opened = 0 /\ heap.src[s].f.mode = "dir"
  /\ OpenDir(heap, s, [NoWalk EXCEPT !.dir = s], ok, bad)
  /\ UNCHANGED <<app, spoiled, lost>> /\ Keep

\* ifs_open() of a regular file.
IfsOpenFile(s, ok) ==
  /\ job.pc = "idle" /\ app.src[s] > 0
  /\ heap.src[s].opened = 0 /\ heap.src[s].f.mode = "file"
  /\ \E h \in ifs_fs_open(heap, ok) :
       heap' = [h EXCEPT !.src[s].opened = 1, !.src[s].off = 0, !.src[s].buf = 0]
  /\ UNCHANGED <<app, job, spoiled, lost>> /\ Keep

\* read_dir(): the position in the directory and its end, which the first
\* record tells.
DirSize(d) == img.disk.dir[heap.src[d].f.secs[1].block][1].sec.size
Records(b) == IF b \in DOMAIN img.disk.dir THEN img.disk.dir[b] ELSE <<>>
PosIn(b, i) == FoldLeft(LAMBDA n, r : n + r.len, 0, SubSeq(Records(b), 1, i - 1))
DirPos(d) == (job.block - heap.src[d].f.secs[1].block) * DirBs + PosIn(job.block, job.idx)

\* read_dir() fails: the children read so far are disposed, but data.content
\* still points to them.
DirFails(h) ==
  Run(ifs_fs_close(child_list_free([h EXCEPT !.src[job.dir].kids = <<>>], h.src[job.dir].kids)),
      [job EXCEPT !.pc = "failed", !.pend = Blank])

\* At the end of a block the next one is read, also behind the directory's
\* last block if that is not full.
ReadDirBlock(bad) ==
  /\ job.pc = "dir" /\ DirPos(job.dir) < DirSize(job.dir)
  /\ job.idx > Len(Records(job.block))
  /\ IF job.block + 1 \in bad THEN DirFails(heap)
     ELSE Run(heap, [job EXCEPT !.block = @ + 1, !.idx = 1])
  /\ UNCHANGED <<app, spoiled, lost>> /\ Keep

\* A record becomes a child, is skipped, or is the first part of one.
ReadDirRecord(bad) ==
  /\ job.pc = "dir" /\ DirPos(job.dir) < DirSize(job.dir)
  /\ job.idx <= Len(Records(job.block)) /\ Room(heap)
  /\ \E r \in {iso_file_source_new_ifs(img.set, img.disk, Records(job.block)[job.idx], job.pend, FALSE, FALSE, bad)} :
       CASE r.ret < 0 -> DirFails(heap)
         [] r.ret = 1 -> Run([NewSource(heap, r.src) EXCEPT !.src[job.dir].kids = <<Unused(heap)>> \o @],
                             [job EXCEPT !.idx = @ + 1, !.pend = Blank])
         [] OTHER     -> Run(heap, [job EXCEPT !.idx = @ + 1, !.pend = r.src])
  /\ UNCHANGED <<app, spoiled, lost>> /\ Keep

ReadDirDone ==
  /\ job.pc = "dir" /\ DirPos(job.dir) >= DirSize(job.dir)
  /\ Run(ifs_fs_close([heap EXCEPT !.src[job.dir].opened = 2]), [job EXCEPT !.pc = "opened"])
  /\ UNCHANGED <<app, spoiled, lost>> /\ Keep

\* ifs_open() returns to the application.
IfsOpenReturns ==
  /\ job.pc \in {"opened", "failed"} /\ job.by = "app"
  /\ spoiled' = IF job.pc = "failed" THEN spoiled \union {job.dir} ELSE spoiled
  /\ job' = NoWalk
  /\ UNCHANGED <<heap, app, lost>> /\ Keep

\* Mutant: the child keeps no reference to its directory.
ReaddirNoRef(h, s) ==
  LET c == Head(h.src[s].kids) IN [h EXCEPT !.src[c].parent = s, !.src[s].kids = Tail(@)]

\* ifs_readdir(): the next child leaves the list and gets its parent.
Readdir(h, s) ==
  LET c == Head(h.src[s].kids)
  IN [h EXCEPT !.src[c].parent = s, !.src[s].kids = Tail(@), !.src[s].refs = @ + 1]

ifs_readdir(s) ==
  /\ job.pc = "idle" /\ app.src[s] > 0 /\ heap.src[s].opened = 2 /\ heap.src[s].kids # <<>>
  /\ heap' = Readdir(heap, s)
  /\ app' = [app EXCEPT !.src[Head(heap.src[s].kids)] = 1]
  /\ UNCHANGED <<job, spoiled, lost>> /\ Keep

-----------------------------------------------------------------------------
(* Data of regular files.                                                   *)

\* block_from_offset(), size_available() and block_offset(): the section in
\* which an offset lies, the block, the place in it, and the bytes up to the
\* end of block or section.
SectionStart(secs, i) == Bytes(SubSeq(secs, 1, i - 1))
SectionOf(secs, off) == {i \in DOMAIN secs : SectionStart(secs, i) <= off /\ off < SectionStart(secs, i) + secs[i].size}
block_from_offset(secs, off) ==
  IF SectionOf(secs, off) = {} THEN 0
  ELSE LET i == CHOOSE i \in SectionOf(secs, off) : TRUE
       IN secs[i].block + (off - SectionStart(secs, i)) \div Bs
block_offset(secs, off) ==
  IF SectionOf(secs, off) = {} THEN 0
  ELSE LET i == CHOOSE i \in SectionOf(secs, off) : TRUE IN (off - SectionStart(secs, i)) % Bs
\* Mutant: the end of the section is not regarded.
AvailableInBlock(secs, off) == Bs - block_offset(secs, off)
size_available(secs, off) ==
  IF SectionOf(secs, off) = {} THEN 0
  ELSE LET i == CHOOSE i \in SectionOf(secs, off) : TRUE
           o == off - SectionStart(secs, i)
       IN IF secs[i].size - o < Bs - (o % Bs) THEN secs[i].size - o ELSE Bs - (o % Bs)

\* ifs_read(): a block is read when the offset is at its start; else the bytes
\* come from the block read before.
RECURSIVE ReadLoop(_, _, _, _)
ReadLoop(x, n, data, bad) ==
  LET secs == x.f.secs
      o    == block_offset(secs, x.off)
      b    == IF o = 0 THEN block_from_offset(secs, x.off) ELSE x.buf
      left == IF size_available(secs, x.off) < n THEN size_available(secs, x.off) ELSE n
      k    == IF x.off + left > Bytes(secs) THEN Bytes(secs) - x.off ELSE left
  IN CASE n = 0 \/ x.off >= Bytes(secs) -> [x |-> x, data |-> data, ret |-> Len(data)]
       [] n > 0 /\ x.off < Bytes(secs) /\ o = 0 /\ b \in bad ->
            [x |-> [x EXCEPT !.buf = 0], data |-> data, ret |-> -1]
       [] OTHER -> ReadLoop([x EXCEPT !.buf = b, !.off = @ + k], n - k,
                            data \o [i \in 1..k |-> <<b, o + i - 1>>], bad)

\* The content of a file by the definition of sections.
ContentOf(secs) ==
  FlattenSeq([i \in DOMAIN secs |-> [j \in 1..secs[i].size |->
                 <<secs[i].block + (j - 1) \div Bs, (j - 1) % Bs>>]])

ifs_read(s, n, bad) ==
  /\ job.pc = "idle" /\ app.src[s] > 0 /\ heap.src[s].opened = 1
  /\ \E r \in {ReadLoop(heap.src[s], n, <<>>, bad)} :
       /\ heap' = [heap EXCEPT !.src[s] = r.x]
       /\ last' = IF s \in dirty THEN NoRead
                  ELSE [data |-> r.data, ret |-> r.ret,
                        want |-> SubSeq(ContentOf(r.x.f.secs), heap.src[s].off + 1, heap.src[s].off + Len(r.data)),
                        short |-> r.ret >= 0 /\ Len(r.data) < n /\ r.x.off < Bytes(r.x.f.secs)]
  /\ UNCHANGED <<img, app, job, dirty, spoiled, lost>>

\* ifs_lseek(): inside a block it reads the block.  If that fails, then the
\* offset is already changed.
ifs_lseek(s, n, whence, bad) ==
  /\ job.pc = "idle" /\ app.src[s] > 0 /\ heap.src[s].opened = 1
  /\ \E x \in {heap.src[s]} :
     \E off \in {n + (CASE whence = 0 -> 0 [] whence = 1 -> x.off [] OTHER -> Bytes(x.f.secs))} :
       /\ off <= Bytes(x.f.secs) + Bs          \* bound
       /\ LET b == block_from_offset(x.f.secs, off)
              needs == block_offset(x.f.secs, off) # 0 /\ off < Bytes(x.f.secs)
          IN /\ heap' = [heap EXCEPT !.src[s].off = off,
                                     !.src[s].buf = IF ~needs THEN @ ELSE IF b \in bad THEN 0 ELSE b]
             /\ dirty' = IF needs /\ b \in bad THEN dirty \union {s} ELSE dirty \ {s}
  /\ last' = NoRead
  /\ UNCHANGED <<img, app, job, spoiled, lost>>

-----------------------------------------------------------------------------
(* References of the application.                                           *)

AppClose(s) ==
  /\ job.pc = "idle" /\ app.src[s] > 0 /\ heap.src[s].opened # 0
  /\ heap' = ifs_close(heap, s)
  /\ dirty' = dirty \ {s} /\ last' = NoRead
  /\ UNCHANGED <<img, app, job, spoiled, lost>>

AppUnref(s) ==
  /\ job.pc = "idle" /\ app.src[s] > 0
  /\ heap' = iso_file_source_unref(heap, s)
  /\ app' = [app EXCEPT !.src[s] = @ - 1]
  /\ spoiled' = spoiled \intersect Live(heap') /\ dirty' = dirty \intersect Live(heap') /\ last' = NoRead
  /\ UNCHANGED <<img, job, lost>>

AppUnrefFs ==
  /\ job.pc = "idle" /\ app.fs > 0 /\ app.open = 0
  /\ heap' = iso_filesystem_unref(heap) /\ app' = [app EXCEPT !.fs = @ - 1]
  /\ UNCHANGED <<job, spoiled, lost>> /\ Keep

\* Open and close of the filesystem, as the import does around its work.
AppFsOpen(ok) ==
  /\ job.pc = "idle" /\ app.fs > 0 /\ app.open = 0
  /\ \E h \in ifs_fs_open(heap, ok) : heap' = h
  /\ app' = [app EXCEPT !.open = 1]
  /\ UNCHANGED <<job, spoiled, lost>> /\ Keep

AppFsClose ==
  /\ job.pc = "idle" /\ app.fs > 0 /\ app.open = 1
  /\ heap' = ifs_fs_close(heap) /\ app' = [app EXCEPT !.open = 0]
  /\ UNCHANGED <<job, spoiled, lost>> /\ Keep

\* ifs_clone_src().  The code copies the flag opened without buffer or children
\* and cannot copy a source without name or parent; only closed children are cloned.
ifs_clone_src(s) ==
  /\ job.pc = "idle" /\ app.src[s] > 0 /\ Room(heap)
  /\ heap.src[s].opened = 0 /\ heap.src[s].parent # 0 /\ heap.src[s].f.name # <<>>
  /\ heap' = [NewSource(heap, heap.src[s].f) EXCEPT !.src[heap.src[s].parent].refs = @ + 1,
                                                     !.src[Unused(heap)].parent = heap.src[s].parent]
  /\ app' = [app EXCEPT !.src[Unused(heap)] = 1]
  /\ UNCHANGED <<job, spoiled, lost>> /\ Keep

-----------------------------------------------------------------------------
(* ifs_get_by_path().                                                       *)

\* The walk begins with filesystem open and root source.  If the root cannot be
\* had, then the filesystem stays open.
ifs_get_by_path(path, ok, bad) ==
  /\ job.pc = "idle" /\ app.fs > 0 /\ Room(heap) /\ lost = 0
  /\ \E h \in ifs_fs_open(heap, ok) :
     \E r \in {IF img.root \in bad THEN Res(-1, Blank) ELSE GetRoot(h, bad)} :
       CASE r.ret # 1 -> heap' = h /\ lost' = lost + 1 /\ UNCHANGED <<app, job>>
         [] r.ret = 1 /\ path = <<>> ->
              /\ heap' = ifs_fs_close(NewSource(h, r.src))
              /\ app' = [app EXCEPT !.src[Unused(h)] = 1]
              /\ UNCHANGED <<job, lost>>
         [] OTHER -> /\ Run(NewSource(h, r.src), [NoWalk EXCEPT !.pc = "walk", !.by = "path",
                                                             !.dir = Unused(h), !.path = path])
                     /\ UNCHANGED <<app, lost>>
  /\ UNCHANGED spoiled /\ Keep

\* A component is looked up by ifs_get_file(), which opens the directory.
WalkOpen(ok, bad) ==
  /\ job.pc = "walk" /\ heap.src[job.dir].f.mode = "dir"
  /\ OpenDir(heap, job.dir, job, ok, bad)
  /\ UNCHANGED <<app, spoiled, lost>> /\ Keep

\* ... and takes children until the name matches.
RECURSIVE Pick(_, _, _)
Pick(h, d, name) ==
  IF h.src[d].kids = <<>> THEN [h |-> h, c |-> 0]
  ELSE LET c == Head(h.src[d].kids)
       IN IF h.src[c].f.name = name THEN [h |-> Readdir(h, d), c |-> c]
          ELSE Pick(iso_file_source_unref(Readdir(h, d), c), d, name)

WalkPick ==
  /\ job.pc = "opened" /\ job.by = "path"
  /\ \E p \in {Pick(heap, job.dir, Head(job.path))} :
     \E h \in {iso_file_source_unref(ifs_close(p.h, job.dir), job.dir)} :
       CASE p.c = 0 -> Run(ifs_fs_close(h), NoWalk) /\ UNCHANGED app
         [] p.c # 0 /\ Len(job.path) = 1 ->
              Run(ifs_fs_close(h), NoWalk) /\ app' = [app EXCEPT !.src[p.c] = 1]
         [] OTHER -> /\ Run(h, [NoWalk EXCEPT !.pc = "walk", !.by = "path", !.dir = p.c, !.path = Tail(job.path)])
                     /\ UNCHANGED app
  /\ UNCHANGED <<spoiled, lost>> /\ Keep

\* The walk ends at a file that is no directory or cannot be opened.
WalkFails ==
  /\ \/ job.pc = "walk" /\ heap.src[job.dir].f.mode # "dir"
     \/ job.pc = "failed" /\ job.by = "path"
  /\ Run(ifs_fs_close(iso_file_source_unref(heap, job.dir)), NoWalk)
  /\ UNCHANGED <<app, spoiled, lost>> /\ Keep

-----------------------------------------------------------------------------

\* At most one of the blocks that a call may read is unreadable.
Areas == DOMAIN img.disk.ca
DataBlocks(s) == {x[1] : x \in ToSet(ContentOf(heap.src[s].f.secs))}
Faults(blocks) == {{}} \union {{b} : b \in blocks}

IsInit ==
  /\ img \in Images
  /\ heap = [src |-> [s \in Ids |-> Free], fsrefs |-> 1, open |-> 0, dsOpen |-> FALSE]
  /\ app = [src |-> [s \in Ids |-> 0], fs |-> 1, open |-> 0]
  /\ job = NoWalk /\ last = NoRead /\ dirty = {} /\ spoiled = {} /\ lost = 0

IsNext ==
  \/ \E ok \in BOOLEAN : \E bad \in Faults({img.root} \union Areas) :
        \/ ifs_get_root(ok, bad)
        \/ \E p \in Paths : ifs_get_by_path(p, ok, bad)
  \/ \E ok \in BOOLEAN : \E s \in Live(heap) : \E bad \in Faults({heap.src[s].f.secs[1].block}) :
        IfsOpenDir(s, ok, bad) \/ (s = job.dir /\ WalkOpen(ok, bad))
  \/ \E bad \in Faults({job.block + 1}) : ReadDirBlock(bad)
  \/ \E bad \in Faults(Areas \union DOMAIN img.disk.dir) : ReadDirRecord(bad)
  \/ ReadDirDone \/ IfsOpenReturns \/ WalkPick \/ WalkFails
  \/ \E s \in Ids :
        \/ \E ok \in BOOLEAN : IfsOpenFile(s, ok)
        \/ ifs_readdir(s) \/ AppClose(s) \/ AppUnref(s) \/ ifs_clone_src(s)
        \/ \E n \in Counts, bad \in Faults(DataBlocks(s)) : ifs_read(s, n, bad)
        \/ \E n \in Offsets, w \in 0..2, bad \in Faults(DataBlocks(s)) : ifs_lseek(s, n, w, bad)
  \/ AppUnrefFs \/ AppFsClose
  \/ \E ok \in BOOLEAN : AppFsOpen(ok)

IsSpec == IsInit /\ [][IsNext]_isVars

-----------------------------------------------------------------------------

Indicator(p) == IF p THEN 1 ELSE 0
InList(s) == Cardinality({d \in Live(heap) : \E i \in DOMAIN heap.src[d].kids : heap.src[d].kids[i] = s})

\* Each source has exactly the references which the application, its handed
\* out children, a list of children and the path walk hold; the filesystem the
\* ones of its sources and of the application.  So nothing is disposed too
\* early or never, whatever fails on the way (iso_file_source_unref(),
\* ifs_readdir(), ifs_clone_src(), read_dir()).
SourceReferences ==
  /\ \A s \in Ids :
       heap.src[s].refs = app.src[s] + Cardinality({c \in Live(heap) : heap.src[c].parent = s}) + InList(s)
                          + Indicator(job.by = "path" /\ job.dir = s)
  /\ heap.fsrefs = app.fs + Cardinality(Live(heap))

\* The data source is open exactly while somebody needs it: open files, a
\* directory being read, a path walk, and the application's own bracket
\* (ifs_fs_open(), ifs_fs_close(), ds_open(), ds_close()).  The only exception is
\* the open count which ifs_get_by_path() loses when it gets no root.
OpenCountBalanced ==
  /\ heap.open = Cardinality({s \in Live(heap) : heap.src[s].opened = 1}) + app.open + lost
                 + Indicator(job.pc = "dir") + Indicator(job.by = "path")
  /\ heap.fsrefs > 0 => (heap.dsOpen <=> heap.open > 0)
  /\ heap.fsrefs = 0 => ~heap.dsOpen

\* A read delivers the bytes of the file at the offset, over sections and
\* blocks, and stops early only at the end of the file, also after failed
\* reads, unless an lseek failed in between (ifs_read(), block_from_offset(),
\* size_available()).
ReadExact == last.data = last.want /\ ~last.short

\* Opening a directory yields exactly its files, each with all sections, the
\* name from all NM, the link target from all SL, in reverse order; relocated
\* directories appear at their original place under their name and not in the
\* relocation directory (read_dir(), iso_file_source_new_ifs()).
DirectoryReadBack ==
  job.pc = "opened" =>
    LET b == heap.src[job.dir].f.secs[1].block
    IN b \in DOMAIN img.shows =>
         Reverse([i \in DOMAIN heap.src[job.dir].kids |-> heap.src[heap.src[job.dir].kids[i]].f]) = img.shows[b]

\* References to file sources and openings of the data source are balanced in
\* every state, also after failures (ifs_open(), ifs_close(), ifs_fs_close()).
SourceAccounting == SourceReferences /\ OpenCountBalanced
=============================================================================

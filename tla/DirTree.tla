-------------------------------- MODULE DirTree --------------------------------
(***************************************************************************)
(* libisofs/ecma119.c: the ECMA-119 directory tree of an image, with Rock  *)
(* Ridge.  ecma119_writer_compute_data_blocks() predicts the place and the *)
(* size of each directory, of its Continuation Area and of the path        *)
(* tables; ecma119_writer_write_data() later writes them one after the     *)
(* other.  With a partition offset there are two trees of the same shape.  *)
(***************************************************************************)
EXTENDS Susp, FiniteSets

CONSTANTS
  Dirs, Leaves,   \* the nodes which are directories, and the others
  Root,           \* the root directory
  Shapes,         \* set of functions [Dirs -> sequence of children]
  DirKinds,       \* for each directory: the set of Susp records it may be
  LeafKinds,      \* for each leaf: the set of Susp records it may be
  Options,        \* the IsoWriteOpts in use, as records
  Start           \* curblock before the tree

Nodes == Dirs \cup Leaves

\* The children lists form a tree: every node but the root is in one list, once,
\* and no directories are cut off from the root.
IsTree(shape) ==
  /\ \A d \in Dirs : /\ shape[d] \in Seq(Nodes) /\ IsInjective(shape[d])
                     /\ ~Contains(shape[d], Root)
  /\ \A n \in Nodes \ {Root} :
       \E p \in Dirs : \A d \in Dirs : Contains(shape[d], n) <=> d = p
  /\ \A S \in SUBSET (Dirs \ {Root}) :
       S # {} => \E n \in S : \E d \in Dirs \ S : Contains(shape[d], n)

\* Lengths and counts of an Ecma119Node.  The length of the ECMA-119 name goes
\* into one byte.
IsNode(n) == /\ n.iso \in 0 .. 255 /\ n.name \in Nat /\ n.sections \in Nat
             /\ n.link \in Seq(Int) /\ n.al \in Seq(Nat)

ASSUME TreeAssumption ==
  /\ IsFiniteSet(Dirs) /\ IsFiniteSet(Leaves) /\ Root \in Dirs
  /\ Start \in Nat
  /\ \A shape \in Shapes : IsTree(shape)
  /\ \A d \in Dirs : \A n \in DirKinds[d] : IsNode(n)
  /\ \A l \in Leaves : \A n \in LeafKinds[l] : IsNode(n)

VARIABLES
  opts, kids, node,  \* the options and the low level tree
  pc,       \* "calc", "write", "done", "aborted"
  half,     \* 1 = the tree, 2 = its copy for the partition
  todo,     \* the directories which the recursion will visit, next one first
  cur,      \* target->curblock
  plan,     \* [1 .. 2 -> [Dirs -> block, len and ce, and the len and ce
            \*            of each record, as calc_dir_pos() found them]]
  tables,   \* [1 .. 2 -> block of the L and of the M path table]
  treeEnd,  \* target->tree_end_block
  rec,      \* number of the directory record which is written next
  info,     \* struct susp_info of write_one_dir()
  fill,     \* buf - buffer
  bytesOut, \* bytes written by this writer
  lens,     \* what was composed for each record of the current directory
  table     \* the path table as it was written last

nodes == <<opts, kids, node>>
sizes == <<cur, plan, tables, treeEnd>>
output == <<rec, info, fill, bytesOut, lens, table>>
vars == <<nodes, pc, half, todo, sizes, output>>

\* The children of d which are directories.
SubDirs(d) ==
  FoldLeft(LAMBDA dirs, n : dirs \o If(n \in Dirs, <<n>>), <<>>, kids[d])

Parent(d) == CHOOSE p \in Dirs : Contains(kids[p], d)

\* The directory records of d: ".", "..", and one per section of the children.
SectionRecords(n) == [s \in 1 .. node[n].sections |-> [id |-> n, type |-> 0]]
Records(d) ==
  FoldLeft(LAMBDA recs, n : recs \o SectionRecords(n),
           <<[id |-> d, type |-> 1], [id |-> d, type |-> 2]>>, kids[d])

NoPlan == [block |-> 0, len |-> 0, ce |-> 0, recs |-> <<>>]

Init ==
  /\ opts \in Options /\ kids \in Shapes
  /\ \E d \in [Dirs -> UNION {DirKinds[x] : x \in Dirs}],
        l \in [Leaves -> UNION {LeafKinds[x] : x \in Leaves}] :
       /\ \A x \in Dirs : d[x] \in DirKinds[x]
       /\ \A x \in Leaves : l[x] \in LeafKinds[x]
       /\ node = [n \in Dirs \cup Leaves |-> IF n \in Dirs THEN d[n] ELSE l[n]]
  /\ pc = "calc" /\ half = 1 /\ todo = <<Root>> /\ cur = Start
  /\ plan = [h \in 1 .. 2 |-> [d \in Dirs |-> NoPlan]]
  /\ tables = [h \in 1 .. 2 |-> [l |-> 0, m |-> 0]]
  /\ treeEnd = 0
  /\ rec = 1 /\ info = NoInfo /\ fill = 0 /\ bytesOut = 0 /\ lens = <<>>
  /\ table = <<>>

\* need_version_number()
VersionLen(n) ==
  IF opts.version /\ n.type \notin {"dir", "placeholder"} THEN 2 ELSE 0

-----------------------------------------------------------------------------
(* ecma119_writer_compute_data_blocks()                                    *)

\* calc_dirent_len()
DirentLen(n) == Even(n.iso + 33 + VersionLen(n))

\* Bytes of a record r and of its Continuation Area, with base bytes of
\* continuation area for the records before.
RecordLen(r, base) ==
  LET used == IF r.type = 0 THEN DirentLen(node[r.id]) ELSE 34
      Plus(rr) == [len |-> used + rr.su, ce |-> rr.ce]
  IN  IF opts.rockridge
      THEN Plus(RripCalcLen(opts, node[r.id], r.type, used, base))
      ELSE [len |-> used, ce |-> 0]

\* A step of calc_dir_size(): a record of a child which does not fit goes to
\* the next block.
AddRecord(size, r, this) ==
  LET remaining == BlockSize - (size.len % BlockSize)
  IN  [len  |-> size.len + this.len
                + (IF r.type = 0 /\ this.len > remaining THEN remaining ELSE 0),
       ce   |-> size.ce + this.ce,
       recs |-> Append(size.recs, this)]

\* calc_dir_size()
CalcDirSize(dir) ==
  [FoldLeft(LAMBDA size, r : AddRecord(size, r, RecordLen(r, size.ce)),
            [len |-> 0, ce |-> 0, recs |-> <<>>], Records(dir))
     EXCEPT !.len = RoundUpBlock(@)]

\* calc_dir_pos(): dir gets its blocks, those of its Continuation Area follow.
PlaceDir(dir, size) ==
  /\ plan' = [plan EXCEPT ![half][dir] =
       [block |-> cur, len |-> size.len, ce |-> size.ce, recs |-> size.recs]]
  /\ cur' = cur + DivUp(size.len, BlockSize)
                + (IF opts.rockridge THEN DivUp(size.ce, BlockSize) ELSE 0)
  /\ todo' = SubDirs(dir) \o Tail(todo)

\* One call of calc_dir_pos(), for the next directory.
CalcDirPos ==
  /\ pc = "calc" /\ todo # <<>>
  /\ PlaceDir(Head(todo), CalcDirSize(Head(todo)))
  /\ UNCHANGED <<nodes, pc, half, tables, treeEnd, output>>

IdLen(d) == IF d = Root THEN 1 ELSE node[d].iso

\* calc_path_table_size()
PathTableSize == FoldFunction(LAMBDA a, b : a + b, 0,
                              [d \in Dirs |-> Even(8 + IdLen(d))])

\* The rest of ecma119_writer_compute_data_blocks(): the path tables, the tag
\* with the checksum of the tree, and then maybe the second tree.
CalcPathTables ==
  /\ pc = "calc" /\ todo = <<>>
  /\ LET blocks == DivUp(PathTableSize, BlockSize)
         tag == IF half = 1 /\ opts.md5 THEN 1 ELSE 0
     IN  /\ tables' = [tables EXCEPT ![half] = [l |-> cur, m |-> cur + blocks]]
         /\ cur' = cur + 2 * blocks + tag
  /\ IF half = 1 /\ opts.twin
     THEN half' = 2 /\ UNCHANGED <<pc, treeEnd>>
     ELSE half' = 1 /\ pc' = "write" /\ treeEnd' = cur'
  /\ todo' = <<Root>>
  /\ UNCHANGED <<nodes, plan, output>>

-----------------------------------------------------------------------------
(* ecma119_writer_write_data()                                             *)

\* iso_write() or memory allocation fails.
WriteFails ==
  /\ pc = "write"
  /\ pc' = "aborted"
  /\ UNCHANGED <<nodes, half, todo, sizes, output>>

\* info.ce_block
CeBlock(d) == plan[half][d].block + DivUp(plan[half][d].len, BlockSize)

\* Bytes of record r without SUSP fields.
UsedUp(r) ==
  LET fi == node[r.id].iso
  IN  IF r.type # 0 THEN 34
      ELSE fi + 33 + (IF fi % 2 = 1 THEN 0 ELSE 1) + VersionLen(node[r.id])

\* write_one_dir() and write_one_dir_record(): the record goes to the buffer
\* with the composed fields i.  A full buffer gets written before.
PutRecord(r, i) ==
  LET len   == UsedUp(r) + i.suf
      flush == r.type = 0 /\ fill + len > BlockSize
  IN  /\ bytesOut'  = IF flush THEN bytesOut + BlockSize ELSE bytesOut
      /\ fill' = IF flush THEN len ELSE fill + len
      /\ lens' = Append(lens, [len |-> len, ce |-> i.ceLen - info.ceLen])
      /\ info' = UpdateCeSizes(i)
      /\ rec'  = rec + 1

\* The SUSP fields of record r of directory dir.
FieldsOf(dir, r) ==
  IF opts.rockridge
  THEN Compose(opts, node[r.id], r.type, UsedUp(r), CeBlock(dir), info) ELSE info

\* write_one_dir(): the next record.  Failure of rrip_get_susp_fields() aborts.
WriteRecord ==
  /\ pc = "write" /\ todo # <<>>
  /\ rec =< Len(Records(Head(todo)))
  /\ \E r \in {Records(Head(todo))[rec]} : \E i \in {FieldsOf(Head(todo), r)} :
       IF i.err THEN /\ pc' = "aborted" /\ info' = i
                     /\ UNCHANGED <<fill, bytesOut, lens, rec>>
       ELSE PutRecord(r, i) /\ UNCHANGED pc
  /\ UNCHANGED <<nodes, half, todo, sizes, table>>

\* write_one_dir() writes its last block and the Continuation Area, then
\* write_dirs() goes on to the next directory.
WriteDirEnd ==
  /\ pc = "write" /\ todo # <<>>
  /\ rec > Len(Records(Head(todo)))
  /\ bytesOut' = bytesOut + BlockSize + (IF info.ceLen > 0 THEN CeArea(info) ELSE 0)
  /\ todo' = SubDirs(Head(todo)) \o Tail(todo)
  /\ rec' = 1 /\ info' = NoInfo /\ fill' = 0 /\ lens' = <<>>
  /\ UNCHANGED <<nodes, pc, half, sizes, table>>

\* Mutant: the path table in the order of the directories in the image.
PathlistByDepth ==
  FoldLeft(LAMBDA l, k :
             LET i == SelectInSeq(l, LAMBDA d : d = l[k])
             IN  SubSeq(l, 1, i) \o SubDirs(l[k]) \o SubSeq(l, i + 1, Len(l)),
           <<Root>>, [k \in 1 .. Cardinality(Dirs) |-> k])

\* write_path_tables(): the directories, level by level.
Pathlist ==
  FoldLeft(LAMBDA l, k : l \o SubDirs(l[k]),
           <<Root>>, [k \in 1 .. Cardinality(Dirs) |-> k])

\* The record of directory list[k] in the path table.  The number of its parent
\* is sought from the parent of the previous record on.  It is 0 here if the
\* search runs beyond the list.
PathRecord(list, acc, k) ==
  LET from == IF k = 1 THEN 1 ELSE acc[k - 1].parent
      hits == {j \in from .. Len(list) : k = 1 \/ list[j] = Parent(list[k])}
  IN  [dir |-> list[k], len |-> 8 + Even(IdLen(list[k]) % 256),
       parent |-> IF hits = {} THEN 0 ELSE Min(hits)]

\* write_path_table()
PathTable ==
  LET list == Pathlist
  IN  FoldLeft(LAMBDA acc, k : Append(acc, PathRecord(list, acc, k)),
               <<>>, [k \in 1 .. Len(list) |-> k])

\* ecma119_writer_write_dirs() behind write_dirs(): the path tables and the
\* checksum tag, then maybe the second tree.  At the end of both trees, a
\* wrong prediction gets marked by tree_end_block 1.
WritePathTables ==
  /\ pc = "write" /\ todo = <<>>
  /\ LET bytes == RoundUpBlock(Total([k \in 1 .. Len(PathTable) |-> PathTable[k].len]))
         tag == IF half = 1 /\ opts.md5 THEN BlockSize ELSE 0
     IN  bytesOut' = bytesOut + 2 * bytes + tag
  /\ table' = PathTable
  /\ IF half = 1 /\ opts.twin
     THEN half' = 2 /\ todo' = <<Root>> /\ UNCHANGED <<pc, treeEnd>>
     ELSE /\ pc' = "done" /\ UNCHANGED <<half, todo>>
          /\ treeEnd' = IF Start + bytesOut' \div BlockSize = treeEnd THEN treeEnd ELSE 1
  /\ UNCHANGED <<nodes, cur, plan, tables, rec, info, fill, lens>>

-----------------------------------------------------------------------------
Next == \/ CalcDirPos \/ CalcPathTables
        \/ WriteFails \/ WriteRecord \/ WriteDirEnd \/ WritePathTables

Spec == Init /\ [][Next]_vars

-----------------------------------------------------------------------------
(* Properties.                                                             *)

\* The passes of compute_data_blocks() and write_data() keep their types: the
\* block counters do not fall behind the start of the tree, and the fill level
\* of write_one_dir()'s buffer stays within its one block.
TypeOK ==
  /\ pc \in {"calc", "write", "done", "aborted"} /\ half \in 1 .. 2
  /\ todo \in Seq(Dirs) /\ rec \in Nat \ {0}
  /\ cur \in Nat /\ cur >= Start /\ treeEnd \in Nat /\ bytesOut \in Nat
  /\ fill \in 0 .. BlockSize
  /\ info.ceLen \in Nat /\ info.start =< Len(info.ce)

\* "Compute the length needed for write all RR and SUSP entries": the second
\* pass composes for each record just the bytes which the first one predicted,
\* in the record and in the continuation area.
PredictionExact ==
  \A k \in 1 .. Len(lens) : lens[k] = plan[half][Head(todo)].recs[k]

\* Directories, continuation areas and path tables are written to the blocks
\* to which directory records, CE fields and volume descriptors point.
WhereRecorded ==
  pc = "write" =>
    LET here == Start * BlockSize + bytesOut
    IN  CASE todo = <<>> -> here = tables[half].l * BlockSize
          [] todo # <<>> /\ rec = 1 ->
               here = plan[half][Head(todo)].block * BlockSize
          [] todo # <<>> /\ rec > Len(Records(Head(todo))) ->
               here + BlockSize = CeBlock(Head(todo)) * BlockSize
          [] OTHER -> TRUE

\* The check at the end of ecma119_writer_write_data() never fires.
TreeEndAsPredicted ==
  pc = "done" => Start * BlockSize + bytesOut = treeEnd * BlockSize

\* The parts of the continuation area of the current record: a part ends by a
\* CE or with the last field.  Paddings are not part of it.
Parts ==
  LET own == {k \in info.start + 1 .. Len(info.ce) : info.ce[k].id # "PAD"}
      starts == {k \in own : k = info.start + 1 \/ info.ce[k - 1].id \in {"CE", "PAD"}}
  IN  {[first |-> k, last |-> Max({j \in own : \A s \in starts : k < s => j < s})]
         : k \in starts}

\* The CE which should point to a part.
Pointer(p) ==
  IF p.first = info.start + 1
  THEN info.sua[SelectInSeq(info.sua, LAMBDA f : f.id = "CE")]
  ELSE info.ce[Max({k \in info.start + 1 .. p.first - 1 : info.ce[k].id = "CE"})]

\* A reader that follows the CE fields finds the fields of the record, all and
\* only them: each CE tells start and size of the next part, which lies inside
\* of one block, as Linux demands.
ContinuationReadable ==
  \A p \in Parts :
    LET from == CeWritten(info.ce, p.first - 1)
        size == CeWritten(info.ce, p.last) - from
    IN  /\ Pointer(p).block = CeBlock(Head(todo)) + from \div BlockSize
        /\ Pointer(p).off = from % BlockSize
        /\ Pointer(p).size = size
        /\ (from % BlockSize) + size =< BlockSize

\* A directory record has at most 254 bytes, does not cross a block boundary,
\* and its fields fit their length byte; no assertion of the code fails.
RecordsFit ==
  /\ ~info.err
  /\ \A k \in 1 .. Len(lens) : lens[k].len =< 254
  /\ \A k \in 1 .. Len(info.sua) : info.sua[k].len \in 4 .. 255
  /\ \A k \in 1 .. Len(info.ce) : info.ce[k].id # "PAD" => info.ce[k].len \in 4 .. 255

\* The components of the SL fields, with divided ones put together again, are
\* the components of the link target.
LinkIntact ==
  LET Step(acc, c) ==
        IF acc.open THEN [open |-> c.continues,
                          seq |-> [acc.seq EXCEPT ![Len(acc.seq)] = @ + c.size]]
        ELSE [open |-> c.continues, seq |-> Append(acc.seq, c.size)]
      link == node[Records(Head(todo))[rec - 1].id].link
  IN  info.comps # <<>> =>
        FoldLeft(Step, [open |-> FALSE, seq |-> <<>>], info.comps).seq
          = [k \in 1 .. Len(link) |-> CompLen(link[k]) - 2]

\* Each entry of the path table tells the number of its parent, and no entry
\* comes before its parent.
PathTableSound ==
  \A k \in 2 .. Len(table) :
    /\ table[k].parent \in 1 .. k - 1
    /\ table[table[k].parent].dir = Parent(table[k].dir)

\* The two passes agree, record by record and at the end of the tree, and the
\* records fit where they are put (calc_dir_size(), rrip_calc_len() versus
\* write_one_dir(), rrip_get_susp_fields()).
PassesAgree == PredictionExact /\ TreeEndAsPredicted /\ RecordsFit

\* Whoever follows the addresses of parents, continuation areas and path tables
\* gets to the directories (calc_dir_pos(), write_dirs(), write_path_table()).
DirectoriesReachable == WhereRecorded /\ PathTableSound

\* A reader gets the SUSP fields of a record back from record and continuation
\* areas (susp_update_CE_sizes(), rrip_SL_append_comp()).
RecordReadBack == ContinuationReadable /\ LinkIntact
=============================================================================

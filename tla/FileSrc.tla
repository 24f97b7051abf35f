-------------------------------- MODULE FileSrc --------------------------------
(***************************************************************************)
(* The data file writer of libisofs (filesrc.c) with the EFI partition     *)
(* writer that borrows from it (system_area.c).  It works in two passes:   *)
(* ecma119_image_new() predicts the block address of every file section,   *)
(* which the directory trees then record; the generator thread later       *)
(* writes the contents one after the other without looking at these        *)
(* addresses again.  Files can vanish, shrink or fail between the passes.  *)
(* Blocks are counted from the start of this area, which is Start in the   *)
(* image; only the three kinds of content matter: a block of a source, a   *)
(* block of zeros that replaces it, and the common block of empty files.   *)
(***************************************************************************)
EXTENDS Integers, Sequences, FiniteSets, Functions

CONSTANTS
    Sources,        \* the distinct IsoStreams, as iso_stream_cmp_ino() tells
    NoSource,
    Sizes,          \* the sizes a stream may have, in bytes
    Weight,         \* sort_weight of the IsoFile, by source
    Boots,          \* the uses as boot image, of {"no", "patch", "efi"}
    Checksums,      \* the values of opts->md5_file_checksums
    BlockSize,      \* BLOCK_SIZE
    ExtentSize,     \* ISO_EXTENT_SIZE
    MaxSection,     \* MAX_ISO_FILE_SECTION_SIZE
    Word,           \* 2^(number of bits in a size_t)
    Start           \* target->curblock before these writers

ASSUME SourcesAssumption == IsFiniteSet(Sources) /\ NoSource \notin Sources
ASSUME SizesAssumption == Sizes \subseteq Nat
ASSUME WeightAssumption == Weight \in [Sources -> Int]
ASSUME BlockSizeAssumption == BlockSize \in Nat \ {0}
ASSUME ExtentAssumption ==
    /\ ExtentSize \in Nat \ {0}
    /\ ExtentSize % BlockSize = 0
    /\ MaxSection = ExtentSize + BlockSize - 1
ASSUME WordAssumption == Word \in Nat /\ \A n \in Sizes : n + 2 * BlockSize < Word
ASSUME StartAssumption == Start \in Nat \ {0}

VARIABLES
    opts,       \* IsoWriteOpts: oldEmpty, appendable, sort, md5
    stream,     \* per source: its size, from_old_session, use as boot image
    files,      \* target->files: the sources registered in the rbtree
    src,        \* per source: noWrite, sections, cx (checksum_index)
    efi,        \* target->efi_boot_part_filesrc
    list,       \* writer->data, the filelist
    idx,        \* the loop variable i of the three loops over filelist
    blocks,     \* target->filesrc_blocks
    start,      \* target->filesrc_start
    pc,         \* the step of the two passes
    b,          \* the block counter of iso_filesrc_write_data()
    out,        \* the blocks written so far, from Start on
    digest,     \* the MD5 context: bytes of the file, then bytes of zero
    md5,        \* the MD5s in target->checksum_buffer, by source
    reported    \* sources that went to iso_report_errfile()

layout == <<files, src, efi, list, blocks, start>>
writing == <<b, out, digest, md5, reported>>
vars == <<opts, stream, layout, idx, pc, writing>>

DivUp(n, d) == (n + d - 1) \div d
ExtentBlocks == ExtentSize \div BlockSize
Blocks(s) == DivUp(stream[s].size, BlockSize)

External == -2      \* 0xfffffffe
Empty    == -1      \* 0xffffffff
NoMd5    == <<-1, -1>>   \* the sixteen zero bytes that calloc() left

ZeroBlock == [of |-> NoSource, blk |-> 0, data |-> FALSE]
Block(s, n, ok) == [of |-> s, blk |-> n, data |-> ok]

-----------------------------------------------------------------------------
(* The first pass. *)

\* Mutant: sections counted as if each could be of maximum size.
NSectionsMaxed(n) == DivUp(n, MaxSection) + (IF n = 0 THEN 1 ELSE 0)
\* iso_file_src_create(): sections of at most MaxSection bytes.
NSections(n) ==
    IF n > MaxSection THEN DivUp(n - MaxSection, ExtentSize) + 1 ELSE 1

OldSession(s) == stream[s].old /\ opts.appendable

Init ==
    /\ opts \in [oldEmpty: BOOLEAN, appendable: BOOLEAN, sort: BOOLEAN,
                 md5: Checksums]
    /\ stream \in [Sources -> [size: Sizes, old: BOOLEAN, boot: Boots]]
    /\ files = {}
    /\ src = [s \in Sources |-> [noWrite |-> FALSE, sections |-> <<>>, cx |-> 0]]
    /\ efi = NoSource
    /\ list = <<>>
    /\ idx = 0
    /\ blocks = 0
    /\ start = 0
    /\ pc = "register"
    /\ b = 0
    /\ out = <<>>
    /\ digest = <<0, 0>>
    /\ md5 = [s \in Sources |-> NoMd5]
    /\ reported = {}

\* The values that checksum_index may get: a file kept from the old session
\* takes part only if it came with an MD5.
Indices(s) ==
    LET counter == Cardinality({f \in files : src[f].cx > 0})
    IN  IF opts.md5 = 0 THEN {0}
        ELSE {counter + 1} \cup (IF OldSession(s) THEN {0} ELSE {})

\* A file of the tree reaches the rbtree.  A second file with the same stream
\* finds the first one's IsoFileSrc and changes nothing here.  A source kept
\* from the old session keeps its sections, as an earlier run of this code made
\* them; their addresses are below Start and of no interest here.
FileSrcCreate(s) ==
    /\ pc = "register"
    /\ s \notin files
    /\ files' = files \cup {s}
    /\ \E cx \in Indices(s) :
         src' = [src EXCEPT ![s] =
           [noWrite  |-> OldSession(s),
            sections |-> [e \in 1 .. NSections(stream[s].size) |->
                            [block |-> 0, size |-> 0]],
            cx       |-> cx]]
    /\ UNCHANGED <<opts, stream, efi, list, blocks, start, idx, pc, writing>>

\* eltorito_writer_create(): a boot image to be patched must be written again;
\* one EFI boot image that is written may be claimed as partition.
ElToritoCreate ==
    /\ pc = "register"
    /\ files = Sources
    /\ LET again == [s \in Sources |->
                       IF stream[s].boot = "patch"
                         THEN [src[s] EXCEPT !.noWrite = FALSE] ELSE src[s]]
           claims == {s \in Sources : stream[s].boot = "efi" /\ ~again[s].noWrite}
       IN  IF claims = {}
             THEN efi' = NoSource /\ src' = again
             ELSE \E s \in claims :
                    /\ efi' = s
                    /\ src' = [again EXCEPT ![s].sections[1].block = External]
    /\ pc' = "list"
    /\ UNCHANGED <<opts, stream, files, list, blocks, start, idx, writing>>

IsList(l) ==
    /\ \A i, j \in DOMAIN l : i # j => l[i] # l[j]
    /\ {l[i] : i \in DOMAIN l} =
         {s \in files : opts.appendable => ~src[s].noWrite}

\* Higher weights first; qsort() leaves the order of equal weights open.
SortedByWeight(l) ==
    \A i, j \in DOMAIN l : i < j => Weight[l[i]] >= Weight[l[j]]

Lists == UNION {[1 .. n -> Sources] : n \in 0 .. Cardinality(Sources)}

\* filesrc_writer_pre_compute(), up to its loop.
PreCompute ==
    /\ pc = "list"
    /\ blocks' = (IF opts.oldEmpty THEN 0 ELSE 1)
    /\ \E l \in Lists :
         /\ IsList(l)
         /\ opts.sort => SortedByWeight(l)
         /\ list' = l
    /\ idx' = 1
    /\ pc' = "pre"
    /\ UNCHANGED <<opts, stream, files, src, efi, start, writing>>

\* Mutant: a section address without the factor for the extent size.
SectionsPacked(s, at) ==
    LET n == Len(src[s].sections)
        last == stream[s].size - (n - 1) * ExtentSize
    IN  [e \in 1 .. n |->
           IF e < n
             THEN [block |-> at + (e - 1), size |-> ExtentSize]
             ELSE [block |-> IF last <= 0 THEN Empty ELSE at + (e - 1),
                   size |-> last]]
\* The sections of a file whose data begin at block `at`.
Sections(s, at) ==
    LET n == Len(src[s].sections)
        last == stream[s].size - (n - 1) * ExtentSize
    IN  [e \in 1 .. n |->
           IF e < n
             THEN [block |-> at + (e - 1) * ExtentBlocks, size |-> ExtentSize]
             ELSE [block |-> IF last <= 0 THEN Empty ELSE at + (e - 1) * ExtentBlocks,
                   size |-> last]]

IsExternal(s) == ~src[s].noWrite /\ src[s].sections[1].block = External

\* Mutant: the external partition counts as part of the files.
PreComputeFileCounted ==
    /\ pc = "pre"
    /\ idx <= Len(list)
    /\ LET s == list[idx]
           secs == Sections(s, blocks)
       IN  /\ src' = [src EXCEPT
                ![s].sections = IF IsExternal(s)
                                  THEN [secs EXCEPT ![1].block = External] ELSE secs,
                ![s].noWrite = @ \/ IsExternal(s)]
           /\ blocks' = blocks + Blocks(s)
    /\ idx' = idx + 1
    /\ UNCHANGED <<opts, stream, files, efi, list, start, pc, writing>>
\* One turn of the loop of filesrc_writer_pre_compute().
PreComputeFile ==
    /\ pc = "pre"
    /\ idx <= Len(list)
    /\ LET s == list[idx]
           secs == Sections(s, blocks)
       IN  IF IsExternal(s)
             THEN /\ src' = [src EXCEPT
                       ![s].sections = [secs EXCEPT ![1].block = External],
                       ![s].noWrite = TRUE]
                  /\ UNCHANGED blocks
             ELSE /\ src' = [src EXCEPT ![s].sections = secs]
                  /\ blocks' = blocks + Blocks(s)
    /\ idx' = idx + 1
    /\ UNCHANGED <<opts, stream, files, efi, list, start, pc, writing>>

\* The absolute addresses of the EFI partition, section after section.
EfiSections ==
    [e \in 1 .. Len(src[efi].sections) |->
       [src[efi].sections[e] EXCEPT
          !.block = Start + (e - 1) * DivUp(ExtentSize, BlockSize)]]

\* target->efi_boot_part_size
EfiBlocks ==
    IF efi = NoSource THEN 0
    ELSE FoldFunction(+, 0, [e \in 1 .. Len(src[efi].sections) |->
                               DivUp(src[efi].sections[e].size, BlockSize)])

\* filesrc_writer_compute_data_blocks(): the addresses become absolute.
Absolute(s, cur) ==
    [e \in 1 .. Len(src[s].sections) |->
       [src[s].sections[e] EXCEPT
          !.block = IF @ = Empty
                      THEN IF opts.oldEmpty THEN Start - 1 ELSE cur
                      ELSE @ + cur]]

\* compute_data_blocks() of partprepend_writer, then of filesrc_writer.
ComputeDataBlocks ==
    /\ pc = "pre"
    /\ idx > Len(list)
    /\ start' = Start + EfiBlocks
    /\ src' = [s \in Sources |->
                 IF s = efi THEN [src[s] EXCEPT !.sections = EfiSections]
                 ELSE IF src[s].noWrite \/ \A i \in DOMAIN list : list[i] # s
                   THEN src[s]
                   ELSE [src[s] EXCEPT !.sections = Absolute(s, Start + EfiBlocks)]]
    /\ idx' = 0
    /\ pc' = IF EfiBlocks = 0 THEN "zero" ELSE "open"
    /\ UNCHANGED <<opts, stream, files, efi, list, blocks, writing>>

-----------------------------------------------------------------------------
(* The second pass: partprepend_writer_write_data() writes the EFI partition *)
(* (idx = 0), filesrc_writer_write_data() the zero block and the files.      *)

Cur == IF idx = 0 THEN efi ELSE list[idx]

AfterFile == IF idx = 0 THEN "zero" ELSE "next"

\* iso_write() fails: the reader of the image has gone, or an I/O error.
WriteFails ==
    /\ \/ pc \in {"data", "blank", "fill"} /\ b < Blocks(Cur)
       \/ pc = "zero" /\ ~opts.oldEmpty
    /\ pc' = "aborted"
    /\ UNCHANGED <<opts, stream, layout, idx, writing>>

\* Mutant: the reserved block is not written.
WriteZeroBlockNever ==
    /\ pc = "zero"
    /\ idx' = 0
    /\ pc' = "next"
    /\ UNCHANGED <<opts, stream, layout, writing>>
\* filesrc_writer_write_data(), up to its loop.
WriteZeroBlock ==
    /\ pc = "zero"
    /\ out' = IF opts.oldEmpty THEN out ELSE Append(out, ZeroBlock)
    /\ idx' = 0
    /\ pc' = "next"
    /\ UNCHANGED <<opts, stream, layout, b, digest, md5, reported>>

NextFile ==
    /\ pc = "next"
    /\ idx < Len(list)
    /\ idx' = idx + 1
    /\ pc' = IF src[list[idx + 1]].noWrite THEN "next" ELSE "open"
    /\ UNCHANGED <<opts, stream, layout, writing>>

AllWritten ==
    /\ pc = "next"
    /\ idx = Len(list)
    /\ pc' = "done"
    /\ UNCHANGED <<opts, stream, layout, idx, writing>>

\* iso_msg_submit() tells the caller to abort if the event is severe enough.
Report(s, next) ==
    /\ reported' = reported \cup {s}
    /\ pc' \in {next, "aborted"}

\* Mutant: the block counter is not reset.
OpenOkNoReset ==
    /\ pc = "open"
    /\ digest' = <<0, 0>>
    /\ \/ pc' = "data" /\ UNCHANGED reported
       \/ Report(Cur, "data")
    /\ UNCHANGED <<opts, stream, layout, idx, b, out, md5>>
\* iso_filesrc_write_data() finds the stream, maybe with another size.
OpenOk ==
    /\ pc = "open"
    /\ b' = 0
    /\ digest' = <<0, 0>>
    /\ \/ pc' = "data" /\ UNCHANGED reported
       \/ Report(Cur, "data")                   \* "Size of file has changed"
    /\ UNCHANGED <<opts, stream, layout, idx, out, md5>>

\* The whole file becomes zeros; "goto ex" skips the checksum.
OpenFails ==
    /\ pc = "open"
    /\ b' = 0
    /\ digest' = <<0, 0>>
    /\ Report(Cur, "blank")
    /\ UNCHANGED <<opts, stream, layout, idx, out, md5>>

BlankBlock ==
    /\ pc = "blank"
    /\ b < Blocks(Cur)
    /\ out' = Append(out, Block(Cur, b, FALSE))
    /\ b' = b + 1
    /\ UNCHANGED <<opts, stream, layout, idx, pc, digest, md5, reported>>

BlankEnds ==
    /\ pc = "blank"
    /\ b = Blocks(Cur)
    /\ pc' = AfterFile
    /\ UNCHANGED <<opts, stream, layout, idx, writing>>

\* Mutant: the last block counts in full.
Md5LenFull(s, n) == BlockSize
\* file_size - b * BLOCK_SIZE is computed as unsigned size_t.
Md5Len(s, n) ==
    LET rest == (stream[s].size - n * BlockSize) % Word
    IN  IF rest > BlockSize THEN BlockSize ELSE rest

Digested(data, n) ==
    IF src[Cur].cx = 0 THEN digest
    ELSE IF data THEN <<digest[1] + Md5Len(Cur, n), digest[2]>>
    ELSE <<digest[1], digest[2] + Md5Len(Cur, n)>>

\* iso_stream_read_buffer() pads a short read with zeros, so that a stream that
\* ends early still gives a block.
ReadBlock ==
    /\ pc = "data"
    /\ b < Blocks(Cur)
    /\ out' = Append(out, Block(Cur, b, TRUE))
    /\ digest' = Digested(TRUE, b)
    /\ b' = b + 1
    /\ UNCHANGED <<opts, stream, layout, idx, pc, md5, reported>>

ReadFails ==
    /\ pc = "data"
    /\ b < Blocks(Cur)
    /\ Report(Cur, "fill")
    /\ UNCHANGED <<opts, stream, layout, idx, b, out, digest, md5>>

\* while (b++ < nblocks): the checksum sees the b that is already incremented.
FillBlock ==
    /\ pc = "fill"
    /\ b < Blocks(Cur)
    /\ out' = Append(out, Block(Cur, b, FALSE))
    /\ digest' = Digested(FALSE, b + 1)
    /\ b' = b + 1
    /\ UNCHANGED <<opts, stream, layout, idx, pc, md5, reported>>

\* The end of the file: its MD5 goes to the checksum buffer, unless the MD5 of
\* the first reading differs, which is reported if nothing was before.
FileEnds ==
    /\ pc \in {"data", "fill"}
    /\ b = Blocks(Cur)
    /\ \/ pc' = AfterFile /\ UNCHANGED reported
       \/ /\ src[Cur].cx > 0 /\ opts.md5 = 3 /\ Cur \notin reported
          /\ Report(Cur, AfterFile)             \* ISO_MD5_STREAM_CHANGE
    /\ md5' = IF src[Cur].cx > 0 /\ pc' # "aborted"
                THEN [md5 EXCEPT ![Cur] = digest] ELSE md5
    /\ UNCHANGED <<opts, stream, layout, idx, b, out, digest>>

Next ==
    \/ \E s \in Sources : FileSrcCreate(s)
    \/ ElToritoCreate
    \/ PreCompute
    \/ PreComputeFile
    \/ ComputeDataBlocks
    \/ WriteFails
    \/ WriteZeroBlock
    \/ NextFile
    \/ AllWritten
    \/ OpenOk
    \/ OpenFails
    \/ BlankBlock
    \/ BlankEnds
    \/ ReadBlock
    \/ ReadFails
    \/ FillBlock
    \/ FileEnds

Spec == Init /\ [][Next]_vars

-----------------------------------------------------------------------------
(* Properties. *)

Pcs == {"register", "list", "pre", "zero", "next", "open", "data", "blank",
        "fill", "done", "aborted"}

\* The state keeps its types: the counters are natural numbers, the list holds
\* sources, and a block counter never runs past the blocks of its file.
TypeOK ==
    /\ files \subseteq Sources
    /\ efi \in Sources \cup {NoSource}
    /\ list \in Seq(Sources)
    /\ idx \in Nat /\ idx <= Len(list) + 1
    /\ blocks \in Nat /\ start \in Nat
    /\ pc \in Pcs
    /\ b \in Nat
    /\ pc \in {"data", "blank", "fill"} => b <= Blocks(Cur)
    /\ \A s \in Sources : src[s].cx \in 0 .. Cardinality(Sources)
    /\ reported \subseteq Sources

Written(s) ==
    \/ s = efi /\ EfiBlocks > 0
    \/ \E i \in DOMAIN list : list[i] = s /\ ~src[s].noWrite

\* What a reader finds at the address of section e of source s.
At(blk) == out[blk - Start + 1]

SectionHolds(s, e) ==
    LET sec == src[s].sections[e]
    IN  \A k \in 0 .. DivUp(sec.size, BlockSize) - 1 :
          /\ sec.block + k - Start + 1 \in DOMAIN out
          /\ At(sec.block + k).of = s
          /\ At(sec.block + k).blk = (e - 1) * ExtentBlocks + k

\* When everything is written, each section address predicted by the first
\* pass leads to just that part of just that file, whatever failed meanwhile;
\* this is what all directory trees of the image rely on.
DataWhereRecorded ==
    pc = "done" => \A s \in Sources : Written(s) =>
        \A e \in 1 .. Len(src[s].sections) : SectionHolds(s, e)

\* Empty files point to a block of zeros of their own, never to data of another
\* file, nor behind the end of what gets written.
EmptyFileHarmless ==
    (pc = "done" /\ ~opts.oldEmpty) =>
        \A s \in Sources : (Written(s) /\ s # efi /\ stream[s].size = 0) =>
            /\ src[s].sections[1].block - Start + 1 \in DOMAIN out
            /\ At(src[s].sections[1].block) = ZeroBlock

\* The number of blocks written is the number predicted, file for file, although
\* files may vanish or end early: what follows the files stays where it belongs.
BlocksAsPredicted ==
    pc = "done" => Len(out) = EfiBlocks + blocks

\* The directory records of a file describe all of its bytes, and every section
\* size fits the 32 bit field of its directory record.
SectionsCoverFile ==
    pc = "done" => \A s \in Sources : Written(s) =>
        /\ FoldFunction(+, 0, [e \in DOMAIN src[s].sections |->
                                 src[s].sections[e].size]) = stream[s].size
        /\ \A e \in 1 .. Len(src[s].sections) :
             src[s].sections[e].size \in 0 .. MaxSection

DataBytes(s) ==
    LET whole == {i \in DOMAIN out : out[i].of = s /\ out[i].data}
        n == Cardinality(whole) * BlockSize
    IN  IF n > stream[s].size THEN stream[s].size ELSE n

\* The MD5 recorded for a file is the MD5 of what the image holds for it.
Md5IsOfWritten(s) == md5[s] = <<DataBytes(s), stream[s].size - DataBytes(s)>>

\* A file that was not reported as problematic has its right MD5 recorded.
Md5WrongOnlyIfReported ==
    pc = "done" => \A s \in Sources :
        (Written(s) /\ src[s].cx > 0 /\ s \notin reported) => Md5IsOfWritten(s)

\* Section addresses and sizes as predicted by iso_filesrc_writer_pre_compute()
\* lead to all bytes of each file, of empty files too, after
\* iso_filesrc_write_data() with any failures.
SectionsSound == DataWhereRecorded /\ EmptyFileHarmless /\ SectionsCoverFile
=============================================================================

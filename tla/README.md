# libisofs in TLA+

libisofs builds ISO 9660 images. A program assembles a tree of nodes
(`iso_dir_add_node()`, `iso_tree_add_...`), optionally on top of an imported
older session, and asks for a `struct burn_source`. A generator thread then
produces the image as one byte stream, which a burn program consumes. This
directory holds TLA+ models of the parts of the library in which the order of
events matters, TLC runs on small instances, and TLAPS proofs.

`PROJECT.json` is the machine-readable index: components, runs, mutants, the map
from definitions to source lines, findings, hazards, theorems. Paths below are
relative to `src/libisofs/`.

## The system: components, state, operations

| Component | State | Operations | What must be right |
|---|---|---|---|
| Ring buffer (`buffer.c`) | byte array, fill, two positions, two end flags, mutex, two condition variables | `iso_ring_buffer_write/read`, `writer_close`, `reader_close` | no lost wake-up, bytes in order, no early end of file |
| Generator and burn source (`ecma119.c`, `image.c`) | `Ecma119Image` with reference count, thread, `generator_is_running` | `iso_image_create_burn_source`, `write_function`, `bs_read`, `bs_set_size`, `bs_cancel`, `bs_free_data` | no use after free, no leak, no call that hangs |
| Node tree (`node.c`) | nodes with reference counts, sorted child lists, registered iterators | add, replace, take, remove, rename, ref, unref, iterator next/take/remove/free | counts equal owners, tree consistent, iterations complete |
| MD5 over sessions (`md5.c`, `node.c`, `filesrc.c`, `fs_image.c`) | attribute `isofs.cx`, saved index, MD5 array | `checksum_prepare_nodes`, `iso_file_src_create`, `checksum_copy_old_nodes`, `transplant_checksum_buffer`, `process_preserved_cx` | each file keeps its own MD5 through written and failed runs |
| Data file writer (`filesrc.c`, part of `system_area.c`, `eltorito.c`) | red-black tree of `IsoFileSrc`, file list, sections | register, pre-compute, compute, write with failing files | every recorded address leads to the data |
| Layout (`ecma119.c`) | list of `IsoImageWriter`, `curblock` | `compute_data_blocks`, `write_vol_desc`, `write_data` of each writer | prediction equals what is written |
| Directory trees (`ecma119.c`, `ecma119_tree.c`, `joliet.c`, `iso1999.c`, `hfsplus.c`) | mangled low level trees | create, mangle, relocate, compute, write | unique names, predicted directory size equals written size |
| Rock Ridge (`rockridge.c`, `rockridge_read.c`) | SUSP fields of one record, continuation area | calculate length, compose, write; read back | predicted length equals composed length |
| System area (`system_area.c`, `make_isohybrid_mbr.c`) | MBR, APM, GPT requests, appended partitions | register, fill, append, align, write twice | tables describe what is written and do not overlap |
| El Torito (`eltorito.c`) | boot catalog with references to nodes | set, add, remove, write, read | what is written is read back, no dangling node |
| Import (`fs_image.c`, `rockridge_read.c`, `data_source.c`) | filesystem with open count, file sources with references, tree, catalog and checksums of the image | open, readdir, read, lseek, get_by_path, import | content as recorded, references exact, old state back after a failed import |
| Tree building (`tree.c`, `builder.c`, `find.c`) | settings of the image, call stack of the recursion, find iterators | add new nodes, add files, recursive add, clone, merge, find | unique and sorted names, every file once, exact references, faithful clones |
| Streams and filters (`stream.c`, `filter.c`, `filters/*`) | stream objects with counts, zisofs block pointers, child process with two pipes | open, read, close, stack, unstack, clone, compare | announced size equals delivered size, references exact, pipes never block for ever, one total order of streams |
| ACL and xattr (`aaip_0_2.c`, `node.c`, `aaip-os-*.c`) | encoded attribute list of a node, decoder with ring buffer | set, merge, delete, get; encode, decode | what was set is read back, however it is cut into records, fields and chunks |
| Utilities (`util*.c`), messages (`libiso_msgs.c`) | red-black tree, hash table, message queue | | |

Interaction. The program and the generator thread share `Ecma119Image`, the node
tree and the fifo. All access to the fifo is under its mutex; the node tree has
no lock, the program is expected to leave it alone until
`iso_image_generator_is_running()` says so. The writers are called in list order,
first all `compute_data_blocks()` in the program's thread, then all
`write_data()` in the generator thread: the second pass relies on what the first
one predicted.

The hard behaviours are therefore: two threads at one fifo with both sides
leaving at any time; shared ownership of the target between thread and program;
failure in the middle of creation or of writing, after nodes were changed; files
which change between the two passes; iterators over lists which change meanwhile.
`PROJECT.json` lists them line by line under "hazards".

## Modules

| Module | Models | Role |
|---|---|---|
| `ByteChannel` | what a consumer may rely on | abstract specification |
| `RingBuffer` | `buffer.c` | implements `ByteChannel` |
| `BurnSource` | `ecma119.c` 2180-2290 and 2740-3400 | life cycle of target, thread and source, over an abstract fifo |
| `BurnSourceProofs` | | theorems about `BurnSource` |
| `NodeTree` | `node.c` | nodes, directories, iterators |
| `NodeTreeProofs` | | theorems about `NodeTree` |
| `SessionMd5` | `md5.c`, `node.c`, `filesrc.c`, `ecma119.c` | checksum indices over several runs |
| `SessionMd5Proofs` | | theorems about `SessionMd5` |
| `AttrList` | `aaip_0_2.c`, `node.c` 1609-2053 | attribute lists: encoder, decoder, merging |
| `FileSrc` | `filesrc.c`, `system_area.c`, `eltorito.c` | the two passes of the file writer |
| `FileSrcProofs` | | theorems about `FileSrc` |
| `Susp` | `rockridge.c` | operators: prediction and composition of the SUSP fields of one record |
| `DirTree` | `ecma119.c` 162-975 | the two passes over the directory tree, with `Susp` for each record |
| `DirTreeProofs` | | theorems about `DirTree` and the operators of `Susp` |
| `Mangle` | `util.c`, `mangle_single_dir()` of three files | operators: conversion and unique mangling of names |
| `LowTree` | `ecma119_tree.c`, `joliet.c`, `iso1999.c` | the three low level trees, inode numbers, relocation |
| `HfsTree` | `hfsplus.c`, `iso_tree_resolve_symlink()` | HFS+ catalog and symbolic links in it |
| `Streams` | `stream.c`, `filter.c`, `filters/zisofs.c`, `filters/gzip.c` | stream objects and filters inside of the library |
| `ExtFilter` | `filters/external.c` | library and child process at two pipes |
| `StreamCmp` | `stream.c`, `fs_image.c` | order of streams |
| `SystemArea` | `system_area.c`, `make_isohybrid_mbr.c` | operators: partition requests and tables |
| `ImageLayout` | `ecma119.c` with `SystemArea` | all writers: compute, head, write |
| `LayoutProofs` | | theorem about `ImageLayout` and the partition requests of `SystemArea` |
| `ElTorito` | `eltorito.c`, reader in `fs_image.c` | boot catalog |
| `IntervalReader` | `ecma119.c` 1548-2069 | copying byte intervals of files or of the old image |
| `ReaderProofs` | | theorems about `RingBuffer`, `ExtFilter`, `IntervalReader` and `ElTorito`; refinement of `ByteChannel` |
| `RrRead` | `rockridge_read.c`, `iso_file_source_new_ifs()` | operators: what a directory record means |
| `ImageSource` | `fs_image.c`, `data_source.c`, `fsource.c` | filesystem and file sources of a loaded image, with `RrRead` |
| `ImageImport` | `fs_image.c` | `iso_image_import()` with all its failures |
| `ImageImportProofs` | | theorems about `ImageImport` |
| `TreeBuild` | `tree.c`, `builder.c`, `find.c` | building, cloning and searching the node tree |
| `MC...` | | instances for TLC |

Correspondence of state and actions:

* **RingBuffer.** The variables `buf, size, rpos, wpos, rend, wend` are the fields
  of `struct iso_ring_buffer`. The code between two releases of the mutex is one
  action. A thread in `pthread_cond_wait()` is in step "wait"; a signal or a
  spurious wake-up brings it to "run". Byte number i of the image is the
  number i, so that "the right byte" is a statement about numbers.
  `ReaderClose` may happen at any time, as `bs_cancel()` comes from another
  thread than `bs_read()`.
* **BurnSource.** `target[s]` is the `Ecma119Image` of source s with the fields
  that the life cycle depends on; `app[s]` and `thr[s]` are the program counters
  of the program inside a library call and of `write_function()`. The fifo is
  counted in blocks, without positions, which is what `ImplementsChannel` permits.
  The mark `wthread_is_running` is set after `pthread_create()`, as in the code,
  so the thread may have ended before.
* **NodeTree.** `node` is the memory of the nodes, `held` the references the
  program owns, `iter` and `reg` the iterators and the list of registered ones.
  `iso_node_take()` first notifies the iterators, newest first; the first one that
  stands at the node already unlinks it, by which the older ones there do not move.
  Two fields of an iterator are history variables of the properties: `due`, the children
  which were there from the start of the iteration, did not leave, and were not returned;
  and `lost`, whether it ever stayed at a node which left the directory, be it only for
  the moment of a renaming (`Commit`). `due` does not depend on `lost`.
* **SessionMd5.** `file[f]` has attribute and xinfos of a file, `run` the state of
  one write run. An MD5 is represented by the number of the content it belongs
  to. Each of the steps in which something can fail is an action. The image may come
  without its array. `run.astray` is a history variable: the nodes hold, or held, indices that do
  not belong to the array. `CancelRestore` is `process_preserved_cx()` at `write_error`,
  which restores what was recorded and deletes all other indices.
* **AttrList.** `aa` is the string of AL fields that a node holds, `dec` the decoder
  (`struct aaip_state` with its ring buffer and the buffers of the current pair), `dpc` the
  place inside of `iso_aa_get_attrs()`: one action per consumed head or record part,
  fetched component and reply. Sizes are scaled down together (fields of 9 bytes, records
  of 4, chunks of 22, first buffers of 6, memory of 260), so that each of the heads gets cut
  by fields and by chunks, buffers grow, and the limit is met. `asked` is the list as
  `libisofs.h` describes the effect of the calls. `trust` is a history variable: it tells whether the list
  can be expected back, only its values by name, or nothing, because of the four
  disagreements below.
* **FileSrc.** Blocks carry the source and the index they belong to. The first
  pass computes addresses, the second appends blocks to `out` without looking at
  them. Files may be missing, change size or give read errors at any block.
  Arithmetic on sizes is in `size_t` where the code may underflow.
* **Susp.** Only lengths count: of the names, of the components of link targets, of
  the AL fields. `RripCalcLen` is `rrip_calc_len()` with the three tries of
  `susp_calc_nm_sl_al()`, `Compose` is `rrip_get_susp_fields()`. Both call the
  operators for the helper functions which the code also shares (`AddToCe`,
  `PlaceZf`, `PlaceAl`); the decisions which the code takes twice by separate text
  (name and link target) are modelled twice. A CE field has its block, offset and
  size, as `susp_update_CE_sizes()` leaves it. Addresses are not reduced by the
  partition offset.
* **DirTree.** `CalcDirPos` and `CalcPathTables` are the first pass, one action per
  directory; `WriteRecord`, `WriteDirEnd` and `WritePathTables` the second, one
  action per directory record. `plan` holds what the first pass stores in the
  nodes, together with the lengths per record, which the code only adds up. `todo`
  is the call stack of the recursion. The change of the attribute "isofs.ca" for
  the second tree keeps its length and is left out.

* **Mangle, LowTree.** A character is a number in ASCII order; ten digits become two and
  all length limits are scaled down, so that a directory of six names exhausts the
  numbers of one digit. A low level tree is made in the steps of the code: create,
  mangle, relocate, mangle again, number the hardlink families. An image of the run
  is one of several thousand small trees.
* **HfsTree.** Each node yields a record leaf and a thread leaf. Renaming moves a leaf
  in the sorted list while the list is scanned (`mangle_leafs()`), and each renaming
  updates the targets of symbolic links (`update_symlink()`).
* **Streams.** The methods of the stream classes call each other, hence one
  recursive operator over the heap of streams. Bytes have no values, only lengths:
  of the content, of its compressed form, of each zisofs block.
* **ExtFilter.** One action per system call of `extf_stream_read()` and per step of
  the child. A read of the library may give up after an error; nothing is assumed
  about the child but that it goes on as long as it can.
* **SystemArea, ImageLayout.** The target `t` has the fields which layout and tables
  depend on. Each writer is one action in each of the two passes. The head is made
  once or, for overwriteable media, twice. `log` records what was really written to
  which blocks; the tables are compared with it.
* **ElTorito.** The catalog is a sequence of 32-byte slots, written from the images in
  memory and read by `read_el_torito_boot_catalog()`. References of nodes are counted.
* **IntervalReader.** Byte a of the source is the number a + 1, zeroized bytes are 0.
* **RrRead, ImageSource.** A directory block is a sequence of records with their SUSP
  fields, and any block may be unreadable. `heap` holds sources, their references and
  the open count. Reading a directory is one action per block and per record.
* **ImageImport.** The steps of `iso_image_import()`, each of which may fail. Objects are
  named by the import which created them, so that "the old tree is back" is an equation.
  `cur.ret` is the result of the call and `cur.was` the IsoImage before it. The read error
  in the checksum array has a result of its own ("unread"), because it is the one failure
  after which all that is new stays.
* **TreeBuild.** `tree` holds the nodes, `rec` the call stack of
  `iso_add_dir_src_rec()`: one action per file of the source directory. Names are
  sequences of characters, as `make_really_unique_name()` increments them.

## Runs

| Run | Bounds | Shows |
|---|---|---|
| `RingBuffer` | ring of 4 bytes, image of 7, writes of 0, 1, 2, 5, reads of 0, 1, 3 | positions wrap at every alignment, calls larger than the ring; safety, liveness and refinement of `ByteChannel` |
| `BurnSource` | two sources after each other, image of 2 blocks, fifo of 1 or 3 | the generator has to wait; overwrite buffer fits or does not; failure at every step of creation |
| `NodeTree` | root, directory, two files, three names, two iterators which walk together only through the root | counts and tree for every sequence of calls; complete iterations by iterators which were moved off each node that left, and which these are |
| `NodeTreeSkip` | the same nodes | *violation*: of two iterators at a renamed child the older one skips children without ISO_ERROR |
| `SessionMd5` | two hard links, one further old file, one new file, three runs, six kinds of options, array loaded or not; attribute lists of up to four pairs in three calls with six sets of flags, seven imported strings; of import: three families of images with all ways to split names and links, three sources at a time; six ISO images of up to four files (`MaxFiles`) and two boot entries, two imports after each other | MD5s stay with their files, recorded indices come back after a failed run; attributes are read back as set or imported, damaged strings refused; directories and data read back, references exact, the image all old or all new as the result tells |
| `SessionMd5Failed` | the same files | *violation*: a failed creation leaves wrong indices behind |
| `SessionMd5Cancel` | the same files | *violation*: a cancelled run which recorded no indices deletes those of all loaded files |
| `FileSrc` | two sources, sizes 0, 5, 6, 10 with blocks of 2 and extents of 4 bytes, all options | one, two and three sections with full and partial last block, empty files, EFI partition; prediction equals result |
| `Trees` | directories of two, three and six names out of a pool, ten sets of name options; two chains of directories up to depth 6 with limit 3; three files with inode numbers at the wrap-around; HFS+ trees of seven nodes with colliding names and links; of node trees: source directory of six files with colliding names, seven nodes, three calls, one failing file | names legal and unique, inode numbers as the families demand, relocation loses nothing, HFS+ catalog sorted and its links lead to the same files; all nodes found, imports complete, clones faithful |
| `Streams` | four stream objects, two files, five stackings, a source that changes once; pipes of one load; 14 streams to compare | references and pointers exact, announced content delivered, reads of external filters return, order total |
| `Layout` | about 4400 option sets in four families; one boot file with up to three entries; intervals of up to 11 bytes in blocks of 4; of directory trees: four directories and two other nodes in two shapes, blocks of 2048 bytes, real field lengths, 9 x 7 kinds of nodes, five option sets | tables equal what is written, catalog read back, intervals copied; names, links and attributes at the limits of record and block, hops between blocks of continuation areas, two trees; prediction equals result |
| `ImportFailed` | the images of `SessionMd5` | *violation*: a failed import leaves the new tree installed |

The bounds hold the cases that the code distinguishes: a ring that wraps, a call
longer than the ring, a child with predecessor and successor, a file of one
section that is larger than the extent size (5), of exactly one block more (6)
and of three sections (10). In `DirTree` the lengths are chosen around the limits:
a single SL field that just fits or just does not fit into the record (63, 64, 71,
72 bytes, for PX fields of 36 and of 44 bytes), link components that must be divided
(249 bytes and more), attributes of more than one and more than two blocks, a block
that gets filled to the last byte by its CE, and a file of 16 sections whose
records waste enough bytes at block ends to need a further block. The runs `Streams`, `Layout`, `Trees`
and `SessionMd5` each hold several machines which share no state: a behaviour goes on
in one of them while the others are in an initial state. So `SessionMd5` (module `MCSessions`,
which extends `MCImport`) checks `SessionMd5`, `AttrList`, `ImageSource` and `ImageImport`; `Streams`
(`MCStreams`) checks `Streams`, `ExtFilter` and `StreamCmp`; `Layout` (`MCDirTree`, which
extends `MCLayout`) checks `ImageLayout`, `ElTorito`, `IntervalReader` and `DirTree`; `Trees`
(`MCTrees`, which extends `MCTreeBuild`) checks `LowTree`, `HfsTree` and `TreeBuild`. The guard
`ImportBound` of `MCImport` and the state constraint of `NodeTree`
limit which objects are in use at the same time. Otherwise all
state spaces are explored completely. Deadlock is checked for the ring buffer and for
the trees; the other systems may stop, because a program need not make another call.

Several invariants of a run are conjunctions of named parts, for instance
`SectionsSound` of `DataWhereRecorded`, `EmptyFileHarmless` and `SectionsCoverFile`;
the comments at the parts tell what each one is about.

Each violation run states what a comment of the code or of `libisofs.h` promises and the
code does not keep. The properties of the passing runs which are next to them say for
which cases the promise is kept: `Md5AlwaysSound` and `Md5Sound`, `CancelKeepsIndices` and
`CancelRestoresIndex`, `FailedImportRestores` and `ImportAllOrNothing`, `SkipsAreReported`
and `IterationSound`, which joins `IterationComplete` and `LostOnlyIfShared`. The other disagreements are quoted in `PROJECT.json` "findings" without a run; the
models either contain them as the code behaves or exclude them by their inputs.

The most important ones:

* `iso_node_remove_tree()` (`node.c:867`) tests the node type the wrong way round,
  so that directories are removed as plain nodes and plain nodes are treated as
  directories, against `libisofs.h:5481`.
* `bs_set_size()` changes the limit which the generator enforces, although
  `libisofs.h:9377` calls it a note of libburn to itself. `BsSetSize` models it;
  the run `BurnSource` only uses the true size.
* A link component of more than 248 characters which is not the last one gets the
  rest of the whole target attached (`rockridge.c:1889`, operator `Remainder`).
* The attributes of the root directory are predicted as if no ER fields preceded
  them in the continuation area (`rockridge.c:1541`).

* A symbolic link whose SL field stays in the record next to attributes makes the two
  passes disagree (`rockridge.c:2006`), and `susp_update_CE_sizes()` computes a wrong size
  if attributes leave just 28 bytes of a block (`rockridge.c:2156`). The instances in
  `MCDirTree` stay away from these cases and the two before.
* An iterator at a node which somebody else takes moves back, after which
  `iso_dir_iter_take()` takes a node which it did not return last (`node.c:959`).
* Of two iterators at a node which is taken only the newer one moves back (`node.c:972`).
  If the node is inserted again in the same directory (`iso_node_set_name()`), the older
  one goes on from the new place: children which never left are skipped, and
  `iso_dir_iter_next()` returns 0 instead of ISO_ERROR (`node.c:737`, run `NodeTreeSkip`).
* `write_error` restores checksum indices in every failed run (`ecma119.c:2294`). Where none
  were recorded, with MD5 off or only of the session in a run that does not append, this
  deletes the indices of all loaded files (`ecma119.c:1321`, run `SessionMd5Cancel`).
* A failing import before the new root exists disposes the old root
  (`fs_image.c:5918`; `ImportAllOrNothing` does not demand then that the objects exist), and a
  read error in the checksum array leaves the new tree installed although the call fails
  (`fs_image.c:6177`, run `ImportFailed`). The number of checksums does not return with the
  old array (`fs_image.c:6206`); the property speaks of tree, catalog and array.
* `ifs_lseek()` changes the offset before it reads the block (`fs_image.c:1012`).
* An attribute list whose last value is empty is damaged or lost (`aaip_0_2.c:1304`), a
  name with two name spaces loses the first one (`aaip_0_2.c:237`), a name that is
  nothing but a name space takes the value for the name (`aaip_0_2.c:204`), and a call
  which both overwrites and adds attributes stores the overwritten ones twice
  (`node.c:1939`). `AttrList` behaves so; `AttributesReadBack` demands for such lists only
  what is left.
* The replace mode has no effect in recursive addition (`tree.c:1079`), against
  `libisofs.h:6143`; merging a directory with itself does not end (`tree.c:1387`).
* The relocation directory is mangled again without having been sorted
  (`ecma119_tree.c:1284`).

## Fairness

`RingBuffer` assumes weak fairness for the steps of the generator thread (it makes
the calls it needs and closes in the end, which is what `write_function()` does on
every path) and for the steps of a reader inside a call. Nobody is forced to call
read or close. `BurnSource` assumes weak fairness of the thread, of a program inside
`ecma119_image_new()` and inside `bs_cancel()` or `bs_free_data()`. `ExtFilter` assumes weak fairness of the
library inside a read call and of the child process, which are two processes of the
same system. This is the
scheduling of any preemptive operating system; a thread in `pthread_cond_wait()` or
`pthread_join()` has no enabled step until it is woken.

## Proofs

A theorem holds for every value of the constants that satisfies the assumptions of its
module: any sizes of fifo and pipes, any number of files, sources and imports, any file
sizes and any order of failures. Each proof strengthens the property to an inductive
invariant, proves one lemma per action (or group of similar actions) and combines them.
The inductive invariants were checked by TLC on the small instances first, except that
of `DirTreeProofs`, which speaks of any order of visits and is only proved.

**`ReaderProofs`, the ring buffer.** `Invariant`: `Spec => []IndInv`; `WakeupsAreNotLost`,
`DeliveryInOrder`, `EofOnlyWhenComplete` and `TypeCorrect` follow. `StreamInOrder` is not
inductive: it needs `RingContent`, which says that the ring from `rpos` on holds the bytes
sent and not delivered, modulo capacity. `EofMeansComplete` needs `EofSound` (the ring was
empty when the end was told and nothing enters it any more) and `WriterProtocol` (success
is closed only with the whole image sent). Lemmas about one wrap-around carry the
arithmetic modulo capacity. `RingImplementsChannel` is the refinement of `ByteChannel`:
initial states map to initial states, and under `IndInv` each copied chunk, each close and
each told end is a step of the channel, all else a stutter.

**`BurnSourceProofs`.** `LifeCycle`: `Spec => []LifeInv`. `NoUseAfterFree` and the
counts are not inductive, because they say nothing of when a count may fall. `LifeInv` says
per source which steps of the program and of the thread go together (the program joins only
a thread that was created, and frees only after joining or when there is none), counts the
owners of the target (`ProgramHolds`, `ThreadWorks`) and of the image (`ImageCounted`, the
cardinality of the living targets), and allows one generator at a time to work on the nodes.
`TargetsOutliveUsers`, `CountsExact` and `TypeCorrect` follow. `PredictionKept` has the
hypothesis `FixedSizes \subseteq {ImageBlocks}`: `bs_set_size()` is only told the true size,
as in the run; any other size changes what `iso_write()` enforces (`ecma119.c:3361` in
"findings").

**`FileSrcProofs`.** `WriterInvariant`: `Spec => []WriterInv`, for both passes.
In the first pass `WriterInv` knows a place for each file of the list, so that files do not
overlap (`Places`), and which sections are final (`Planned`, then `Final`); in the second
one how many blocks have been written up to the current one (`Progress`), that each block
written so far belongs to the file whose place it is (`Contents`), and how much of the file
the MD5 context has seen (`Summed`). `SectionsLeadToTheirData`, `BlocksWrittenAsCounted` and
`ChecksumRightUnlessReported` are the properties of the run `FileSrc`. Needed on the way: the
arithmetic of sections (`Parts`: the sections of `iso_file_src_create()` have together just
the blocks of the file), sums over section lists (`SectionSum`; a fold has no induction rule
here, so `SumIs` shows that any function which satisfies its equation gives its value), and
that the unsigned subtraction for the length of the last block does not wrap
(`BlockOfDigest`).

**`LayoutProofs`.** `LayoutComputed`: `Spec => []LayoutAsComputed`, for any sizes and all
options, over writers whose number and order the options decide. The property only speaks of
what was written. `LInv` says of the first pass (`ComputeGood`) that each writer passed so far
has the place due to it, the start or the end of its predecessor (`Due`); of the steps between the passes that they leave all places alone
(`PlacesFixed`), although sorting, filling up and dropping partition requests, aligning the
image and appending partitions change the target; and of the second pass that it stands where
the next writer is due. The bulk of the proof is what the operators of `SystemArea` leave
alone: lemmas about `iso_quick_apm_entry()`, `iso_quick_gpt_entry()`,
`assess_isohybrid_gpt_apm()`, `assess_appended_gpt()`, `fill_apm_gaps()`, `rectify_apm()`,
`precompute_gpt()` and `iso_align_isohybrid()`. `SunCylAssumption` and `OptionsAssumption` say
that the cylinder size is positive and that sizes and addresses in the options are numbers.
The property exempts checksums of files without a session checksum (`md5 = 1`), for which
`checksum_writer_compute_data_blocks()` counts one block too many.

**`ReaderProofs`, three readers of bytes.**
`FilterComplete` (`ExtFilter`): a part of `FilteredContent`. The invariant counts the loads of
input and output in the library, in the two pipes and in the child. `XSafety` is `XSpec`
without fairness.
`IntervalsCopied` (`IntervalReader`): `IvrSpec => []IntervalCopied`. `IvrInv` relates
the reader's position in its source, the pending bytes of the block before and the count of
bytes delivered to each other: what was delivered so far is the expected prefix (`Copy`,
`Written`), pending bytes are the ones that follow it, and the next fetch begins just behind
them (`Behind`, `Positioned`). `DeliverCopies` carries that over one delivered block; one lemma
for each kind of reading leads to it (`RoundImported`, `RoundAligned`, `RoundPending`).
`ZeroizeIs` states what the zeroizers leave. The property exempts short counts of `read()`, and
`Readable` the intervals for which the code loses or repeats bytes (`ecma119.c:2018` in
"findings"); the proof attempt gave `Readable` its present form.
`CatalogKept` (`ElTorito`): `EltSpec => []CatalogSound`, for any number of boot images up to
`MaxImages`. `EltInv` says that references are owned by the tree, by the catalog for its own node
and by its images (`RefsCounted`; `Holders` is the number of places of a node), that the
slots are those of the present images as long as a run lasts, and that what was imported came
from these slots. `CatalogReadBack` is the lemma on data: both loops, the
one of `catalog_open()` over sections of images and the one of
`read_el_torito_boot_catalog()` over headers of sections, are recursive functions without an
induction rule. `LoopExists` shows that a loop which goes forward to an end has a
function, by taking the least number of steps from the end for which there is none; `FoundFrom`
takes the last image at which the two loops would disagree and contradicts it, because the
section which begins there ends before a later image (`SectionEndIs`, `SectionIs`).
`EltAssumption` says that there may be an image and that setters are given integers.

**`ImageImportProofs`.** `ImportIsAtomic`. The invariant `AllOrNothingInv` says for each
step of `iso_image_import()` whether the pointers of the image are its own, put aside, or
replaced; that image and saved pointers each belong to one import (`OneImport`); and that
just the roots and catalogs they point to exist (`Exists`). `PointersInv` relates them to the
image before the call (`cur.was`): equal until they are put aside, equal to the saved ones until
`import_revert` or the end, and equal again after a revert, so that the result of the call tells
which content is there. The existence of the objects, not the equality of the pointers, is exempted after
imports which were reverted before they had a root (`early`). `ReferencesCounted` needs more
than the counts of `ImportReferences`: `RefInv` adds that the loops over files and boot images give
a node to each of them only once (`FilesSoFar`, `ImagesSoFar`: the nodes still to be made have no
reference, the images passed have a node), that an import has no nodes before its tree is loaded
(`Fresh`), and that only an unfinished or failed import has an incomplete catalog (`Settled`). The
places of a node in the catalog are counted by cardinality (`Held`); `HeldNode` and `HeldImage` say
how one more entry changes that, `CreateCounts` and `HiddenCounts` what
`image_builder_create_node()` makes of it, `DropCounts` that disposal leaves no reference.
`RefInv` rests on `AllOrNothingInv` and has the exemption `early`. The proof attempt showed
that `el_torito_boot_catalog_free()` has to be modelled per place: a catalog may hold a node twice.
`ImSafety` is the part of the specification of `MCImport` which belongs to this module.

**`SessionMd5Proofs`.** Lemma `SessionInvariant`: `Spec => []SessionInv`. `Md5Sound` only
speaks of the time between runs; `SessionInv` says what holds within one: the saved index
belongs to the array still in effect (`SavedSound`), the attribute does so before and after
the run (`AttributeSound`) and meanwhile is the new index of the file's content (`Assigned`),
no two contents share one (`Indices`), hard links agree (`LinksAgree`), an index
was given because data are written or an MD5 is known (`Justified`), which
`checksum_copy_old_nodes()` or the writing then puts into the new array (`Buffer`,
`BufferLength`). `FilesKeepTheirMd5` has no hypothesis. `KnownMd5sStay` needs
`Remembered` (which indices are recorded, and which come back) and the hypothesis `LinksUnchecked`: no old file submitted to
`iso_file_make_md5()` shares its data with another file, as in the run. Without it the MD5 may get lost
(`filesrc.c:130` in "findings"). Both properties exempt the time after indices went astray (`run.astray`):
a failed creation left new ones behind (run `SessionMd5Failed`), no array was loaded for the
imported ones, or a run with appendable off replaced the array and left older
indices beyond it. The proof attempt brought up the latter two.

**`NodeTreeProofs`.** `TreeInvariant`: `Spec => []IInv`. `IInv` says of the memory of the nodes
(`Good`) that children and parents agree (`Linked`), the lists are sorted, no directory is
below itself (`Grounded`: every set of nodes without the root has a member whose parent is
outside), dead nodes hold nobody, and that each count is the number of owners besides the
directory (`Own`: program and iterators) plus one for a parent (`Owned`); and of each iterator
that it stands before all children it has still to return (`Walk`). None of the three
properties is inductive alone: a child list stays sorted only if no node is in two lists, freeing
a directory keeps the counts right only if what it frees is exactly what hung on it, and
an iteration is complete only because lists are sorted and a position is never freed. The lemmas
go along the functions of `node.c` (`RefGood`, `UnrefGood`, `InsertGood`, `ReplaceGood`, `TakeGood`,
`RenameGood`), with one lemma per call (`...Inv`) on top. A function may work on a tree which is not
good for a moment: `GoodBut` allows one node at a wrong place of its list (a renamed child
before it is taken and inserted again). `OneNotified` shows that of all registered iterators
at a taken node only the newest one steps back with a reference, for any number of them.
`IterationMissesNone` proves both parts of `IterationSound`. Its second part, `LostOnlyIfShared`,
is a property of steps and rests on three facts more: each open iterator is in the registry
(`Registered`), an iterator stays at a taken node only if a newer one stood there too (`Behind`, from
`OneNotified`), and a directory which lives on keeps its children (`ChildrenStay`).
`CountsExact`, `TreeAgrees`, `IterationMissesNone` and `TypeCorrect` follow. Freed nodes
(`FreedWith`) and the directories above a node (`Above`) are least sets, which need no recursion.

**`DirTreeProofs`.** `PathTablesSound`: `Spec => []PathTableSound`, for any tree. The list of
directories goes level by level, so parents come before their children and in the same order,
and the search for the parent which goes on from the previous one misses none
(`PathTableHasParents`). `DirectoriesFound`: `Spec /\ [](PredictionExact /\ RecordsFit) =>
[](DirectoriesReachable /\ TreeEndAsPredicted)`. The hypothesis speaks of one record at a
time: the second pass composes it with the length and Continuation Area bytes which the first
pass predicted; TLC checks it on the run `Layout`, and it is not proved (see below). The theorem
carries it to whole trees: blocks of directories and Continuation Areas, CE fields, path tables and
the end of the tree agree, for any number and nesting of directories and any number of records.
`IInv` has these parts. `Laid` and `Fresh` say of the recursion of `calc_dir_pos()` that what it has placed lies
without gaps in the order in which it calls itself, and what its call stack holds is not
placed yet; `write_dirs()` takes the same order, so the second pass always stands at the start
of the next directory. `Writing` and `Recording` compare, record by record, the two computations
of block borders, in `calc_dir_size()` and in `write_one_dir()`, and the bytes collected for the
Continuation Area. `InfoOK` says that `ce_len` is what `rrip_write_ce_fields()` will
write; it rests on lemmas about all operators of `Susp` which append fields (`ComposeOK`), and
on `susp_update_CE_sizes()` changing no length (`UpdateOK`). `PathTableFits` equates the size of the path
table, a sum over the set of directories in the first pass and over a list in the second one. `TreeAssumption` says
that the low level tree is a finite tree in which each node but the root is in one list of
children, and that the length of a name fits into one byte.

Only model-checked, and why:

* the liveness properties (`CallsEnd`, `CallsReturn`, `FilterReadReturns`), as liveness under
  fairness is out of reach of the prover;
* `AttrList`, `Streams`, `Mangle`, `LowTree`, `HfsTree`, `TreeBuild`, `StreamCmp` and `RrRead`
  (with `ImageSource`): they describe recursive functions of the code by RECURSIVE operators;
* of `DirTree` what is said of one record: that its fields are composed as predicted and fit
  (`PredictionExact` and `RecordsFit` in `PassesAgree`), and that a reader gets them back
  (`RecordReadBack`). They compare two loops over the fields of a record, name by name and
  component by component, each step of which is data of a fold;
* `TablesSound` of `ImageLayout`: it compares the contents of all partition tables with what
  was written, for each kind of label; its invariant was not proved.

## Not modelled

Operating system adapters (`fs_local.c`, `aaip-os-*.c`), the text form of ACLs
(`aaip_encode_acl()`, `aaip_decode_acl()`), character set conversion, Unicode tables of HFS+, the
compression algorithms, the MD5 and CRC algorithms, red-black tree and hash table, message
texts and queue, the evaluation of an imported system area for reports, demos. They are
I/O, data or mathematics of their own. Header files declare and describe; `libisofs.h`
alone has 9472 lines of API documentation and holds no code to model.

What the modules simplify:

* **Layout.** Directory trees and files are sizes. Intervals kept from the old image exist
  for appended partitions, not for EFI and PReP. CHS addresses in disk labels are not
  computed. A partition with empty path occurs with SUN labels only. In `ImageLayout` the
  old isohybrid MBR replaces all other tables, as the code does.
* **AttrList.** The ACL is the pair with the empty name; it is not translated to or from
  text. Replacing the list while the ACL of the node is kept (bit3 without bit0) is left
  out, as is lack of memory in the encoder.
* **Trees.** A dedicated relocation directory is new and empty. UTF-16, Unicode
  decomposition and the HFS+ allocation bitmap are left out, link targets are
  sequences of components. Loaded nodes of different types do not share an inode number.
* **Import.** Contents of TF and PN, name lists above 4095 bytes and lack of memory in the
  parser are left out; the digest in a truncated name is one symbol. A directory whose
  opening failed is not opened again. A boot entry which points to the block of the catalog
  itself is modelled as far as references go. The order of volume descriptors does not matter, as
  there is one of each kind. Only closed sources get cloned. Messages abort from
  FAILURE or from SORRY on.
* **TreeBuild.** Names of source files fit without truncation (`SourceNamesFit`), because
  the code looks for the place before it truncates. Boot catalog nodes are not cloned. A
  directory is not merged with itself. Exclusion patterns match or do not match a file.

## Plan

Done: proofs about ring buffer, node tree, burn source, file writer, checksums over sessions, external
filter, interval reader, boot catalog, layout, directory tree and import; models of these and of node tree, checksums over sessions, file
writer, SUSP fields, ECMA-119 directory tree, low level trees, HFS+ tree, layout with
system area, boot catalog, interval reader, streams and filters, import, tree building,
attribute lists.
Next, in this order:

1. Proofs: that `AddToCe` and `AppendCe` place the fields of a record alike, which is the hypothesis
   of `DirectoriesFound` and leads to `PassesAgree`; `TablesSound` for one kind of label after the other.
2. The evaluation of an imported system area, as the inverse of `SystemArea`.
3. Red-black tree and message queue.
4. The text form of ACLs.

------------------------------ MODULE BurnSource ------------------------------
(***************************************************************************)
(* libisofs/ecma119.c: the life of a burn_source, from                     *)
(* iso_image_create_burn_source() over the generator thread to             *)
(* bs_free_data().                                                         *)
(*                                                                         *)
(* One image, several burn sources made from it one after the other.  Each *)
(* source has an Ecma119Image ("target") which is shared by the program    *)
(* that holds the source and by the generator thread; who lets go last     *)
(* frees it.  The fifo is the abstract channel which RingBuffer is shown   *)
(* to implement, counted in blocks.                                        *)
(***************************************************************************)
EXTENDS Integers, FiniteSets

CONSTANTS
  NumSources,    \* how many burn sources the program creates
  Options,       \* the IsoWriteOpts in use: [fifoSize, overwrite, willCancel]
  MinBlocks,     \* 32: least size of the fifo, and room for a superblock
  SystemArea,    \* 16: blocks before the first volume descriptor
  VolDescs,      \* volume descriptors in the first head, with terminator
  PartVolDescs,  \* volume descriptors in the second head, with terminator
  PartOffset,    \* iso_write_opts_set_part_offset(), 0 = no second head
  ImageBlocks,   \* what the writers of the target produce in write_data()
  FixedSizes     \* sizes which the consumer programs by bs_set_size()

ASSUME BlockAssumption ==
  /\ NumSources \in Nat
  /\ Options \subseteq [fifoSize : Nat, overwrite : BOOLEAN,
                         willCancel : BOOLEAN]
  /\ FixedSizes \subseteq Nat
  /\ MinBlocks \in Nat \ {0} /\ SystemArea \in Nat /\ PartOffset \in Nat
  /\ VolDescs \in Nat \ {0} /\ PartVolDescs \in Nat
  /\ SystemArea + VolDescs =< MinBlocks
  /\ SystemArea + PartVolDescs =< MinBlocks
  /\ ImageBlocks \in Nat \ {0}

Sources == 1 .. NumSources    \* in the order of their creation

VARIABLES
  owned,       \* the program still holds its reference to the image
  imageRefs,   \* refcount of the IsoImage
  genRunning,  \* image->generator_is_running
  app,         \* [Sources -> step of the program that holds the source]
  thr,         \* [Sources -> step of write_function()]
  target       \* [Sources -> memory of the Ecma119Image, see Targets]

image == <<owned, imageRefs, genRunning>>
vars  == <<image, app, thr, target>>

\* The fields of an Ecma119Image which matter here, with those of its ring
\* buffer; mem tells whether the memory is valid, report what complaint the
\* generator has issued.  Sizes are in blocks.
Targets == [mem : {"none", "live", "freed"}, refcount : Nat,
            wthreadIsRunning : BOOLEAN,
            fifoSize : Nat, overwrite : BOOLEAN, willCancel : BOOLEAN,
            fill : Nat, wend : 0 .. 2, rend : 0 .. 2,
            bytesWritten : Nat, totalSize : Nat,
            report : {"none", "ISO overwrite", "damaged"}]

NoTarget(mem) == [mem |-> mem, refcount |-> 0, wthreadIsRunning |-> FALSE,
                  fifoSize |-> 0, overwrite |-> FALSE, willCancel |-> FALSE,
                  fill |-> 0, wend |-> 0, rend |-> 0,
                  bytesWritten |-> 0, totalSize |-> 0, report |-> "none"]

Init ==
  /\ owned = TRUE /\ imageRefs = 1 /\ genRunning = FALSE
  /\ app = [s \in Sources |-> "none"]
  /\ thr = [s \in Sources |-> "none"]
  /\ target = [s \in Sources |-> NoTarget("none")]

\* iso_ring_buffer_new(): capacity of the fifo.
Cap(s) == IF target[s].fifoSize > MinBlocks THEN target[s].fifoSize
                                            ELSE MinBlocks

\* Steps of the program inside of iso_image_create_burn_source().
Creating == {"new", "writers", "layout", "head1", "head2", "start", "mark"}

App(s, from, to) == app[s] = from /\ app' = [app EXCEPT ![s] = to]
Thr(s, from, to) == thr[s] = from /\ thr' = [thr EXCEPT ![s] = to]

\* ecma119_image_free(): gives up one reference, frees with the last one and
\* then releases the image, too.
ImageFree(s) ==
  IF target[s].refcount > 1
  THEN target' = [target EXCEPT ![s].refcount = @ - 1] /\ UNCHANGED imageRefs
  ELSE target' = [target EXCEPT ![s] = NoTarget("freed")]
       /\ imageRefs' = imageRefs - 1

-----------------------------------------------------------------------------
(* iso_image_create_burn_source() and ecma119_image_new(), in the thread   *)
(* of the program.                                                         *)

\* Part 1: target with one reference, options cloned, image referenced.  The
\* program waits for the end of an earlier generation of the same image, as
\* iso_image_generator_is_running() tells it.
ImageNew(s, opts) ==
  /\ owned /\ ~genRunning
  /\ \A r \in Sources : app[r] \notin Creating /\ (r < s => app[r] # "none")
  /\ App(s, "none", "new")
  /\ target' = [target EXCEPT ![s] =
       [NoTarget("live") EXCEPT !.refcount = 1, !.fifoSize = opts.fifoSize,
          !.overwrite = opts.overwrite, !.willCancel = opts.willCancel]]
  /\ imageRefs' = imageRefs + 1
  /\ UNCHANGED <<owned, genRunning, thr>>

\* Part 2: the writers.
CreateWriters(s) ==
  /\ App(s, "new", "writers")
  /\ UNCHANGED <<image, thr, target>>

\* Part 3: the writers' compute_data_blocks(), which yields the total size.
ComputeSize(s) ==
  /\ App(s, "writers", "layout")
  /\ target' = [target EXCEPT ![s].totalSize = ImageBlocks]
  /\ UNCHANGED <<image, thr>>

\* Mutant: the fifo may be smaller than what has to be kept in it.
FifoUnchecked(s) == TRUE

\* The head of the image must fit into the fifo if it gets copied to the
\* overwrite buffer before any reader exists.
FifoSuffices(s) ==
  target[s].overwrite => target[s].fifoSize >= MinBlocks + PartOffset

CreateRing(s) ==
  /\ FifoSuffices(s)
  /\ App(s, "layout", IF target[s].overwrite THEN "head1" ELSE "start")
  /\ UNCHANGED <<image, thr, target>>

\* Blocks which the program puts into the fifo for the overwrite buffer.
Head(s) == CASE app[s] = "head1" -> SystemArea + VolDescs
             [] app[s] = "head2" /\ PartOffset > 0
                  -> PartOffset + PartVolDescs - VolDescs
             [] OTHER -> 0

\* write_head_part1() and write_head_part2(): the program itself fills the
\* fifo ...
WriteHead(s) ==
  /\ target[s].fill < Head(s) /\ target[s].fill < Cap(s)
  /\ target' = [target EXCEPT ![s].fill = @ + 1, ![s].bytesWritten = @ + 1]
  /\ UNCHANGED <<image, app, thr>>

\* ... and then reads it out by a single iso_ring_buffer_read().
ReadHead(s) ==
  /\ target[s].fill = Head(s)
  /\ App(s, "head1", "head2") \/ App(s, "head2", "start")
  /\ target' = [target EXCEPT ![s].fill = 0]
  /\ UNCHANGED <<image, thr>>

\* A run which the program announced to cancel gets no thread.
CreateWillCancel(s) ==
  /\ target[s].willCancel
  /\ App(s, "start", "open")
  /\ UNCHANGED <<image, thr, target>>

\* Mutant: the thread has to live on the reference of the burn_source.
CreateThreadNoRef(s) ==
  /\ ~target[s].willCancel
  /\ App(s, "start", "mark")
  /\ Thr(s, "none", "begin")
  /\ genRunning' = TRUE
  /\ UNCHANGED <<owned, imageRefs, target>>

\* Part 4: the thread gets its own reference before it exists.
CreateThread(s) ==
  /\ ~target[s].willCancel
  /\ App(s, "start", "mark")
  /\ Thr(s, "none", "begin")
  /\ genRunning' = TRUE
  /\ target' = [target EXCEPT ![s].refcount = @ + 1]
  /\ UNCHANGED <<owned, imageRefs>>

\* The thread may have ended already when this mark is set.
MarkThread(s) ==
  /\ App(s, "mark", "open")
  /\ target' = [target EXCEPT ![s].wthreadIsRunning = TRUE]
  /\ UNCHANGED <<image, thr>>

\* Label target_cleanup: any part up to pthread_create() can fail.
TargetCleanup(s) ==
  /\ app[s] \in Creating \ {"mark"}
  /\ app[s] = "start" => ~target[s].willCancel
  /\ target[s].fill < Head(s) => target[s].fill < Cap(s)
  /\ app' = [app EXCEPT ![s] = "gone"]
  /\ genRunning' = FALSE
  /\ ImageFree(s)
  /\ UNCHANGED <<owned, thr>>

-----------------------------------------------------------------------------
(* write_function(), the generator thread.                                 *)

\* Mutant: the blocks of the overwrite buffer stay in the account.
BeginNoReset(s) ==
  /\ Thr(s, "begin", "write")
  /\ UNCHANGED <<image, app, target>>

Begin(s) ==
  /\ Thr(s, "begin", "write")
  /\ target' = [target EXCEPT ![s].bytesWritten = 0]
  /\ UNCHANGED <<image, app>>

\* write_head_part() or a write_data() method has another block to write.
Pending(s) == thr[s] = "write" /\ target[s].bytesWritten < ImageBlocks

\* iso_write() would go beyond total_size.
Beyond(s) == target[s].bytesWritten + 1 > target[s].totalSize

\* Mutant: a full fifo does not stop the writer.
WriteBlockUnbounded(s) ==
  /\ Pending(s) /\ ~Beyond(s)
  /\ target' = [target EXCEPT ![s].fill = @ + 1, ![s].bytesWritten = @ + 1]
  /\ UNCHANGED <<image, app, thr>>

WriteBlock(s) ==
  /\ Pending(s) /\ ~Beyond(s) /\ target[s].fill < Cap(s)
  /\ target' = [target EXCEPT ![s].fill = @ + 1, ![s].bytesWritten = @ + 1]
  /\ UNCHANGED <<image, app, thr>>

\* iso_write() finds the fifo full and the reader gone: ISO_CANCELED.
WriteCanceled(s) ==
  /\ Pending(s) /\ ~Beyond(s)
  /\ target[s].fill = Cap(s) /\ target[s].rend # 0
  /\ Thr(s, "write", "error")
  /\ UNCHANGED <<image, app, target>>

\* iso_write() refuses to go beyond total_size, or a writer fails for reasons
\* of its own.
WriteFails(s) ==
  /\ Pending(s)
  /\ Beyond(s) \/ target[s].fill < Cap(s)
  /\ Thr(s, "write", "error")
  /\ target' = [target EXCEPT ![s].report =
                  IF Beyond(s) THEN "ISO overwrite" ELSE @]
  /\ UNCHANGED <<image, app>>

\* transplant_checksum_buffer() works on the image and on its nodes.
Transplant(s) ==
  /\ ~Pending(s)
  /\ Thr(s, "write", "transplanted")
  /\ UNCHANGED <<image, app, target>>

WriterCloseOk(s) ==
  /\ Thr(s, "transplanted", "closed")
  /\ target' = [target EXCEPT ![s].wend = 1]
  /\ UNCHANGED <<image, app>>

\* finish_libjte() succeeds: the end of the generation is announced ...
FinishOk(s) ==
  /\ Thr(s, "closed", "release")
  /\ genRunning' = FALSE
  /\ UNCHANGED <<owned, imageRefs, app, target>>

\* ... or fails, which leads to label write_error after all.
FinishFails(s) ==
  /\ Thr(s, "closed", "error")
  /\ UNCHANGED <<image, app, target>>

\* Mutant: the end is announced before the nodes are restored.
WriterCloseAnnounce(s) ==
  /\ Thr(s, "error", "restore")
  /\ target' = [target EXCEPT ![s].wend = 2]
  /\ genRunning' = FALSE
  /\ UNCHANGED <<owned, imageRefs, app>>

\* Label write_error: close the fifo ...
WriterCloseError(s) ==
  /\ Thr(s, "error", "restore")
  /\ target' = [target EXCEPT ![s].wend = 2]
  /\ UNCHANGED <<image, app>>

\* ... bring the nodes back into their old state by process_preserved_cx()
\* and announce the end.
RestoreNodes(s) ==
  /\ Thr(s, "restore", "releaseFailed")
  /\ genRunning' = FALSE
  /\ UNCHANGED <<owned, imageRefs, app, target>>

\* The thread gives up its reference.
Release(s) ==
  /\ Thr(s, "release", "verify") \/ Thr(s, "releaseFailed", "exit")
  /\ ImageFree(s)
  /\ UNCHANGED <<owned, genRunning, app>>

\* The thread looks into the target once more and compares the sizes.
VerifySize(s) ==
  /\ Thr(s, "verify", "exit")
  /\ target' = [target EXCEPT ![s].report =
       IF target[s].bytesWritten # target[s].totalSize THEN "damaged" ELSE @]
  /\ UNCHANGED <<image, app>>

-----------------------------------------------------------------------------
(* The methods of struct burn_source, in the threads of the consumer.      *)

\* bs_read() of one block.
BsRead(s) ==
  /\ app[s] \in {"open", "cancel"} /\ target[s].fill > 0
  /\ target' = [target EXCEPT ![s].fill = @ - 1]
  /\ UNCHANGED <<image, app, thr>>

BsSetSize(s, size) ==
  /\ app[s] = "open"
  /\ target' = [target EXCEPT ![s].totalSize = size]
  /\ UNCHANGED <<image, app, thr>>

\* iso_ring_buffer_reader_close()
ReaderClose(s, how) ==
  target' = [target EXCEPT ![s].rend = IF @ = 0 THEN how ELSE @]

\* bs_cancel(): close the reader end, with success if all was consumed ...
BsCancel(s) ==
  /\ App(s, "open", "cancel")
  /\ ReaderClose(s, IF /\ target[s].fill = 0 /\ target[s].rend = 0
                       /\ target[s].wend # 0 THEN 1 ELSE 2)
  /\ UNCHANGED <<image, thr>>

\* pthread_join() returns.
Joined(s) == target[s].wthreadIsRunning => thr[s] = "exit"

\* ... and wait for the thread.
BsCancelJoin(s) ==
  /\ Joined(s)
  /\ App(s, "cancel", "canceled")
  /\ target' = [target EXCEPT ![s].wthreadIsRunning = FALSE]
  /\ UNCHANGED <<image, thr>>

\* Mutant: bs_free_data() leaves the thread alone.
BsFreeDataNoJoin(s) ==
  /\ app[s] \in {"open", "canceled"}
  /\ app' = [app EXCEPT ![s] = "drop"]
  /\ ReaderClose(s, 1)
  /\ UNCHANGED <<image, thr>>

\* Mutant: the thread is awaited with the reader end still open.
BsFreeDataNoClose(s) ==
  /\ app[s] \in {"open", "canceled"}
  /\ app' = [app EXCEPT ![s] = IF target[s].rend = 0 THEN "free" ELSE "drop"]
  /\ UNCHANGED <<image, thr, target>>

\* bs_free_data(): close and join, unless the reader end is closed already.
BsFreeData(s) ==
  /\ app[s] \in {"open", "canceled"}
  /\ app' = [app EXCEPT ![s] = IF target[s].rend = 0 THEN "free" ELSE "drop"]
  /\ ReaderClose(s, 1)
  /\ UNCHANGED <<image, thr>>

BsFreeJoin(s) ==
  /\ Joined(s)
  /\ App(s, "free", "drop")
  /\ target' = [target EXCEPT ![s].wthreadIsRunning = FALSE]
  /\ UNCHANGED <<image, thr>>

\* Finally give up the reference of the source.
BsFreeRelease(s) ==
  /\ App(s, "drop", "gone")
  /\ ImageFree(s)
  /\ UNCHANGED <<owned, genRunning, thr>>

\* iso_image_unref() by the program.
ImageUnref ==
  /\ owned /\ owned' = FALSE
  /\ \A s \in Sources : app[s] \notin Creating
  /\ imageRefs' = imageRefs - 1
  /\ UNCHANGED <<genRunning, app, thr, target>>

-----------------------------------------------------------------------------
Create(s) ==
  \/ \E opts \in Options : ImageNew(s, opts)
  \/ CreateWriters(s) \/ ComputeSize(s) \/ CreateRing(s)
  \/ WriteHead(s) \/ ReadHead(s)
  \/ CreateWillCancel(s) \/ CreateThread(s) \/ MarkThread(s)
  \/ TargetCleanup(s)

Generate(s) ==
  \/ Begin(s) \/ WriteBlock(s) \/ WriteCanceled(s) \/ WriteFails(s)
  \/ Transplant(s) \/ WriterCloseOk(s)
  \/ FinishOk(s) \/ FinishFails(s)
  \/ WriterCloseError(s) \/ RestoreNodes(s) \/ Release(s) \/ VerifySize(s)

Consume(s) ==
  \/ BsRead(s) \/ BsCancel(s) \/ BsCancelJoin(s)
  \/ BsFreeData(s) \/ BsFreeJoin(s) \/ BsFreeRelease(s)
  \/ \E size \in FixedSizes : BsSetSize(s, size)

Next == ImageUnref \/ \E s \in Sources : Create(s) \/ Generate(s) \/ Consume(s)

\* Threads which can run do run: the generator, a program inside of a create
\* call, and a program inside of bs_cancel() or bs_free_data().  The program
\* is not forced to create, read, cancel or free.
Spec ==
  /\ Init /\ [][Next]_vars
  /\ \A s \in Sources :
       /\ WF_vars(Generate(s))
       /\ WF_vars(app[s] # "none" /\ Create(s))
       /\ WF_vars(BsCancelJoin(s) \/ BsFreeJoin(s) \/ BsFreeRelease(s))

-----------------------------------------------------------------------------
(* Properties.                                                             *)

\* The states of the program's and the generator thread's steps on a source keep
\* their types, and the ring buffer never holds more than its capacity.
TypeOK ==
  /\ owned \in BOOLEAN /\ imageRefs \in Nat /\ genRunning \in BOOLEAN
  /\ app \in [Sources -> Creating \cup {"none", "open", "cancel", "canceled",
                                       "free", "drop", "gone"}]
  /\ thr \in [Sources -> {"none", "begin", "write", "transplanted", "closed",
                          "error", "restore", "release", "releaseFailed",
                          "verify", "exit"}]
  /\ target \in [Sources -> Targets]
  /\ \A s \in Sources : target[s].fill =< Cap(s)

ThreadWorks(s)  == thr[s] \notin {"none", "exit"}
ProgramHolds(s) == app[s] \notin {"none", "gone"}

\* Neither the generator thread nor the program touches a target which was
\* freed.  write_function() looks into the target even after it has given up
\* its reference; only the pthread_join() in bs_cancel() and bs_free_data()
\* makes this safe.
NoUseAfterFree ==
  \A s \in Sources : ThreadWorks(s) \/ ProgramHolds(s) => target[s].mem = "live"

\* The counts are exact: the image stays as long as a target or the program
\* needs it, and a target has one reference per holder.  In the end nothing
\* is left over.
ReferencesExact ==
  /\ imageRefs = Cardinality({s \in Sources : target[s].mem = "live"})
                 + (IF owned THEN 1 ELSE 0)
  /\ \A s \in Sources :
       target[s].refcount = (IF ProgramHolds(s) THEN 1 ELSE 0)
                   + (IF ThreadWorks(s) /\ thr[s] # "verify" THEN 1 ELSE 0)

\* A reply 0 of iso_image_generator_is_running() means that no thread works
\* on the nodes of the image any more.
GeneratorFlagSound ==
  \A s \in Sources :
    thr[s] \in {"begin", "write", "transplanted", "closed", "error", "restore"}
      => genRunning

\* The production of the overwrite buffer cannot get stuck in a full fifo.
CreateReturns ==
  \A s \in Sources : app[s] \in Creating ~> app[s] \notin Creating

\* Cancelling or freeing a source ends the thread and comes to an end, no
\* matter how full the fifo is and whether anybody still reads.
CancelReturns ==
  \A s \in Sources : app[s] \in {"cancel", "free", "drop"}
                      ~> app[s] \in {"canceled", "gone"}

\* Neither creation nor the end of a source blocks for ever.
CallsReturn == CreateReturns /\ CancelReturns

\* The generator has nothing to complain about its own size prediction.
SizePredictionHolds == \A s \in Sources : target[s].report = "none"

\* Image, target and flag agree about who is at work: exact reference counts,
\* the running flag set as long as a thread uses the nodes, and no complaint
\* about a size that was predicted right (ecma119_image_new(),
\* write_function(), bs_free_data()).
LifeCycleSound == ReferencesExact /\ GeneratorFlagSound /\ SizePredictionHolds
============================================================================

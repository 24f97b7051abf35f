------------------------------ MODULE SessionMd5 ------------------------------
(***************************************************************************)
(* The MD5 checksums of data files over several sessions: md5.c, with      *)
(* ecma119.c, filesrc.c and node.c.                                        *)
(*                                                                         *)
(* A loaded image has an array of MD5s.  Attribute isofs.cx of a file is   *)
(* its index in that array.  A write run gives new indices to the files    *)
(* and builds a new array.  If it ends well, then the new array replaces   *)
(* the old one, else the old indices have to come back.                    *)
(*                                                                         *)
(* The MD5 of a file is represented by the number of its content.          *)
(***************************************************************************)
EXTENDS Integers, Sequences, FiniteSets, FiniteSetsExt

CONSTANTS
  NumFiles,   \* the files, in the order in which the tree is traversed
  Old,        \* those with from_old_session, i.e. loaded from the image
  Content,    \* [Files -> number of content]; files with the same stream
              \* have the same number
  Checked,    \* the files which the program submits to iso_file_make_md5()
  Options,    \* the IsoWriteOpts in use: [appendable, md5, willCancel]
  MaxRuns     \* bound: write runs

Files == 1 .. NumFiles
Contents == {Content[f] : f \in Files}

ASSUME FileAssumption ==
  /\ NumFiles \in Nat /\ Old \subseteq Files /\ Checked \subseteq Files
  /\ MaxRuns \in Nat
  /\ Content \in [Files -> Nat \ {0}]
  /\ \A f, g \in Files : Content[f] = Content[g] => (f \in Old <=> g \in Old)
  /\ Options \subseteq [appendable : BOOLEAN, willCancel : BOOLEAN,
                         md5 : {"off", "session", "files"}]

None     == -1    \* no such attribute or xinfo, no MD5
ZeroMd5  == 0     \* 16 bytes of 0
ArrayMd5 == -2    \* the MD5 of the array itself, its last element
NoArray  == <<>>  \* checksum_array == NULL

VARIABLES
  file,    \* [Files -> attribute isofs.cx, and the xinfos of
           \*           checksum_cx_xinfo_func and checksum_md5_xinfo_func]
  array,   \* image->checksum_array from index 1 on
  run      \* the write run

vars == <<file, array, run>>

\* counter: checksum_idx_counter.  index: checksum_index of the IsoFileSrc with
\* that content, None if not registered.  buffer: checksum_buffer from index 1
\* on.  next: the file which gets its IsoFileSrc next.  before: what
\* iso_file_get_md5() told before the run, and cxBefore the attribute then.
\* astray: there have been indices in the nodes which do not belong to the array,
\* because a failed creation left them or the array was not there or is gone.
NoRun == [step |-> "idle", number |-> 0, astray |-> FALSE,
          opts |-> [appendable |-> FALSE, md5 |-> "off", willCancel |-> FALSE],
          next |-> 1, counter |-> 0, index |-> [c \in Contents |-> None],
          buffer |-> NoArray, before |-> [f \in Files |-> None],
          cxBefore |-> [f \in Files |-> None]]

\* After iso_image_import(): some old files have an index.  The array is not
\* loaded if the program does not want it or if it is damaged.
Init ==
  \E known \in SUBSET {Content[f] : f \in Old}, loaded \in BOOLEAN :
    /\ file = [f \in Files |->
                 [cx |-> IF Content[f] \in known THEN Content[f] ELSE None,
                  savedCx |-> None, md5 |-> None]]
    /\ array = IF ~loaded THEN NoArray
               ELSE [i \in 1 .. Max(Contents \cup {1}) + 1 |->
                       IF i > Max(Contents \cup {1}) THEN ArrayMd5 ELSE i]
    /\ run = [NoRun EXCEPT !.astray = ~loaded /\ known # {}]

\* iso_file_get_md5()
GetMd5(f) ==
  IF file[f].md5 # None THEN file[f].md5
  ELSE IF file[f].cx \in 1 .. Len(array) THEN array[file[f].cx] ELSE None

Idle == run.step = "idle"
Step(from, to) == run.step = from /\ run' = [run EXCEPT !.step = to]

-----------------------------------------------------------------------------
(* ecma119_image_new(), in the thread of the program.                      *)

\* iso_file_make_md5()
MakeMd5(f) ==
  /\ Idle
  /\ file' = [file EXCEPT ![f].md5 = Content[f]]
  /\ UNCHANGED <<array, run>>

\* Mutant: the old index is not recorded.
PrepareUnsaved(f, opts) ==
  LET cx     == file[f].cx
      noMd5  == f \in Old /\ \/ cx = 0
                             \/ file[f].md5 = None /\ (cx = None \/ array = NoArray)
      delete == f \in Old /\ file[f].md5 = None /\ cx # None /\ array = NoArray
  IN  [file[f] EXCEPT
         !.cx = IF opts.willCancel THEN cx
                ELSE IF delete THEN None ELSE IF noMd5 THEN cx ELSE 0]

\* checksum_prepare_nodes() for one file of an appendable image: record the
\* old index as xinfo and set a provisory new one, unless the file stays in
\* the old session and has no MD5.
Prepare(f, opts) ==
  LET cx     == file[f].cx
      noMd5  == f \in Old /\ \/ cx = 0
                             \/ file[f].md5 = None /\ (cx = None \/ array = NoArray)
      delete == f \in Old /\ file[f].md5 = None /\ cx # None /\ array = NoArray
  IN  [file[f] EXCEPT
         !.savedCx = IF f \in Old /\ cx > 0 /\ @ = None THEN cx ELSE @,
         !.cx = IF opts.willCancel THEN cx
                ELSE IF delete THEN None ELSE IF noMd5 THEN cx ELSE 0]

ImageNew(opts) ==
  /\ Idle /\ run.number < MaxRuns
  /\ file' = IF opts.md5 # "off" /\ opts.appendable
             THEN [f \in Files |-> Prepare(f, opts)] ELSE file
  /\ run' = [NoRun EXCEPT !.step = "index", !.opts = opts,
                          !.number = run.number + 1, !.astray = run.astray,
                          !.before = [f \in Files |-> GetMd5(f)],
                          !.cxBefore = [f \in Files |-> file[f].cx]]
  /\ UNCHANGED array

\* The file is an old one which stays where it is.
NoWrite(f) == f \in Old /\ run.opts.appendable

\* Mutant: an old file gets an index, even if there is no MD5 to put there.
GetsIndexAlways(f) == run.opts.md5 = "files" /\ ~run.opts.willCancel

\* An IsoFileSrc gets a checksum index, unless the data are not written and no
\* old MD5 is known.
GetsIndex(f) ==
  /\ run.opts.md5 = "files" /\ ~run.opts.willCancel
  /\ NoWrite(f) => file[f].md5 # None \/ file[f].savedCx # None

\* Mutant: each file gets an index of its own.
FileSrcCreateAgain ==
  LET f   == run.next
      c   == Content[f]
      idx == IF GetsIndex(f) THEN run.counter + 1 ELSE 0
  IN  /\ run.step = "index" /\ f =< NumFiles
      /\ run' = [run EXCEPT !.next = @ + 1, !.index[c] = idx,
                            !.counter = IF idx > @ THEN idx ELSE @]
      /\ file' = [file EXCEPT ![f].cx =
                    IF idx > 0 /\ ~run.opts.willCancel THEN idx ELSE @]
      /\ UNCHANGED array

\* iso_file_src_create(): the first file with some content gets an index, the
\* others share it.
FileSrcCreate ==
  LET f   == run.next
      c   == Content[f]
      idx == IF run.index[c] # None THEN run.index[c]
             ELSE IF GetsIndex(f) THEN run.counter + 1 ELSE 0
  IN  /\ run.step = "index" /\ f =< NumFiles
      /\ run' = [run EXCEPT !.next = @ + 1, !.index[c] = idx,
                            !.counter = IF idx > @ THEN idx ELSE @]
      /\ file' = [file EXCEPT ![f].cx =
                    IF idx > 0 /\ ~run.opts.willCancel THEN idx ELSE @]
      /\ UNCHANGED array

\* checksum_copy_old_nodes(): the old MD5 of a file which stays.
OldMd5(f) ==
  IF ~NoWrite(f) THEN None
  ELSE IF file[f].md5 # None THEN file[f].md5
  ELSE IF file[f].savedCx \in 1 .. Len(array) THEN array[file[f].savedCx]
  ELSE None

\* Mutant: the new array starts empty.
CopyOldNothing ==
  /\ run.step = "index" /\ run.next > NumFiles
  /\ run' = [run EXCEPT !.step = "computed",
               !.buffer = [i \in 1 .. run.counter |-> ZeroMd5]]
  /\ UNCHANGED <<file, array>>

\* checksum_writer_compute_data_blocks(): the new array with the MD5s of the
\* old files.  The MD5 xinfos are used up.
CopyOldNodes ==
  LET active  == run.opts.md5 # "off" /\ ~run.opts.willCancel
      from(i) == {f \in Files : OldMd5(f) # None /\ file[f].cx = i}
  IN  /\ run.step = "index" /\ run.next > NumFiles
      /\ run' = [run EXCEPT !.step = "computed",
                   !.buffer = IF run.opts.md5 = "off" THEN NoArray
                     ELSE [i \in 1 .. run.counter |->
                             IF from(i) = {} THEN ZeroMd5
                             ELSE OldMd5(Max(from(i)))]]
      /\ file' = [f \in Files |-> [file[f] EXCEPT !.md5 =
                    IF active /\ OldMd5(f) # None THEN None ELSE @]]
      /\ UNCHANGED array

\* Label target_cleanup: creation fails after the nodes were prepared.
CreateFails ==
  /\ run.step \in {"index", "computed"}
  /\ run.step = "computed" => ~run.opts.willCancel
  /\ run' = [run EXCEPT !.step = "idle", !.astray = @ \/ ~run.opts.willCancel]
  /\ UNCHANGED <<file, array>>

\* A run which only inquires the size has no thread.  It gets freed.
SizeRunEnds ==
  /\ run.step = "computed" /\ run.opts.willCancel
  /\ run' = [run EXCEPT !.step = "idle"]
  /\ UNCHANGED <<file, array>>

-----------------------------------------------------------------------------
(* write_function(), the generator thread.                                 *)

\* iso_filesrc_write_data() of all files which get written, and
\* checksum_writer_write_data(), which adds the MD5 of the array.
WriteData ==
  /\ ~run.opts.willCancel
  /\ run.step = "computed"
  /\ run' = [run EXCEPT !.step = "written",
       !.buffer = IF run.opts.md5 = "off" THEN NoArray
         ELSE Append([i \in 1 .. run.counter |->
                LET fs == {f \in Files : run.index[Content[f]] = i /\ ~NoWrite(f)}
                IN  IF fs = {} THEN @[i] ELSE Content[Max(fs)]], ArrayMd5)]
  /\ UNCHANGED <<file, array>>

WriteFails ==
  /\ ~run.opts.willCancel
  /\ Step("computed", "error")
  /\ UNCHANGED <<file, array>>

\* transplant_checksum_buffer(): the new array is in effect, the recorded old
\* indices are disposed.  A run without MD5s of files which rewrites all files
\* leaves indices behind for which the array has no MD5 of a file any more.
Transplant ==
  /\ run.step = "written"
  /\ run' = [run EXCEPT !.step = "transplanted",
                       !.astray = @ \/ \E f \in Files : file[f].cx > run.counter]
  /\ array' = run.buffer
  /\ file' = [f \in Files |-> [file[f] EXCEPT !.savedCx = None]]

FinishOk ==
  /\ run.step = "transplanted"
  /\ run' = [run EXCEPT !.step = "idle"]
  /\ UNCHANGED <<file, array>>

\* finish_libjte() fails.
FinishFails ==
  /\ Step("transplanted", "lateError")
  /\ UNCHANGED <<file, array>>

\* process_preserved_cx() at label write_error: bring back the recorded
\* indices, delete the others.
Restore ==
  /\ run.step \in {"error", "lateError"}
  /\ run' = [run EXCEPT !.step = "idle"]
  /\ file' = [f \in Files |-> [file[f] EXCEPT !.cx = file[f].savedCx,
                                             !.savedCx = None]]
  /\ UNCHANGED array

-----------------------------------------------------------------------------
Next ==
  \/ \E f \in Checked : MakeMd5(f)
  \/ \E opts \in Options : ImageNew(opts)
  \/ FileSrcCreate \/ CopyOldNodes \/ CreateFails \/ SizeRunEnds
  \/ WriteData \/ WriteFails \/ Transplant \/ FinishOk \/ FinishFails
  \/ Restore

Spec == Init /\ [][Next]_vars

-----------------------------------------------------------------------------
(* Properties.                                                             *)

\* Nodes, checksum array and write run keep their types, and checksum_idx_counter
\* counts just the contents which got an index.
TypeOK ==
  /\ file \in [Files -> [cx : Int, savedCx : Int, md5 : Int]]
  /\ array \in Seq(Int)
  /\ run.step \in {"idle", "index", "computed", "written", "transplanted",
                   "error", "lateError"}
  /\ run.next \in 1 .. NumFiles + 1 /\ run.counter \in 0 .. NumFiles
  /\ run.counter = Cardinality({c \in Contents : run.index[c] > 0})

Sound(f) == GetMd5(f) \in {None, Content[f]}

\* What iso_file_get_md5() returns is the MD5 of that very file, whatever
\* sequence of written, cancelled and merely size-inquiring runs went before.
\* Excepted is the time after indices went astray.
Md5Sound == Idle /\ ~run.astray => \A f \in Files : Sound(f)

\* The same without that exception: what a failed creation leaves behind in
\* the nodes does not associate a file with the MD5 of another one.
Md5AlwaysSound == Idle => \A f \in Files : Sound(f)

\* A run with checksums of files gives an MD5 to every file which it writes,
\* and does not lose the MD5 of a file which stays in its old session.
Md5Propagated ==
  [][Transplant /\ run.opts.md5 = "files" /\ ~run.astray =>
       \A f \in Files : ~NoWrite(f) \/ run.before[f] # None
          => GetMd5(f)' = Content[f]]_vars

\* process_preserved_cx() at the end of a failed run of any kind leaves no index
\* of that run: a file has the index of before the run or none.  Certainly back
\* are only those indices of old files which checksum_prepare_nodes() records in
\* this run, unless a transplant has disposed the records.  All other files may
\* lose their index: CancelKeepsIndices says so.
CancelRestoresIndex ==
  [][Restore /\ ~run.astray =>
       /\ \A f \in Files : file'[f].cx \in {None, run.cxBefore[f]}
       /\ run.step = "error" /\ run.opts.appendable /\ run.opts.md5 # "off" =>
            \A f \in Old : run.cxBefore[f] > 0 => file'[f].cx = run.cxBefore[f]]_vars

\* "Node had no cx before the write run. Delete cx." says the comment in
\* process_preserved_cx(), and that at the recording says of the old index "it
\* will be brought back into effect if cancellation of image production prevents
\* that the old MD5 array gets replaced by the new one".  So a run which fails
\* before its array is in effect would take the index from no loaded file.
CancelKeepsIndices ==
  [][Restore /\ run.step = "error" /\ ~run.astray =>
       \A f \in Old : run.cxBefore[f] > 0 => file'[f].cx = run.cxBefore[f]]_vars

\* iso_file_make_md5() was not called for an old file which shares its data with
\* another file.  If the other one got its IsoFileSrc first and has no MD5, then
\* there is no index, and checksum_copy_old_nodes() only disposes the MD5.
LinksUnchecked ==
  \A f \in Checked \cap Old : \A g \in Files : Content[g] = Content[f] => g = f

\* What a written run keeps of the MD5s, and what a failed one keeps of the
\* indices (checksum_copy_old_nodes(), process_preserved_cx()).
Md5Kept == Md5Propagated /\ CancelRestoresIndex
=============================================================================

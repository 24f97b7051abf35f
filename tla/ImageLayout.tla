----------------------------- MODULE ImageLayout -----------------------------
(* The layout of an image: ecma119_image_new() lets every writer compute   *)
(* its blocks, then the head with the System Area is produced, for growing *)
(* on overwritable media once more for LBA 0, and the writer thread lets   *)
(* every writer write (ecma119.c).  Directory trees and file content are   *)
(* abstracted to their sizes in blocks.                                    *)
EXTENDS SystemArea

CONSTANTS LayoutOptions      \* IsoWriteOpts and the parts of the image it refers to
\* What the setters of opts and the sizes of trees, files and partitions can be.
ASSUME OptionsAssumption ==
  \A op \in LayoutOptions :
    /\ {op.ms, op.poff, op.tree, op.files, op.jol, op.hfs, op.efi, op.prep, op.tail,
        op.hpc, op.sph, op.abs} \subseteq Nat
    /\ op.md5 \in 0..2
    /\ Len(op.img) \in Nat /\ \A k \in 1..Len(op.img) : op.img[k].size \in Nat
    /\ \A i \in DOMAIN op.app : op.app[i].size \in Nat /\ op.app[i].keep \in Int

VARIABLES o,                 \* the options of this run
          t,                 \* Ecma119Image
          lpc,                \* "new", "compute", "size", "head", "write", "done", "failed"
          wr,                \* index of the next writer
          at,                \* [writer -> start block by computation]
          pos,               \* blocks written by this session
          heads,             \* written heads: <<for LBA 0, of the session>> or <<of the session>>
          log                \* what lies where: set of [what, k, s, n]
lvars == <<o, t, lpc, wr, at, pos, heads, log>>

\* Writers in the order of their creation.
Writers(op) ==
  <<"ecma119">> \o (IF op.jol > 0 THEN <<"joliet">> ELSE <<>>) \o <<"mspad", "partprepend">>
  \o (IF op.hfs > 0 THEN <<"hfsplus">> ELSE <<>>) \o <<"filesrc">>
  \o (IF op.hfs > 0 THEN <<"hfsplus_tail">> ELSE <<>>)
  \o (IF op.md5 > 0 THEN <<"checksum">> ELSE <<>>)
  \o <<"part_align", "partappend", "tail", "gpt_tail">>
VolDescs(op) == 1 + (IF op.img # <<>> THEN 1 ELSE 0) + (IF op.jol > 0 THEN 1 ELSE 0)
PartDescs(op) == 1 + (IF op.jol > 0 THEN 1 ELSE 0)
TreeBlocks(op) == op.tree * (IF op.poff > 0 THEN 2 ELSE 1) + (IF op.md5 = 2 THEN 1 ELSE 0)
InFiles(op, k) == op.img[k].app = 0 /\ k # op.efiimg
ImagesUpTo(op, k) ==
                     FoldFunctionOnSet(+, 0, [j \in 1..Len(op.img) |-> op.img[j].size],
                                       {j \in 1..k : InFiles(op, j)})
FileBlocks(op) == op.files + ImagesUpTo(op, Len(op.img))

NewTarget(op) ==
  [cur |-> op.ms + 16, vol |-> 0, total |-> 0, mspad |-> 0, align |-> 0, alignend |-> 0, pad |-> 0,
   hpc |-> op.hpc, sph |-> op.sph, abs |-> op.abs, mtype |-> op.mtype, hfac |-> 2048 \div op.hbs,
   have |-> op.app # <<>>, computed |-> FALSE, nogap |-> FALSE, overlap |-> FALSE,
   gend |-> 0, gsize |-> 0, gmax |-> 0, gstart |-> 0, hstart |-> 0, bootf |-> 0,
   app |-> [i \in 1..8 |-> [s |-> 0, n |-> 0, pad |-> 0]], boot |-> [k \in 1..Len(op.img) |-> 0],
   gpt |-> <<>>, apm |-> <<>>, mbr |-> <<>>, efi |-> 0, prep |-> 0, err |-> ""]

LayoutInit ==
  /\ o = CHOOSE op \in LayoutOptions : TRUE
  /\ t = NewTarget(o)
  /\ lpc = "new" /\ wr = 1 /\ pos = 0 /\ at = <<>> /\ heads = <<>> /\ log = {}

\* Checks of the options and creation of the writers, which count the volume
\* descriptors, the terminator and the superblock checksum tag.
ecma119_image_new(op) ==
  LET cur == op.ms + 16 + VolDescs(op) + 1 + (IF op.md5 = 2 THEN 1 ELSE 0)
      e == IF op.type \notin {0, 3} /\ op.app # <<>> THEN "NON_MBR_SYS_AREA"
           ELSE IF op.type # 0 /\ op.prep > 0 THEN "NON_MBR_SYS_AREA"
           ELSE IF op.ov /\ op.ms # 0 /\ op.ms < op.poff + 32 THEN "OVWRT_MS_TOO_SMALL"
           ELSE IF op.poff > 0 /\ op.ms + op.poff + 16 < cur THEN "PART_OFFST_TOO_SMALL" ELSE ""
  IN /\ lpc = "new"
     /\ o' = op
     /\ lpc' = IF e = "" THEN "compute" ELSE "failed"
     /\ t' = [NewTarget(op) EXCEPT !.err = e, !.cur = IF op.poff = 0 THEN cur
                                                      ELSE op.ms + op.poff + 16 + PartDescs(op) + 1]
     /\ UNCHANGED <<wr, at, pos, heads, log>>

----------------------------------------------------------------------------
(* compute_data_blocks() of the writers.  The backup GPT is computed last, *)
(* outside the loop, if partitions get appended.                           *)

Computing(w) == lpc = "compute" /\ wr <= Len(Writers(o)) /\ Writers(o)[wr] = w
Noted(w) == [v \in DOMAIN at \union {w} |-> IF v \in DOMAIN at THEN at[v] ELSE t.cur]
Computed(w, tt) == /\ t' = tt
                   /\ at' = Noted(w)
                   /\ wr' = wr + 1
                   /\ lpc' = IF Ok(tt) THEN lpc ELSE "failed"
                   /\ UNCHANGED <<o, pos, heads, log>>

ComputeTrees == \/ Computing("ecma119") /\ Computed("ecma119", [t EXCEPT !.cur = @ + TreeBlocks(o)])
                \/ Computing("joliet") /\ Computed("joliet", [t EXCEPT !.cur = @ + o.jol])
mspad_writer_compute_data_blocks_noOffset ==
  /\ Computing("mspad")
  /\ Computed("mspad", [t EXCEPT !.cur = Max({@, 32 + o.poff}), !.mspad = Max({t.cur, 32}) - t.cur])
mspad_writer_compute_data_blocks ==
  /\ Computing("mspad")
  /\ Computed("mspad", [t EXCEPT !.cur = Max({@, 32 + o.poff}),
                                 !.mspad = Max({t.cur, 32 + o.poff}) - t.cur])
ComputePrepend ==
  /\ Computing("partprepend")
  /\ \E x \in {partprepend_writer_compute_data_blocks(t, o)} :
       Computed("partprepend", IF o.efi > 0 /\ o.efiimg > 0 THEN [x EXCEPT !.boot[o.efiimg] = x.efi] ELSE x)
ComputeHfs == /\ Computing("hfsplus")
              /\ Computed("hfsplus", [t EXCEPT !.hstart = @ + t.cur, !.cur = @ + o.hfs])
ComputeFiles ==
  /\ Computing("filesrc")
  /\ Computed("filesrc", [t EXCEPT !.cur = @ + FileBlocks(o),
                                   !.bootf = t.cur + ImagesUpTo(o, Len(o.img)),
                                   !.boot = [k \in 1..Len(o.img) |-> IF InFiles(o, k)
                                               THEN t.cur + ImagesUpTo(o, k - 1) ELSE @[k]]])
hfsplus_tail_writer_compute_data_blocks ==
  /\ Computing("hfsplus_tail")
  /\ Computed("hfsplus_tail", iso_quick_apm_entry([t EXCEPT !.cur = @ + 2], t.hstart,
                                                  t.cur + 2 - t.hstart, "Apple_HFS", FALSE))
checksum_writer_compute_data_blocks ==
  /\ Computing("checksum")
  /\ Computed("checksum", [t EXCEPT !.cur = @ + 2])              \* array and session tag
part_align_writer_compute_data_blocks ==
  /\ Computing("part_align")
  /\ \E x \in {iso_align_isohybrid(t, o)} :
       Computed("part_align", [x EXCEPT !.cur = @ + x.align, !.alignend = x.cur + x.align])
partappend_writer_compute_data_blocks ==
  Computing("partappend") /\ Computed("partappend", iso_compute_append_partitions(t, o))
ComputeTail == Computing("tail") /\ Computed("tail", [t EXCEPT !.cur = @ + o.tail])
gpt_tail_writer_compute_data_blocks ==
  /\ Computing("gpt_tail") /\ ~t.have
  /\ \E x \in {IF t.computed THEN t ELSE precompute_gpt(t, o)} :
       Computed("gpt_tail", [x EXCEPT !.cur = @ + x.gsize, !.gend = x.cur + x.gsize])

Count == iso_count_appended_partitions(o)
Sizes(x) == [x EXCEPT !.vol = (IF Count = 0 THEN x.cur ELSE x.alignend) - o.ms, !.total = x.cur - o.ms]
GptOutside(x) == [x EXCEPT !.total = @ + x.gsize, !.gend = x.total + x.gsize + o.ms]
\* Image sizes and, if still missing, the backup GPT.
ComputeSizes ==
  /\ lpc = "compute" /\ (wr > Len(Writers(o)) \/ (Computing("gpt_tail") /\ t.have))
  /\ \E x \in {IF ~t.have THEN Sizes(t)
               ELSE IF t.computed THEN GptOutside(Sizes(t))
               ELSE GptOutside(precompute_gpt(Sizes(t), o))} :
       /\ t' = x
       /\ lpc' = IF Ok(x) THEN "head" ELSE "failed"
  /\ at' = Noted("gpt_tail")
  /\ wr' = 1
  /\ UNCHANGED <<o, pos, heads, log>>

----------------------------------------------------------------------------
(* The heads. *)

PartHead(n) == IF o.poff = 0 THEN n ELSE Max({n, o.poff + 16}) + PartDescs(o) + 1

\* System Area and volume descriptors for LBA 0, as if the image began there.
WriteOverwrite ==
  /\ lpc = "head" /\ o.ov /\ Len(heads) = 0
  /\ \E r \in {iso_write_system_area([t EXCEPT !.vol = @ + o.ms, !.total = @ + o.ms], o, 0)} :
       /\ t' = [iso_delete_gpt_apm_fillers(r.t) EXCEPT !.vol = t.vol, !.total = t.total]
       /\ heads' = Append(heads, [h |-> r.h, vol |-> r.t.vol])
       /\ lpc' = IF Ok(r.t) THEN lpc ELSE "failed"
  /\ UNCHANGED <<o, wr, at, pos, log>>

write_head_part ==
  /\ lpc = "head" /\ (o.ov => Len(heads) = 1)
  /\ \E x \in {[t EXCEPT !.abs = IF @ # 0 THEN @ ELSE IF Len(t.gpt) > 0 THEN 2048 ELSE 512]} :
     \E r \in {iso_write_system_area(x, o, 1)} :
       /\ t' = r.t
       /\ heads' = Append(heads, [h |-> r.h, vol |-> r.t.vol])
       /\ lpc' = IF Ok(r.t) THEN "write" ELSE "failed"
  /\ pos' = PartHead(16 + VolDescs(o) + 1 + (IF o.md5 = 2 THEN 1 ELSE 0))
  /\ UNCHANGED <<o, wr, at, log>>

----------------------------------------------------------------------------
(* write_data() of the writers. *)

Here == o.ms + pos
Writing(w) == lpc = "write" /\ wr <= Len(Writers(o)) /\ Writers(o)[wr] = w
Wrote(n, what) == /\ pos' = pos + n
                  /\ log' = log \union {[what |-> Writers(o)[wr], k |-> 0, s |-> Here, n |-> n]} \union what
                  /\ wr' = wr + 1
                  /\ UNCHANGED <<o, t, lpc, at, heads>>

WriteBlocks ==
  \/ Writing("ecma119") /\ Wrote(TreeBlocks(o), {})
  \/ Writing("joliet") /\ Wrote(o.jol, {})
  \/ Writing("mspad") /\ Wrote(t.mspad, {})
  \/ Writing("hfsplus") /\ Wrote(o.hfs, {})
  \/ Writing("hfsplus_tail") /\ Wrote(2, {[what |-> "hfs", k |-> 0, s |-> t.hstart, n |-> Here + 2 - t.hstart]})
  \/ Writing("part_align") /\ Wrote(t.align, {})
  \/ Writing("tail") /\ Wrote(o.tail, {})
  \/ Writing("filesrc") /\ Wrote(FileBlocks(o),
        {[what |-> "img", k |-> k, s |-> Here + ImagesUpTo(o, k - 1), n |-> o.img[k].size] :
             k \in {j \in 1..Len(o.img) : InFiles(o, j)}}
        \union {[what |-> "bootfile", k |-> 0, s |-> Here + ImagesUpTo(o, Len(o.img)), n |-> 1]})

\* The tag is only written if there is a session checksum.
checksum_writer_write_data == Writing("checksum") /\ Wrote(IF o.md5 = 2 THEN 2 ELSE 1, {})

partprepend_writer_write_data ==
  /\ Writing("partprepend")
  /\ Wrote(o.efi + o.prep,
           (IF o.efi > 0 THEN {[what |-> "efi", k |-> 0, s |-> Here, n |-> o.efi]} ELSE {})
           \union (IF o.prep > 0 THEN {[what |-> "prep", k |-> 0, s |-> Here + o.efi, n |-> o.prep]} ELSE {}))

\* A kept partition is not written again; padding comes before each.
AppendBlocks(i) == t.app[i].pad + (IF o.app[i].keep >= 0 THEN 0 ELSE t.app[i].n)
AppendBefore(i) == FoldFunctionOnSet(+, 0, [j \in 1..8 |-> IF Real(o, j) THEN AppendBlocks(j) ELSE 0],
                                     {j \in Slots(o) : j < i})
partappend_writer_write_data ==
  /\ Writing("partappend")
  /\ Wrote(AppendBefore(9),
           {[what |-> "app", k |-> i, n |-> t.app[i].n,
             s |-> IF o.app[i].keep >= 0 THEN o.app[i].keep ELSE Here + AppendBefore(i) + t.app[i].pad] :
               i \in {j \in Slots(o) : Real(o, j)}})

gpt_tail_writer_write_data ==
  /\ Writing("gpt_tail")
  /\ IF t.gend = 0 \/ t.gmax = 0 THEN Wrote(0, {})
     ELSE Wrote(t.gsize, {[what |-> "backup", k |-> 0, s |-> (Here + t.gsize) * 4 - 1, n |-> 1]})

\* A partition file cannot be opened or the consumer cancels.
LayoutWriteFails ==
  /\ lpc = "write" /\ wr <= Len(Writers(o))
  /\ Writers(o)[wr] \in {"partprepend", "partappend"}
  /\ o.efi > 0 \/ o.prep > 0 \/ Count > 0
  /\ lpc' = "failed" /\ t' = [t EXCEPT !.err = "WRITE"]
  /\ UNCHANGED <<o, wr, at, pos, heads, log>>
Finish == /\ lpc = "write" /\ wr > Len(Writers(o)) /\ lpc' = "done"
          /\ UNCHANGED <<o, t, wr, at, pos, heads, log>>

LayoutNext == \/ lpc = "new" /\ \E op \in LayoutOptions : ecma119_image_new(op)
              \/ ComputeTrees \/ mspad_writer_compute_data_blocks
              \/ ComputePrepend \/ ComputeHfs \/ ComputeFiles
              \/ hfsplus_tail_writer_compute_data_blocks \/ checksum_writer_compute_data_blocks
              \/ part_align_writer_compute_data_blocks \/ partappend_writer_compute_data_blocks
              \/ ComputeTail \/ gpt_tail_writer_compute_data_blocks \/ ComputeSizes
              \/ WriteOverwrite \/ write_head_part \/ WriteBlocks \/ checksum_writer_write_data
              \/ partprepend_writer_write_data \/ partappend_writer_write_data
              \/ gpt_tail_writer_write_data \/ LayoutWriteFails \/ Finish
LayoutSpec == LayoutInit /\ [][LayoutNext]_lvars

----------------------------------------------------------------------------
(* Properties. *)

\* Block addresses recorded in trees, boot catalog and tables are those of the
\* computation: every writer must begin to write where compute_data_blocks()
\* found t->curblock, and the session must end at total_size.  Sizes come from
\* different places in the two passes.  With checksums of files but not of the
\* session, checksum_writer_compute_data_blocks() counts one block too many.
LayoutAsComputed ==
  o.md5 # 1 => /\ \A e \in log : e.what \in DOMAIN at => e.s = at[e.what]
               /\ lpc = "done" => pos = t.total

Written(what) == {e \in log : e.what = what}
Heads == {heads[i].h : i \in 1..Len(heads)}
InGpt(h, e) == \E k \in 1..Len(h.gpt) : h.gpt[k].s = e.s * 4 /\ h.gpt[k].e = Ends(e) * 4 - 1
InApm(h, e) == \E k \in 2..Len(h.apm) : h.apm[k].s * t.abs = e.s * 2048 /\ h.apm[k].n * t.abs = e.n * 2048
InMbr(h, i, e) == h.mbr[i].s = e.s * 4 /\ h.mbr[i].n = e.n * 4
InSun(h, e) == \E k \in 1..Len(h.sun) :
                  h.sun[k] = [slot |-> e.k, cyl |-> e.s \div SunCyl, n |-> e.n * 4] /\ e.s % SunCyl = 0
\* The MBR which libisofs brings for old ISOLINUX replaces all other tables.
Tabled == ~(OldIsohybrid(o) /\ o.sadata = <<>>)

\* The partition tables, written before any partition, must tell where its
\* data finally lie: appended partitions in the table that the options demand,
\* EFI and PReP partitions, HFS+ and the boot images which isohybrid lists.
\* HFS+ is compared in the first head, and not with part_like_isohybrid, as
\* iso_write_apm() else stretches it over the gap filler that is missing; for
\* the same reason, and because of hfsp_iso_block_fac, APM entries of appended
\* partitions only with one head and 2048 byte HFS+ blocks.
TablesMatchData ==
  lpc = "done" /\ o.md5 # 1 /\ Tabled => \A h \in Heads :
    /\ \A e \in Written("app") : CASE o.type = 3 -> InSun(h, e)
                                   [] o.asgpt /\ o.type # 3 -> InGpt(h, e)
                                   [] o.asapm /\ ~o.asgpt /\ o.type # 3 -> TRUE
                                   [] OTHER -> InMbr(h, e.k, e)
    /\ o.asapm /\ o.hbs = 2048 => \A e \in Written("app") : InApm(heads[1].h, e)
    /\ \A e \in Written("efi") : InGpt(h, e)
    /\ \A e \in Written("prep") : \E i \in 1..4 : InMbr(h, i, e)
    /\ ~o.like => \A e \in Written("hfs") : InApm(heads[1].h, e)
    /\ Hybrid(o) => \A e \in Written("img") : /\ AsGpt(o, e.k) => InGpt(h, e)
                                              /\ o.img[e.k].apm => InApm(h, e)

Apart(s1, n1, s2, n2) == s1 + n1 <= s2 \/ s2 + n2 <= s1
InUse(m) == m.n > 0 /\ m.ty \notin {0, 238}

\* Partitions of one table do not overlap, as the requests of several writers
\* are merged and gaps get filled, except where isohybrid nests them on purpose
\* and where iso_ensure_mbr_part_table() found its entry in the loaded MBR: it
\* sets the size of the image without subtracting the start.  Partition 1 of
\* the SUN label is left out, too: it comprises the appended ones.
TablesDisjoint ==
  lpc = "done" => \A h \in Heads :
    /\ ~t.overlap => \A i, j \in 1..Len(h.gpt) : i < j => h.gpt[i].e < h.gpt[j].s
    /\ \A i, j \in 1..Len(h.apm) : i < j => Apart(h.apm[i].s, h.apm[i].n, h.apm[j].s, h.apm[j].n)
    /\ ~o.hyb /\ ~o.like /\ ~(o.poff > 0 /\ o.sadata # <<>>) =>
         \A i, j \in 1..4 : i < j /\ InUse(h.mbr[i]) /\ InUse(h.mbr[j]) =>
            Apart(h.mbr[i].s, h.mbr[i].n, h.mbr[j].s, h.mbr[j].n)
    /\ \A i, j \in 2..Len(h.sun) : i < j /\ Real(o, h.sun[i].slot) /\ Real(o, h.sun[j].slot) =>
            Apart(h.sun[i].cyl * SunCyl, h.sun[i].n \div 4, h.sun[j].cyl * SunCyl, h.sun[j].n \div 4)

Payload(g) == {<<g[k].s, g[k].e>> : k \in {j \in 1..Len(g) : g[j].ty \notin {"iso", "gap"}}}

\* Both GPT headers must lead to the backup GPT, which is the last thing that
\* gets written, its entries must stay before the first block of the backup,
\* and the head for LBA 0 must agree with the one of the session although
\* iso_write_gpt() inserted gap fillers in between.
GptConsistent ==
  lpc = "done" /\ o.md5 # 1 =>
    /\ \A h \in Heads : Len(h.gpt) > 0 =>
         /\ \E e \in Written("backup") : e.s = h.back
         /\ h.back = Here * 4 - 1
         /\ \A k \in 1..Len(h.gpt) : h.gpt[k].e <= h.last
    /\ o.ov => /\ Payload(heads[1].h.gpt) = Payload(heads[2].h.gpt)
               /\ o.ms = 0 => [heads[1].h EXCEPT !.apm = <<>>] = [heads[2].h EXCEPT !.apm = <<>>]

\* MBR, GPT and APM describe the image which gets written, do not overwrite
\* each other and agree with the backup GPT (iso_write_system_area(),
\* iso_write_gpt(), iso_write_apm(), the tail writer).
TablesSound == TablesMatchData /\ TablesDisjoint /\ GptConsistent
=============================================================================

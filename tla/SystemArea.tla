----------------------------- MODULE SystemArea -----------------------------
(* Partition requests and the tables made from them: system_area.c and the *)
(* isohybrid parts of make_isohybrid_mbr.c.  `t' is the Ecma119Image: the  *)
(* record of the fields that the layout and the tables depend on; `o' are  *)
(* the write options.  An operator that may fail sets t.err.  2048-byte    *)
(* blocks are counted in t.cur, MBR and GPT count 512-byte blocks.         *)
EXTENDS Integers, Sequences, SequencesExt, FiniteSets, FiniteSetsExt, TLC

CONSTANTS ApmMax,            \* ISO_APM_ENTRIES_MAX, 63 in system_area.h
          GptMax,            \* ISO_GPT_ENTRIES_MAX, 248 in system_area.h
          SunCyl             \* ISO_SUN_CYL_SIZE, 160 in system_area.h
ASSUME SunCylAssumption == SunCyl \in Nat \ {0}

MbrMax  == 4                 \* ISO_MBR_ENTRIES_MAX
Whole   == 100000000         \* 4 * 0xffffffff: "up to the end of the volume"
NoEntry == [st |-> 0, ty |-> 0, s |-> 0, n |-> 0, chs |-> <<0, 0, 0>>, che |-> <<0, 0, 0>>]
NoHead  == [mbr |-> [i \in 1..4 |-> NoEntry], gpt |-> <<>>, apm |-> <<>>, sun |-> <<>>,
            boot |-> <<>>, grub |-> -1, back |-> 0, last |-> 0, pstart |-> 0]

Fail(t, e)  == [t EXCEPT !.err = e]
Ok(t)       == t.err = ""
RoundUp(a, b) == ((a + b - 1) \div b) * b
Ends(r)     == r.s + r.n
Slots(o)    == IF o.type = 3 THEN 2..8 ELSE 1..4      \* iso_tell_max_part_range

\* A partition in `o.app' has a path; an empty path only reserves the slot.
Given(o, i) == i \in DOMAIN o.app
Real(o, i)  == Given(o, i) /\ o.app[i].size > 0
iso_count_appended_partitions(o) == Cardinality({i \in Slots(o) : Real(o, i)})

iso_quick_apm_entry(t, s, n, ty, fill) ==
  IF Len(t.apm) >= ApmMax THEN Fail(t, "TOO_MANY_APM")
  ELSE [t EXCEPT !.apm = Append(@, [s |-> s, n |-> n, ty |-> ty, fill |-> fill])]
iso_quick_gpt_entry(t, s, n, ty, fill) ==
  IF Len(t.gpt) >= GptMax THEN Fail(t, "TOO_MANY_GPT")
  ELSE [t EXCEPT !.gpt = Append(@, [s |-> s, n |-> n, ty |-> ty, fill |-> fill])]
\* The entries of a loop; whatever fails is not written, so that it does not
\* matter how many of them are in the list then.
iso_quick_apm_entries(t, q) ==
  IF Len(t.apm) + Len(q) > ApmMax THEN Fail(t, "TOO_MANY_APM") ELSE [t EXCEPT !.apm = @ \o q]
iso_quick_gpt_entries(t, q) ==
  IF Len(t.gpt) + Len(q) > GptMax THEN Fail(t, "TOO_MANY_GPT") ELSE [t EXCEPT !.gpt = @ \o q]
iso_quick_mbr_entry(t, s, n, ty, st) ==
  IF Len(t.mbr) >= MbrMax THEN Fail(t, "TOO_MANY_MBR")
  ELSE [t EXCEPT !.mbr = Append(@, [s |-> s, n |-> n, ty |-> ty, st |-> st])]

\* The elements of a set of numbers, and the requests of a list, in order.
Ascending(S) == [k \in 1..Cardinality(S) |->
                   CHOOSE i \in S : Cardinality({j \in S : j < i}) = k - 1]
cmp_partition_request(a, b) == a.s < b.s \/ (a.s = b.s /\ a.n > b.n)
SortReq(q) ==
  LET before(j, i) == \/ cmp_partition_request(q[j], q[i])
                      \/ ~cmp_partition_request(q[i], q[j]) /\ j < i
  IN [k \in 1..Len(q) |->
        q[CHOOSE i \in 1..Len(q) : Cardinality({j \in 1..Len(q) : before(j, i)}) = k - 1]]

\* Cylinder, head and sector of a 512-byte block, clipped at 1024 cylinders.
iso_compute_cyl_head_sec(lba, hpc, sph) ==
  LET c == lba \div (sph * hpc) IN
  IF c >= 1024 THEN <<1023, hpc - 1, sph>>
  ELSE <<c, (lba % (sph * hpc)) \div sph, (lba % sph) + 1>>

write_mbr_partition_entry(t, ty, s, n) ==
  [st |-> 0, ty |-> ty, s |-> s, n |-> n,
   chs |-> iso_compute_cyl_head_sec(s, t.hpc, t.sph),
   che |-> iso_compute_cyl_head_sec(s + n - 1, t.hpc, t.sph)]

----------------------------------------------------------------------------
(* Requests: appended partitions, prepended partitions, isohybrid images. *)

\* Cylinder size in blocks, if appended partitions get aligned to it.
append_cyl(x, o) == IF o.type = 0 /\ o.align = 3 /\ (x.hpc * x.sph) % 4 = 0
                    THEN (x.hpc * x.sph) \div 4 ELSE 0
append_pad(x, o) == IF o.type = 3 THEN RoundUp(x.cur, SunCyl) - x.cur
                    ELSE IF append_cyl(x, o) > 0 THEN RoundUp(x.cur, append_cyl(x, o)) - x.cur
                    ELSE 0
append_size(x, o, i) == IF append_cyl(x, o) > 0 THEN RoundUp(o.app[i].size, append_cyl(x, o))
                        ELSE o.app[i].size
\* Size in blocks; a kept partition lies in an older session.
append_partition_beforePad(x, o, i) ==
  IF ~Ok(x) \/ ~Real(o, i) THEN x
  ELSE IF i \notin Slots(o) THEN Fail(x, "BAD_PARTITION_NO")
  ELSE IF o.app[i].keep >= 0
       THEN [x EXCEPT !.app[i] = [s |-> o.app[i].keep, n |-> o.app[i].size, pad |-> 0], !.mtype = 0]
  ELSE [x EXCEPT !.app[i] = [s |-> x.cur, n |-> append_size(x, o, i), pad |-> append_pad(x, o)],
                 !.cur = @ + append_pad(x, o) + append_size(x, o, i)]
append_partition(x, o, i) ==
  IF ~Ok(x) \/ ~Real(o, i) THEN x
  ELSE IF i \notin Slots(o) THEN Fail(x, "BAD_PARTITION_NO")
  ELSE IF o.app[i].keep >= 0
       THEN [x EXCEPT !.app[i] = [s |-> o.app[i].keep, n |-> o.app[i].size, pad |-> 0], !.mtype = 0]
  ELSE [x EXCEPT !.app[i] = [s |-> x.cur + append_pad(x, o), n |-> append_size(x, o, i),
                             pad |-> append_pad(x, o)],
                 !.cur = @ + append_pad(x, o) + append_size(x, o, i)]
iso_compute_append_partitions(t, o) ==
  FoldLeft(LAMBDA x, i : append_partition(x, o, i), t, [i \in 1..8 |-> i])

\* GPT or APM entries for the appended partition in slot i.
slot_apm(x, i, do_apm) ==
  IF ~do_apm THEN x
  ELSE iso_quick_apm_entry(x, x.app[i].s * x.hfac, x.app[i].n * x.hfac, "Data", FALSE)
slot_gpt(x, i, do_gpt) ==
  IF \/ ~do_gpt \/ ~Ok(x)
     \/ \E k \in 1..Len(x.gpt) : x.gpt[k].s = x.app[i].s * 4 /\ x.gpt[k].n = x.app[i].n * 4
  THEN x ELSE iso_quick_gpt_entry(x, x.app[i].s * 4, x.app[i].n * 4, "app", FALSE)
assess_slot(x, o, i, do_apm, do_gpt) ==
  IF ~Ok(x) \/ ~Given(o, i) THEN x ELSE slot_gpt(slot_apm(x, i, do_apm), i, do_gpt)
\* Only slots 1 to 4.
assess_appended_gpt(t, o) ==
  LET do_apm == (Len(t.apm) > 0 /\ o.like) \/ (t.have /\ o.asapm)
      do_gpt == Len(t.gpt) > 0 \/ (t.have /\ o.asgpt)
      slot(x, i) == assess_slot(x, o, i, do_apm, do_gpt)
  IN IF ~do_apm /\ ~do_gpt THEN t ELSE slot(slot(slot(slot(t, 1), 2), 3), 4)

ImageStart(t, o, k) == IF o.img[k].app > 0 THEN t.app[o.img[k].app].s ELSE t.boot[k]
ImageSize(t, o, k)  == IF o.img[k].app > 0 THEN t.app[o.img[k].app].n ELSE o.img[k].size
AsGpt(o, k) == o.img[k].gpt /\ ~(o.img[k].app > 0 /\ o.asgpt)
GptImages(o) == Ascending({k \in 1..Len(o.img) : AsGpt(o, k)})
ApmImages(o) == Ascending({k \in 1..Len(o.img) : o.img[k].apm})
ImageRequests(t, o, q, f, ty) ==
  [k \in 1..Len(q) |-> [s |-> ImageStart(t, o, q[k]) * f, n |-> ImageSize(t, o, q[k]) * f,
                        ty |-> ty, fill |-> FALSE]]

\* Enter the boot images which are marked for GPT or APM, and, unless the
\* call is for part_like_isohybrid (noiso), the ISO filesystem itself.
assess_isohybrid_gpt_apm(t, o, noapm, noiso) ==
  LET t1 == iso_quick_gpt_entries(t, ImageRequests(t, o, GptImages(o), 4, "img"))
      t2 == IF noapm \/ ~Ok(t1) \/ ApmImages(o) = <<>> THEN t1
            ELSE [iso_quick_apm_entries(t1, ImageRequests(t, o, ApmImages(o), 1, "Apple_HFS"))
                    EXCEPT !.nogap = TRUE, !.abs = 2048]
  IN IF ~Ok(t2) \/ noiso \/ GptImages(o) = <<>> THEN t2
     ELSE [iso_quick_gpt_entry(t2, o.poff * 4, Whole, "iso", FALSE) EXCEPT !.overlap = TRUE]

\* Gaps between the sorted APM partitions `q' up to block `img'.
apm_goal(q, i, img) == IF i < Len(q) THEN q[i + 1].s ELSE img
apm_end(q, i, img)  == IF i > 1 THEN Ends(q[i])
                       ELSE IF apm_goal(q, 1, img) \in 2..15 THEN apm_goal(q, 1, img) ELSE 16
apm_gaps(q, img) ==
  LET gaps == Ascending({i \in 1..Len(q) : apm_end(q, i, img) < apm_goal(q, i, img) \/ i = Len(q)}) IN
  [k \in 1..Len(gaps) |-> [s |-> apm_end(q, gaps[k], img), ty |-> "gap", fill |-> TRUE,
                           n |-> apm_goal(q, gaps[k], img) - apm_end(q, gaps[k], img)]]
fill_apm_gaps(t, o, img) ==
  LET t1 == IF \E k \in 1..Len(t.apm) : t.apm[k].s <= 1 THEN t
            ELSE iso_quick_apm_entry(t, 1, 0, "map", FALSE)
      q  == SortReq(t1.apm)
      t2 == [t1 EXCEPT !.apm = q]
  IN IF ~Ok(t1) THEN t1
     ELSE IF o.like THEN t2
     ELSE IF \E i \in 1..Len(q) : apm_end(q, i, img) > apm_goal(q, i, img) THEN Fail(t2, "APM_OVERLAP")
     ELSE IF t.nogap THEN t2
     ELSE IF Len(q) + Len(apm_gaps(q, img)) > ApmMax THEN Fail(t2, "TOO_MANY_APM")
     ELSE [t2 EXCEPT !.apm = SortReq(q \o apm_gaps(q, img))]

rectify_apm(t, o) ==
  IF Len(t.apm) = 0 THEN t
  ELSE IF Len(t.gpt) > 0 /\ t.abs # 2048 THEN Fail(t, "APM_GPT_BSIZE")
  ELSE fill_apm_gaps(t, o, t.cur)

\* Size and place of the GPT, once all partitions are requested.
GptSize(t) ==
  LET abs == IF t.abs = 0 THEN 2048 ELSE t.abs
      ps  == IF Len(t.apm) > 0 THEN (Len(t.apm) + 1) * (abs \div 512) ELSE 2 IN
  IF ~Ok(t) THEN t
  ELSE IF Len(t.gpt) = 0 THEN [t EXCEPT !.gend = 0, !.gmax = 0]
  ELSE IF ps >= 64 THEN Fail(t, "TOO_MANY_GPT")
  ELSE [t EXCEPT !.gend = 0, !.abs = IF Len(t.apm) > 0 THEN abs ELSE @,
                 !.gstart = ps, !.gmax = (64 - ps) * 4,
                 !.gsize = ((64 - ps + 1) * 512 + 2047) \div 2048]

IsohybridImages(t, o) ==
  IF o.type # 0 \/ ~o.hyb \/ o.prot THEN t
  ELSE IF Len(t.gpt) > 0 /\ GptImages(o) # <<>> THEN Fail(t, "GPT_OVERLAP")
  ELSE IF Len(t.apm) > 0 /\ ApmImages(o) # <<>> THEN Fail(t, "APM_OVERLAP")
  ELSE assess_isohybrid_gpt_apm(t, o, FALSE, FALSE)
LikeIsohybrid(t, o) ==
  IF ~Ok(t) \/ ~(o.like /\ Len(t.gpt) = 0 /\ o.type = 0 /\ ~o.chrp /\ ~o.hyb) THEN t
  ELSE [assess_isohybrid_gpt_apm(t, o, Len(t.apm) > 0, TRUE) EXCEPT !.nogap = TRUE]
AppendedThenApm(t, o) ==
  LET apm(x) == rectify_apm(x, o) IN
  IF ~Ok(t) THEN t ELSE LET x == assess_appended_gpt(t, o) IN IF Ok(x) THEN apm(x) ELSE x
precompute_gpt(t, o) ==
  GptSize(AppendedThenApm(LikeIsohybrid(IsohybridImages([t EXCEPT !.computed = TRUE], o), o), o))

\* Partitions before the files: EFI system partition, PReP or FAT.
EfiPart(t, o) ==
  IF o.efi = 0 THEN t
  ELSE LET t1 == iso_quick_gpt_entry(t, t.cur * 4, o.efi * 4, "efi", FALSE) IN
       [t1 EXCEPT !.efi = t.cur, !.cur = @ + o.efi]

partprepend_writer_compute_data_blocks(t0, o) ==
  LET t == EfiPart(t0, o)
      gpt == Len(t.gpt) > 0
      prep == o.prep > 0
      ty == IF gpt THEN 238 ELSE IF t.mtype >= 0 THEN t.mtype ELSE 205
      m1(x) == IF prep \/ o.fat \/ gpt
               THEN iso_quick_mbr_entry(x, IF gpt THEN 1 ELSE o.poff * 4, 0, ty, 0) ELSE x
      m2(x) == IF prep /\ Ok(x)
               THEN [iso_quick_mbr_entry(x, x.cur * 4, o.prep * 4, 65, 0)
                       EXCEPT !.prep = x.cur, !.cur = @ + o.prep] ELSE x
      m3(x) == IF (prep \/ o.fat) /\ Ok(x)
               THEN iso_quick_mbr_entry(x, x.cur * 4, 0, IF o.fat THEN 12 ELSE 205, 0) ELSE x
  IN IF ~Ok(t) THEN t
     ELSE IF o.chrp /\ o.type = 0 /\ ~o.prot /\ ~o.hyb
     THEN IF prep \/ o.fat \/ gpt \/ Len(t.mbr) > 0 THEN Fail(t, "MBR_OVERLAP")
          ELSE iso_quick_mbr_entry(t, 0, 0, 150, 128)
     ELSE m3(m2(m1(t)))

----------------------------------------------------------------------------
(* Cylinder alignment; 512-byte blocks. *)

try_sph(hd, sph) ==
  LET h == (hd + sph * 1024 - 1) \div (sph * 1024) IN
  IF sph % 4 = 0 THEN h ELSE IF sph % 2 = 0 THEN RoundUp(h, 2) ELSE RoundUp(h, 4)

Geometry(t, o, hd) ==
  IF ~((o.asgpt /\ t.have) \/ ~(o.prot \/ o.hyb \/ o.align > 0) \/ t.hpc * t.sph * 1024 >= hd)
  THEN IF try_sph(hd, 32) <= 255 THEN [t EXCEPT !.hpc = try_sph(hd, 32), !.sph = 32]
       ELSE [t EXCEPT !.sph = 63, !.hpc = IF try_sph(hd, 63) <= 255 THEN try_sph(hd, 63) ELSE 255]
  ELSE t

OldIsohybrid(o) == Len(o.img) > 0 /\ o.img[1].old
AlignTo(t, o, hd) ==
  LET cyl == IF OldIsohybrid(o) THEN 64 * 32
             ELSE IF o.hyb \/ o.align > 0 THEN t.hpc * t.sph ELSE 0
      frac == RoundUp(hd, cyl) - hd IN
  IF o.align = 2 THEN t
  ELSE IF ~OldIsohybrid(o) /\ o.hyb /\ (o.img = <<>> \/ o.sadata = <<>>)
       THEN Fail(t, "ISOLINUX_CANT_PATCH")
  ELSE IF cyl = 0 \/ hd > 1024 * cyl THEN t
  ELSE IF frac = 0 THEN t
  ELSE [t EXCEPT !.align = (frac + 3) \div 4,
                 !.pad = IF frac % 4 > 0 THEN 4 - (frac % 4) ELSE 0]

iso_align_isohybrid(t, o) ==
  LET t1 == IF t.have THEN t ELSE precompute_gpt(t, o)
      img == t1.cur + (IF iso_count_appended_partitions(o) = 0 THEN o.tail + t1.gsize ELSE 0)
  IN IF o.type # 0 THEN t
     ELSE IF ~Ok(t1) THEN t1 ELSE AlignTo(Geometry(t1, o, img * 4), o, img * 4)

----------------------------------------------------------------------------
(* Writing the tables.  They adjust the requests: iso_write_apm() and      *)
(* iso_write_mbr() the block counts, iso_write_gpt() adds gap fillers.     *)

iso_write_apm(t, img) ==
  LET abs  == IF t.abs = 0 THEN 2048 ELSE t.abs
      n    == Len(t.apm)
      rest == IF img < t.apm[n].s THEN 0 ELSE img - t.apm[n].s
      q1   == IF t.nogap THEN t.apm
              ELSE IF rest = 0 THEN Front(t.apm) ELSE [t.apm EXCEPT ![n].n = rest]
      q2   == [q1 EXCEPT ![1].s = 1, ![1].n = Len(q1)]
  IN IF n = 0 THEN t
     ELSE IF (Len(q1) + 1) * abs > 32768 THEN Fail([t EXCEPT !.apm = q1, !.abs = abs], "TOO_MANY_APM")
     ELSE [t EXCEPT !.apm = q2, !.abs = abs]

ApmTable(t) == LET f == 2048 \div t.abs IN
  [k \in 1..Len(t.apm) |-> [s |-> t.apm[k].s * (IF k = 1 THEN 1 ELSE f),
                            n |-> t.apm[k].n * (IF k = 1 THEN 1 ELSE f), ty |-> t.apm[k].ty]]

iso_write_mbr_wholeSize(t, img) ==
  [t EXCEPT !.mbr = [i \in 1..Len(@) |-> IF @[i].n # 0 THEN @[i] ELSE [@[i] EXCEPT !.n =
                       (IF i < Len(t.mbr) THEN t.mbr[i + 1].s - t.mbr[i].s ELSE img * 4)]]]
iso_write_mbr(t, img) ==
  LET n == Len(t.mbr)
      count(i) == IF t.mbr[i].n # 0 THEN t.mbr[i].n
                  ELSE (IF i < n THEN t.mbr[i + 1].s ELSE img * 4) - t.mbr[i].s
      late(i) == t.mbr[i].s < t.mbr[i - 1].s \/ (t.mbr[i].s = t.mbr[i - 1].s /\ t.mbr[i].n # 0)
  IN IF \E i \in 2..n : late(i) \/ t.mbr[i - 1].s + count(i - 1) > t.mbr[i].s
     THEN Fail(t, "MBR_OVERLAP")
     ELSE [t EXCEPT !.mbr = [i \in 1..n |-> [t.mbr[i] EXCEPT !.n = count(i)]]]

MbrTable(t, before) == IF t.mbr = <<>> THEN before
  ELSE [i \in 1..4 |-> IF i > Len(t.mbr) THEN NoEntry
                       ELSE IF t.mbr[i].n = 0 THEN NoEntry
                       ELSE [write_mbr_partition_entry(t, t.mbr[i].ty, t.mbr[i].s, t.mbr[i].n)
                               EXCEPT !.st = t.mbr[i].st]]

intvl_overlap(s1, e1, s2, e2) == s1 <= e2 /\ s2 <= e1
iso_copy_apmhfs_to_gpt(t) ==
  LET copy(x, a) ==
        IF ~Ok(x) \/ a.ty # "Apple_HFS"
           \/ \E i \in 1..Len(x.gpt) : intvl_overlap(a.s * 4, (Ends(a) - 1) * 4,
                                                     x.gpt[i].s, Ends(x.gpt[i]) - 1)
        THEN x ELSE iso_quick_gpt_entry(x, a.s * 4, a.n * 4, "hfs", FALSE)
      done == FoldLeft(copy, t, t.apm)
  IN [t EXCEPT !.gpt = done.gpt, !.err = done.err]

\* Gap fillers between the sorted requests; end of the GPT at the backup.
FillGptGaps(t, o, img) ==
  LET q    == SortReq(t.gpt)
      n    == Len(q)
      goal(i) == IF i <= n THEN q[i].s ELSE Min({img * 4, (t.gend - t.gsize) * 4})
      pend(i) == Max({IF goal(1) > 64 THEN 64 ELSE 0} \union {Ends(q[j]) : j \in 1..(i - 1)})
      all  == (IF goal(1) <= 64 THEN 2 ELSE 1)..(n + 1)
      gaps == Ascending({i \in all : pend(i) < goal(i)})
      t1   == [t EXCEPT !.gpt = q]
  IN IF o.like THEN t1
     ELSE IF ~t.overlap /\ \E i \in all : pend(i) > goal(i) THEN Fail(t1, "GPT_OVERLAP")
     ELSE IF n + Len(gaps) > GptMax THEN Fail(t1, "TOO_MANY_GPT")
     ELSE [t1 EXCEPT !.gpt = SortReq(@ \o [k \in 1..Len(gaps) |->
             [s |-> pend(gaps[k]), n |-> goal(gaps[k]) - pend(gaps[k]),
              ty |-> IF goal(gaps[k]) = t.vol * 4 /\ pend(gaps[k]) = o.poff * 4
                     THEN "iso" ELSE "gap", fill |-> TRUE]])]

iso_write_gpt(t, o, img) ==
  LET t1 == iso_copy_apmhfs_to_gpt(t)
      t2 == IF Ok(t1) THEN FillGptGaps(t1, o, img) ELSE t1
  IN IF Len(t.gpt) = 0 THEN t
     ELSE IF Ok(t2) /\ Len(t2.gpt) > t.gmax THEN Fail(t2, "TOO_MANY_GPT") ELSE t2

GptTable(t, o) ==
  LET stop == (t.gend - t.gsize) * 4
      end(r) == IF r.s = o.poff * 4 /\ r.n = Whole THEN t.vol * 4 ELSE Ends(r)
  IN [k \in 1..Len(t.gpt) |-> [s |-> t.gpt[k].s, e |-> Min({end(t.gpt[k]), stop}) - 1,
                               ty |-> t.gpt[k].ty]]
\* Header: address of the backup header, last usable block.
GptHeader(t, h, o) ==
  IF Len(t.gpt) = 0 THEN h
  ELSE [h EXCEPT !.gpt = GptTable(t, o), !.back = t.gend * 4 - 1,
                 !.last = t.gend * 4 - 1 - t.gmax \div 4 - 1, !.pstart = t.gstart]

iso_delete_gpt_apm_fillers_inverted(t) ==
  LET keep(r) == r.fill IN
  [t EXCEPT !.gpt = SelectSeq(@, keep), !.apm = SelectSeq(@, keep)]
iso_delete_gpt_apm_fillers(t) ==
  LET keep(r) == ~r.fill IN
  [t EXCEPT !.gpt = SelectSeq(@, keep), !.apm = SelectSeq(@, keep)]

----------------------------------------------------------------------------
(* The System Area.  `r' carries the locals of iso_write_system_area():   *)
(* t, the head h, part_type, risk_of_ee, img_blocks and gpt_blocks.        *)

IsoType(t, dflt) == IF t.mtype >= 0 THEN t.mtype ELSE dflt
RFail(r, e) == [r EXCEPT !.t.err = e]
Hybrid(o) == o.type = 0 /\ o.hyb /\ ~o.prot
InIso(o, k) == k <= Len(o.img) /\ o.img[k].app = 0                 \* bootsrc[k - 1] != NULL

\* MBR of a GRUB rescue image: one partition from block 1 on.
make_grub_msdos_label(t, img, ty, active) ==
  [i \in 1..4 |-> IF i > 1 THEN NoEntry
     ELSE [st |-> IF active /\ ty \notin {238, 239} THEN 128 ELSE 0, ty |-> ty, s |-> 1,
           n |-> img * 4 - 1, chs |-> <<0, 0, 2>>,
           che |-> iso_compute_cyl_head_sec(img * 4 - 1, t.hpc, t.sph)]]

\* The MBR which libisofs brings for ISOLINUX before 3.72.
make_isohybrid_mbr(img) ==
  [i \in 1..4 |-> IF i > 1 THEN NoEntry
     ELSE [st |-> 128, ty |-> 131, s |-> 0, n |-> RoundUp(img * 4, 64 * 32),
           chs |-> <<0, 0, 1>>, che |-> <<Min({1024, RoundUp(img * 4, 2048) \div 2048}) - 1, 63, 32>>]]

\* Boot image of cursor position c as partition, in the slots 2 to 4.
gpt_images_as_mbr_partitions(t, o, c) ==
  IF c > Len(GptImages(o)) THEN NoEntry
  ELSE IF ~InIso(o, GptImages(o)[c]) THEN NoEntry
  ELSE [NoEntry EXCEPT !.ty = 239, !.s = t.boot[GptImages(o)[c]] * 4,
                       !.n = o.img[GptImages(o)[c]].size * 4]

make_isolinux_mbr(r, o, ty, protective) ==
  LET off == IF protective THEN 1 ELSE o.poff * 4
      hd  == r.img * 4 - r.t.pad
      rest == [i \in 2..4 |-> gpt_images_as_mbr_partitions(r.t, o, i - 1)]
      inside == \E i \in 2..4 : rest[i].s > 0 /\ rest[i].s < hd + off
      t1  == IF ~Hybrid(o) /\ ty = 0 /\ r.t.mtype # 0 /\ ~inside THEN IsoType(r.t, 23) ELSE ty
  IN IF ~InIso(o, 1) THEN RFail(r, "BOOT_IMAGE_NOT_VALID")
     ELSE [r EXCEPT !.h.mbr = [i \in 1..4 |-> IF i > 1 THEN rest[i]
            ELSE [write_mbr_partition_entry(r.t, t1, off, hd - off)
                    EXCEPT !.st = IF protective THEN 0 ELSE 128]]]

WithHybrid(r, o) ==
  LET asg == o.asgpt /\ r.t.have
      t0  == IF GptImages(o) # <<>> \/ ApmImages(o) # <<>> THEN 0 ELSE 23
      ty  == IF asg THEN 238 ELSE IF t0 # 0 \/ ~Hybrid(o) THEN IsoType(r.t, t0) ELSE t0
      r1  == [r EXCEPT !.pt = ty, !.ee = @ \/ asg, !.img = IF asg THEN r.g ELSE @]
  IN IF Hybrid(o) /\ (o.img = <<>> \/ o.sadata = <<>>) THEN RFail(r, "ISOLINUX_CANT_PATCH")
     ELSE make_isolinux_mbr(r1, o, ty, asg)

Protective(t, g) == write_mbr_partition_entry(t, 238, 1, g * 4 - 1)

\* Partition table for a partition offset or for appended partitions.
iso_ensure_mbr_part_table(r, o, first) ==
  LET m == r.h.mbr
      hit == {i \in 1..(IF first THEN 1 ELSE 4) : o.sadata # <<>> /\ m[i].s = o.poff * 4 /\ m[i].n > 0}
  IN IF hit = {} THEN make_grub_msdos_label(r.t, r.img, IsoType(r.t, 205), FALSE)
     ELSE [m EXCEPT ![Min(hit)] = write_mbr_partition_entry(r.t, IsoType(r.t, @.ty), @.s, r.img * 4)]

WithAppended(r, o) ==
  LET asg == o.asgpt /\ r.t.have
      m   == iso_ensure_mbr_part_table(r, o, asg \/ o.poff = 0) IN
  [r EXCEPT !.ee = TRUE, !.pt = IF asg THEN 238 ELSE IF o.poff = 0 THEN IsoType(r.t, 131) ELSE @,
            !.h.mbr = IF asg THEN [m EXCEPT ![1] = Protective(r.t, r.g)]
                      ELSE IF o.poff > 0 THEN m
                      ELSE [m EXCEPT ![1] = write_mbr_partition_entry(r.t, IsoType(r.t, 131), 0,
                                                                      r.img * 4 - r.t.pad)]]

\* Address of the designated boot file in the unit of the architecture.
BootFile(r, o, unit, add) ==
  IF o.bfile = 0 THEN r
  ELSE IF o.bfile = 2 THEN RFail(r, "BOOT_FILE_MISSING")
  ELSE [r EXCEPT !.h.boot = <<r.t.bootf * unit + add>>]
make_mips_volume_header(r, o) == BootFile(r, o, 4, 0)
make_mipsel_boot_block(r, o)  == BootFile(r, o, 4, o.elf)
make_hppa_palo_sector(r, o)   == BootFile(r, o, 2048, 0)
make_dec_alpha_sector(r, o)   == BootFile(r, o, 4, 0)

write_sun_partition_entry(t, o, i) ==
  LET below == {j \in 2..(i - 1) : Real(o, j)}
      from  == IF Real(o, i) \/ i = 1 THEN i ELSE IF below = {} THEN 1 ELSE Max(below)
  IN [slot |-> i, cyl |-> t.app[from].s \div SunCyl, n |-> t.app[from].n * 4]
make_sun_disk_label(r, o) ==
  LET t1 == [r.t EXCEPT !.app[1] = [s |-> 0, n |-> r.t.cur, pad |-> 0]] IN
  [r EXCEPT !.t = t1, !.h.sun = <<write_sun_partition_entry(t1, o, 1)>>,
            !.h.boot = IF o.bfile = 1 THEN <<t1.bootf * 2048>> ELSE <<>>]

\* Move the start of partition 1 to the partition offset.
iso_offset_partition_start(r, o, again) ==
  LET prot == r.pt = 238 /\ Len(r.t.gpt) > 0
      img  == IF prot THEN r.t.total + again * o.ms ELSE r.img
      s    == IF prot THEN 1 ELSE o.poff * 4
      m    == [r.h.mbr EXCEPT ![1] = [write_mbr_partition_entry(r.t, @.ty, s, img * 4 - r.t.pad - s)
                                        EXCEPT !.st = IF r.h.mbr[1].st = 128 THEN 128 ELSE 0]]
  IN IF o.poff = 0 \/ o.type # 0 \/ r.t.mbr # <<>> THEN r
     ELSE [r EXCEPT !.h.mbr = IF prot THEN [i \in 1..4 |-> IF i = 1 THEN m[1] ELSE NoEntry] ELSE m]

AppendedEntries(r, o) ==
  LET own == Ascending({i \in Slots(o) : Given(o, i)}) IN
  IF o.type # 3 /\ (o.asgpt \/ o.asapm) THEN r
  ELSE IF \E i \in ToSet(own) : i <= Len(r.t.mbr) THEN RFail(r, "MBR_COLLISION")
  ELSE IF o.type = 3
  THEN [r EXCEPT !.h.sun = @ \o [k \in 1..Len(own) |-> write_sun_partition_entry(r.t, o, own[k])]]
  ELSE [r EXCEPT !.h.mbr = [i \in 1..4 |-> IF ~Given(o, i) THEN @[i]
          ELSE write_mbr_partition_entry(r.t, o.app[i].ty, r.t.app[i].s * 4, r.t.app[i].n * 4)]]

\* No partition of type 0xEE without GPT.
PreventEE(r, o) ==
  IF ~(o.type = 0 /\ (o.prot \/ o.hyb \/ r.ee) /\ (o.like \/ r.t.gpt = <<>>) /\ r.t.mtype # 238)
  THEN r
  ELSE [r EXCEPT !.h.mbr = [i \in 1..4 |-> IF @[i].ty = 238 THEN [@[i] EXCEPT !.ty = IsoType(r.t, 205)]
                                           ELSE @[i]]]
iso_dummy_mbr_partition(m) ==
  LET free == {i \in 1..4 : m[i] = NoEntry}
      none == {i \in 1..4 : m[i].ty # 239} IN
  IF free # {} THEN [m EXCEPT ![Min(free)] = [NoEntry EXCEPT !.st = 128, !.n = 1]]
  ELSE [m EXCEPT ![IF none # {} THEN Min(none) ELSE 4].st = 128]
BootFlag(r, o) ==
  LET m == r.h.mbr
      can == {i \in 1..4 : m[i] # NoEntry /\ m[i].ty \notin {238, 239}} IN
  IF ~(o.type = 0 /\ (o.prot \/ o.hyb \/ o.grub \/ (~o.chrp /\ o.bootbit)))
     \/ \E i \in 1..4 : m[i].st = 128 THEN r
  ELSE IF can # {} THEN [r EXCEPT !.h.mbr[Min(can)].st = 128]
  ELSE IF o.bootbit THEN [r EXCEPT !.h.mbr = iso_dummy_mbr_partition(m)] ELSE r

Grub2Mbr(r, o) ==
  IF ~(o.type = 0 /\ o.grub) \/ Hybrid(o) THEN r
  ELSE IF ~InIso(o, 1) THEN RFail(r, "BOOT_IMAGE_NOT_VALID")
  ELSE [r EXCEPT !.h.grub = r.t.boot[1] * 4 + 4]

\* The label by type of System Area.
Label(r, o) ==
  CASE o.type = 0 /\ o.prot ->
         IF r.t.mbr # <<>> THEN r
         ELSE LET ee == Len(r.t.gpt) > 0 /\ ~o.like
                  ty == IF ee THEN 238 ELSE IsoType(r.t, 205) IN
              [r EXCEPT !.pt = ty, !.ee = TRUE,
                        !.h.mbr = make_grub_msdos_label(r.t, IF ee THEN r.g ELSE r.img, ty, TRUE)]
    [] Hybrid(o) \/ (o.like /\ ~(o.type = 0 /\ o.prot)) -> WithHybrid(r, o)
    [] o.type = 1 /\ ~o.like -> make_mips_volume_header(r, o)
    [] o.type = 2 /\ ~o.like -> make_mipsel_boot_block(r, o)
    [] o.type = 3 /\ ~o.like -> make_sun_disk_label(r, o)
    [] o.type \in {4, 5} /\ ~o.like -> make_hppa_palo_sector(r, o)
    [] o.type = 6 /\ ~o.like -> make_dec_alpha_sector(r, o)
    [] OTHER -> IF o.type = 0 /\ (o.poff > 0 \/ \E i \in Slots(o) : Given(o, i)) /\ r.t.mbr = <<>>
                THEN WithAppended(r, o) ELSE r

\* APM, MBR and GPT as requested.
TablesOf(t, o, g, before) ==
  [t |-> t, pt |-> 0, ee |-> t.mbr # <<>>, img |-> t.vol, g |-> g,
   h |-> IF ~Ok(t) THEN NoHead
         ELSE GptHeader(t, [NoHead EXCEPT !.mbr = MbrTable(t, before), !.apm = ApmTable(t)], o)]
OkT(Op(_), t) == IF Ok(t) THEN Op(t) ELSE t
Tables(t, o, g, before) ==
  LET mbr(x) == iso_write_mbr(x, t.vol)
      gpt(x) == IF x.mbr # <<>> /\ o.type # 0 THEN Fail(x, "NON_MBR_SYS_AREA")
                ELSE iso_write_gpt(x, o, g)
  IN TablesOf(IF o.type = 0 /\ (Hybrid(o) \/ o.like) /\ t.mbr # <<>> THEN Fail(t, "MBR_OVERLAP")
              ELSE OkT(gpt, OkT(mbr, iso_write_apm(t, t.vol))), o, g, before)

\* Protective partition over the final size, if it is the only request.
SoleProtective(r, o) ==
  IF Len(r.t.gpt) > 0 /\ o.type = 0 /\ Len(r.t.mbr) = 1 /\ r.t.mbr[1].ty = 238 /\ r.h.mbr[1].ty = 238
  THEN [r EXCEPT !.pt = 238, !.ee = TRUE, !.h.mbr[1] = Protective(r.t, r.g)] ELSE r

Then(Op(_, _), r, o) == IF Ok(r.t) THEN Op(r, o) ELSE r
Flags(r, o) == BootFlag(PreventEE(r, o), o)

\* again = 1 when the session writes its own head.
iso_write_system_area(t, o, again) ==
  LET g == IF t.have THEN t.total + again * o.ms ELSE t.vol
      Offset(r, x) == iso_offset_partition_start(r, x, again)
      none == [t |-> t, h |-> [NoHead EXCEPT !.mbr = make_isohybrid_mbr(t.vol)],
               pt |-> 0, ee |-> FALSE, img |-> t.vol, g |-> g]
  IN IF o.sadata = <<>> /\ o.type = 0 /\ OldIsohybrid(o)
     THEN IF InIso(o, 1) THEN none ELSE RFail(none, "BOOT_IMAGE_NOT_VALID")
     ELSE Then(Flags, Then(Grub2Mbr, Then(AppendedEntries, Then(Offset, Then(SoleProtective,
            Then(Label, Tables(t, o, g, IF o.sadata = <<>> THEN NoHead.mbr ELSE o.sadata),
                 o), o), o), o), o), o)
=============================================================================

-------------------------------- MODULE RrRead --------------------------------
(***************************************************************************)
(* libisofs/rockridge_read.c and the record parser of fs_image.c: what     *)
(* iso_file_source_new_ifs() makes of a directory record and its System    *)
(* Use fields.                                                             *)
(*                                                                         *)
(* A disk block of a directory is a sequence of records                    *)
(*   len, id          length in the block, ECMA-119 name                   *)
(*   dir, multi, gap  flag bits: directory, more sections follow,          *)
(*                    interleaved                                          *)
(*   sec              block and size of the file section                   *)
(*   sue              System Use fields of the record                      *)
(* and a block of a Continuation Area is a sequence of fields.  Names are  *)
(* sequences of characters, <<>> stands for the NULL pointer.              *)
(***************************************************************************)
EXTENDS Integers, Sequences, SequencesExt

\* A result of iso_file_source_new_ifs(): ret is -1 error, 0 nothing to show,
\* 1 source complete, 2 more sections needed.
Blank == [name |-> <<>>, mode |-> "none", secs |-> <<>>, link |-> <<>>, aa |-> <<>>, zf |-> FALSE]
Res(ret, src) == [ret |-> ret, src |-> src]

\* iso_rr_msg_submit(): messages abort from a severity on.  Problems of Rock
\* Ridge are SORRY, below the default threshold FAILURE.
iso_rr_msg_submit(set, sev) == IF sev = "SORRY" /\ set.strict THEN -1 ELSE 0

-----------------------------------------------------------------------------
(* The iterator over System Use fields.                                     *)

Pseudo(s) == [sig |-> s]
Ces(area) == SelectSeq(area, LAMBDA e : e.sig = "CE")

\* susp_iter_next(), called until the end: the fields of the record, then the
\* ones of the Continuation Areas.  Of several CE the first is followed, PD
\* is skipped, ST ends an area.
RECURSIVE susp_iter_next(_, _, _)
susp_iter_next(disk, area, bad) ==
  LET st   == SelectInSeq(area, LAMBDA e : e.sig = "ST")
      here == IF st = 0 THEN area ELSE SubSeq(area, 1, st - 1)
      ces  == Ces(here)
      own  == SelectSeq([i \in DOMAIN here |->
                           IF here[i].sig = "CE" /\ \E j \in 1..(i - 1) : here[j].sig = "CE"
                           THEN Pseudo("CE again") ELSE here[i]],
                        LAMBDA e : e.sig \notin {"CE", "PD"})
  IN own \o CASE ces = <<>>                   -> <<>>
              [] ces # <<>> /\ (ces[1].block \notin DOMAIN disk.ca \/ ces[1].block \in bad)
                                              -> <<Pseudo("unreadable")>>
              [] OTHER -> susp_iter_next(disk, disk.ca[ces[1].block], bad)

-----------------------------------------------------------------------------
(* The fields one by one.                                                   *)

Parsed0(rec) == [name |-> <<>>, ncont |-> FALSE, skip |-> FALSE, link |-> <<>>, lcont |-> 0,
                 mode |-> IF rec.dir THEN "dir" ELSE "file", px |-> FALSE, reloc |-> 0,
                 aa |-> <<>>, adone |-> FALSE, zf |-> FALSE, stop |-> FALSE, ret |-> 0, skipped |-> FALSE]

\* read_rr_NM(): a second NM counts only if the first one announced it.
read_rr_NM(p, e) ==
  CASE p.skip                          -> p
    [] p.name # <<>> /\ ~p.ncont       -> [p EXCEPT !.skip = TRUE]
    [] e.text = <<>>                   -> p
    [] OTHER -> [p EXCEPT !.name = IF p.ncont THEN @ \o e.text ELSE e.text, !.ncont = e.cont]

\* One component record of SL.  cont: 0 first of the target, 1 after a
\* complete component, 2 after a component part.
SlComponent(d, c) ==
  [dest |-> CASE d.cont = 0 -> c.text
              [] d.cont = 1 -> (IF Len(d.dest) > 0 /\ Last(d.dest) = "/" THEN d.dest
                                ELSE Append(d.dest, "/")) \o c.text
              [] OTHER -> d.dest \o c.text,
   cont |-> IF c.part THEN 2 ELSE 1]

\* read_rr_SL(): a component may go on in the next SL even if this is not
\* announced by the SL itself.
read_rr_SL(p, e) ==
  IF p.link # <<>> /\ p.lcont = 0 THEN p
  ELSE LET d == FoldLeft(SlComponent, [dest |-> p.link, cont |-> p.lcont], e.comps)
       IN [p EXCEPT !.link = d.dest,
                    !.lcont = IF d.cont = 2 THEN 2 ELSE IF e.cont THEN 1 ELSE 0]

\* read_aaip_AL(): AL fields are chained by their flag; later ones are refused.
read_aaip_AL(p, e) ==
  IF p.adone THEN p ELSE [p EXCEPT !.aa = Append(@, e.part), !.adone = ~e.cont]

\* read_zisofs_ZF() and the checks of the version against the algorithm.
read_zisofs_ZF(p, e) == [p EXCEPT !.zf = e.valid]

\* The loop body of iso_file_source_new_ifs() over the fields.  Bit 1 of the
\* flag tells that the record is the target of a CL.
RrField(set, root, target, p, e) ==
  CASE p.stop                       -> p
    [] e.sig = "unreadable"         -> [p EXCEPT !.stop = TRUE, !.ret = -1]
    [] e.sig = "CE again"           -> LET r == iso_rr_msg_submit(set, "SORRY")
                                       IN [p EXCEPT !.stop = r < 0, !.ret = r]
    [] e.sig = "PX"                 -> [p EXCEPT !.px = TRUE, !.mode = IF e.valid THEN e.mode ELSE @]
    [] e.sig = "NM"                 -> read_rr_NM(p, e)
    [] e.sig = "SL"                 -> read_rr_SL(p, e)
    [] e.sig = "RE"                 -> [p EXCEPT !.stop = TRUE, !.skipped = TRUE,
                                                 !.ret = IF root THEN -1 ELSE 0]
    [] e.sig = "CL" /\ target       -> p
    [] e.sig = "CL" /\ ~target      -> IF e.loc # 0 THEN [p EXCEPT !.reloc = e.loc]
                                       ELSE [p EXCEPT !.stop = TRUE, !.ret = iso_rr_msg_submit(set, "SORRY")]
    [] e.sig = "SF"                 -> [p EXCEPT !.stop = TRUE, !.ret = iso_rr_msg_submit(set, "SORRY")]
    [] e.sig = "AL"                 -> read_aaip_AL(p, e)
    [] e.sig = "ZF"                 -> read_zisofs_ZF(p, e)
    [] OTHER                        -> p       \* TF, PN, RR, SP, ER and unknown fields

\* The checks after the loop: an unfinished name or link target is SORRY.
RrChecks(set, p) ==
  IF p.skipped \/ p.ret < 0 THEN p
  ELSE [p EXCEPT !.ret = IF p.ncont \/ p.lcont # 0 THEN iso_rr_msg_submit(set, "SORRY") ELSE 0]

RockRidge(set, disk, rec, root, target, bad) ==
  IF set.rr
  THEN RrChecks(set, FoldLeft(LAMBDA p, e : RrField(set, root, target, p, e), Parsed0(rec),
                              susp_iter_next(disk, rec.sue, bad)))
  ELSE Parsed0(rec)

-----------------------------------------------------------------------------
(* The name.                                                                *)

Lower == [c \in {"A", "B", "C"} |-> CASE c = "A" -> "a" [] c = "B" -> "b" [] OTHER -> "c"]

\* The ECMA-119 name with map 1 (stripped) or 3 (stripped and lowercase):
\* ";1" goes, and a dot in front of it.
FromEcma119(id, map) ==
  LET n == Len(id)
      s == IF map = 0 \/ n <= 2 \/ SubSeq(id, n - 1, n) # <<";", "1">> THEN id
           ELSE IF n > 3 /\ id[n - 2] = "." THEN SubSeq(id, 1, n - 3) ELSE SubSeq(id, 1, n - 2)
  IN IF map = 3 THEN [i \in DOMAIN s |-> IF s[i] \in DOMAIN Lower THEN Lower[s[i]] ELSE s[i]] ELSE s

\* iso_truncate_rr_name(): the end of a long name gives way to a colon and
\* the MD5 of the name, here one symbol.
iso_truncate_rr_name(set, name) ==
  IF Len(name) <= set.trunc THEN name
  ELSE SubSeq(name, 1, set.trunc - 2) \o <<":", "#">>

\* Rock Ridge names go before ECMA-119 names; the record "." has none.
NameOf(set, rec, p) ==
  IF p.name = <<>> /\ rec.id = <<".">> THEN <<>>
  ELSE iso_truncate_rr_name(set, IF p.name # <<>> THEN p.name ELSE FromEcma119(rec.id, set.map))

-----------------------------------------------------------------------------

\* A record that is not the last one of its file: the source stays incomplete.
MultiExtent(rec, pend) ==
  IF rec.dir THEN Res(-1, pend)
  ELSE Res(2, [pend EXCEPT !.name = rec.id, !.mode = "part", !.secs = Append(@, rec.sec)])

\* Mutant: the sections of the records before are forgotten.
LastSectionOnly(set, rec, pend, p) ==
  IF p.mode = "link" /\ p.link = <<>> THEN Res(iso_rr_msg_submit(set, "SORRY"), pend)
  ELSE Res(1, [name |-> NameOf(set, rec, p), mode |-> p.mode, secs |-> <<rec.sec>>,
               link |-> IF p.mode = "link" THEN p.link ELSE <<>>, aa |-> p.aa, zf |-> p.zf])

\* The complete source.  A link without target is not shown.
Complete(set, rec, pend, p) ==
  IF p.mode = "link" /\ p.link = <<>> THEN Res(iso_rr_msg_submit(set, "SORRY"), pend)
  ELSE Res(1, [name |-> NameOf(set, rec, p), mode |-> p.mode, secs |-> Append(pend.secs, rec.sec),
               link |-> IF p.mode = "link" THEN p.link ELSE <<>>, aa |-> p.aa, zf |-> p.zf])

\* iso_file_source_new_ifs() for a record, with the source pend left over by
\* the record before.  CL gives a relocated directory its own name back.
RECURSIVE iso_file_source_new_ifs(_, _, _, _, _, _, _)
iso_file_source_new_ifs(set, disk, rec, pend, root, target, bad) ==
  IF rec.gap \/ (pend # Blank /\ pend.name # rec.id) THEN Res(-1, pend)
  ELSE IF rec.multi THEN IF root THEN Res(-1, pend) ELSE MultiExtent(rec, pend)
  ELSE LET p == RockRidge(set, disk, rec, root, target, bad)
       IN CASE p.ret < 0 \/ p.skipped -> Res(p.ret, pend)
            [] p.name = <<>> /\ rec.id = <<".">> /\ p.mode # "dir" -> Res(-1, pend)
            [] p.reloc # 0 /\ (p.reloc \in bad \/ p.reloc \notin DOMAIN disk.dir) -> Res(-1, pend)
            [] p.reloc # 0 /\ p.reloc \in DOMAIN disk.dir \ bad ->
                 LET r == iso_file_source_new_ifs(set, disk, disk.dir[p.reloc][1], pend, root, TRUE, bad)
                 IN IF r.ret <= 0 THEN r ELSE Res(1, [r.src EXCEPT !.name = NameOf(set, rec, p)])
            [] OTHER -> Complete(set, rec, pend, p)
=============================================================================

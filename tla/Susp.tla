--------------------------------- MODULE Susp ---------------------------------
(***************************************************************************)
(* libisofs/rockridge.c: the System Use fields of a directory record.      *)
(*                                                                         *)
(* The first pass of image production predicts how many bytes the fields   *)
(* of a record take in the System Use Area of the record (SUA) and in the  *)
(* Continuation Area of the directory (CA); the second one composes the    *)
(* fields.  The two decide by separate code where each field goes.         *)
(*                                                                         *)
(* Only the lengths of names, link targets and attributes matter.  A node  *)
(* is a record                                                             *)
(*   type, root   dir, file, symlink, special or placeholder; root or not  *)
(*   iso, name    length of ECMA-119 name and of Rock Ridge name           *)
(*   link         text lengths of the components of a link target, with    *)
(*                -1 for "." and -2 for ".."; the empty name is the root   *)
(*   device, relocated, relocDir, zf    whether PN, RE or PL, ZF is needed *)
(*   al           lengths of the AL fields of ACL and extended attributes  *)
(*   sections     number of file sections, 1 if not a file                 *)
(***************************************************************************)
EXTENDS Integers, Sequences, SequencesExt

CONSTANT BlockSize   \* BLOCK_SIZE, 2048 in the code

ASSUME BlockSizeAssumption == BlockSize \in Nat /\ BlockSize >= 512

CeSize == 28         \* ISO_CE_ENTRY_SIZE

DivUp(n, d) == (n + d - 1) \div d
RoundUpBlock(n)  == DivUp(n, BlockSize) * BlockSize
Even(n)     == n + (n % 2)
Total(lens) == FoldLeft(LAMBDA a, b : a + b, 0, lens)
If(cond, seq) == IF cond THEN seq ELSE <<>>

\* The free bytes for System Use fields.  Directory records have even length
\* of at most 254.
Space(usedUp) == 254 - usedUp - (usedUp % 2)

\* AAIP is announced by ER and marked by ES.
AaipByEr(o) == o.aaip /\ ~o.susp110

-----------------------------------------------------------------------------
(* Prediction: rrip_calc_len().                                            *)

\* Mutant: the room for the CE at the end of the block is not kept free.
AddToCeTight(ce, base, add, hop) ==
  IF hop /\ (ce + base + add - 1) \div BlockSize # (ce + base) \div BlockSize
  THEN RoundUpBlock(ce + base + CeSize) - base + add
  ELSE ce + add

\* susp_calc_add_to_ce(): if the field would leave less than 28 bytes of the
\* block, then a CE is inserted and the field goes to the next block.
AddToCe(ce, base, add, hop) ==
  IF hop /\ (ce + base + add + CeSize - 1) \div BlockSize
            # (ce + base) \div BlockSize
  THEN RoundUpBlock(ce + base + CeSize) - base + add
  ELSE ce + add

\* add_zf_field(): where the ZF field goes.  p has the free bytes of the SUA
\* and the bytes which the node already has in the CA.
PlaceZf(n, p, base, hop) ==
  IF ~n.zf THEN p
  ELSE IF p.free < 16 \/ p.ce > 0
  THEN [p EXCEPT !.ce = AddToCe(@, base, 16, hop)]
  ELSE [p EXCEPT !.free = @ - 16]

\* The lengths of the fields of aaip_add_AL(), the ES included.
AlLens(o, n) ==
  IF o.aaip /\ n.al # <<>> THEN If(~o.susp110, <<5>>) \o n.al ELSE <<>>

\* add_aa_string() and aaip_add_AL(): where the AL fields go.
PlaceAl(o, n, p, base, hop) ==
  LET lens == AlLens(o, n)
  IN  IF lens = <<>> THEN p
      ELSE IF p.free < Total(lens) \/ p.ce > 0
      THEN [p EXCEPT !.ce =
              FoldLeft(LAMBDA c, l : AddToCe(c, base, l, hop), @, lens)]
      ELSE [p EXCEPT !.free = @ - Total(lens)]

\* Bytes of a component record: flags, length, and no text for "." and "..".
CompLen(c) == 2 + (IF c < 0 THEN 0 ELSE c)

\* The SL fields in susp_calc_nm_sl_al().  A field has at most 255 bytes.  With
\* the first component that exceeds the SUA all of them move to the CA.
PlaceSl(n, p, base, hop) ==
  LET Step(acc, c) ==
        LET clen == CompLen(c)
            cew  == acc.cew \/ acc.sl + clen > p.free
            fit  == 255 - acc.sl - 2
            Add(ce, len) == AddToCe(ce, base, len, hop)
        IN  CASE ~cew \/ acc.sl + clen =< 255
                   -> [acc EXCEPT !.cew = cew, !.sl = @ + clen]
              [] cew /\ acc.sl + clen > 255 /\ clen > 250 /\ clen - 250 =< fit
                   -> [cew |-> TRUE, ce |-> Add(acc.ce, 255),
                       sl |-> 5 + (clen - fit)]
              [] cew /\ acc.sl + clen > 255 /\ clen > 250 /\ clen - 250 > fit
                   -> [cew |-> TRUE, ce |-> Add(Add(acc.ce, acc.sl), 255),
                       sl |-> 5 + (clen - 250) + 2]
              [] OTHER
                   -> [cew |-> TRUE, ce |-> Add(acc.ce, acc.sl), sl |-> 5 + clen]
      end == FoldLeft(Step, [cew |-> p.ce # 0, ce |-> p.ce, sl |-> 5], n.link)
  IN  IF n.type # "symlink" THEN p
      ELSE IF end.cew THEN [p EXCEPT !.ce = AddToCe(end.ce, base, end.sl, hop)]
      ELSE [p EXCEPT !.free = @ - end.sl]

\* The end of susp_calc_nm_sl_al(), with p having the free bytes of the SUA and
\* the bytes in the CA.  ret is 0 if the CA is needed but not announced, or if
\* it crosses a block boundary without permission to hop.
Verdict(space, su, base, announced, hop, p) ==
  LET crossed == base \div BlockSize # (base + p.ce + CeSize - 1) \div BlockSize
  IN  IF announced /\ su + CeSize > space
      THEN [ret |-> -1, announced |-> announced, su |-> su, ce |-> 0]
      ELSE IF p.ce > 0 /\ (~announced \/ (~hop /\ crossed))
      THEN [ret |-> 0, announced |-> announced, su |-> su, ce |-> 0]
      ELSE [ret |-> 1, announced |-> announced, su |-> space - p.free, ce |-> p.ce]

\* susp_calc_nm_sl_al() with flag bit0 = announced, bit1 = hop: NM, SL, ZF and
\* AL behind su bytes of other fields.
CalcNmSlAl(o, n, space, su, base, announced, hop) ==
  LET free == space - su - (IF announced THEN CeSize ELSE 0)
      nm   == IF 5 + n.name =< free
              THEN [free |-> free - 5 - n.name, ce |-> 0]
              ELSE [free |-> 0,
                    ce |-> AddToCe(0, base, 5 + n.name - (free - 5), hop)]
  IN  Verdict(space, su, base, announced, hop,
              PlaceAl(o, n, PlaceZf(n, PlaceSl(n, nm, base, hop), base, hop),
                      base, hop))

\* The three tries: without CA, with CA inside of a block, with hopping.
Tries(o, n, space, su, base) ==
  LET Try(announced, hop) == CalcNmSlAl(o, n, space, su, base, announced, hop)
      Retry(r, announced, hop) == IF r.ret = 0 THEN Try(announced, hop) ELSE r
  IN  Retry(Retry(Try(FALSE, FALSE), TRUE, FALSE), TRUE, TRUE)

ErLen(o) == (IF o.rrip110 THEN 237 ELSE 182) + (IF AaipByEr(o) THEN 160 ELSE 0)

\* rrip_calc_len(): bytes of node n in SUA and CA.  Type 0 is the record of
\* the node, 1 its "." record, 2 its ".." record.
RripCalcLen(o, n, type, usedUp, base) ==
  LET px    == IF o.pxIno \/ ~o.rrip110 THEN 44 ELSE 36
      moved == CASE n.type = "dir" /\ n.relocated ->
                      (CASE type = 2 -> 12 [] type = 0 -> 4 [] OTHER -> 0)
                 [] n.type = "dir" /\ ~n.relocated /\ n.relocDir /\ o.markReloc -> 4
                 [] n.type = "special" /\ n.device -> 20
                 [] n.type = "placeholder" -> 12
                 [] OTHER -> 0
      fixed == (IF AaipByEr(o) THEN 5 ELSE 0) + px + 26 + moved
      nm    == IF o.rrip110 THEN 0 ELSE 5
      Size(p) == [su |-> Even(p.su), ce |-> p.ce]
  IN  CASE type = 0 -> Size(Tries(o, n, Space(usedUp), fixed, base))
        [] type = 1 /\ n.root ->
             Size([su |-> fixed + nm + 7 + CeSize,
                   ce |-> ErLen(o) + PlaceAl(o, n, [free |-> 0, ce |-> 0],
                                             base, TRUE).ce])
        [] OTHER -> Size([su |-> fixed + nm, ce |-> 0])

-----------------------------------------------------------------------------
(* Composition: struct susp_info and rrip_get_susp_fields().               *)

\* block, off and size are the payload of a CE.
Field(id, len) == [id |-> id, len |-> len, block |-> 0, off |-> 0, size |-> 0]

CE(block, off, size) == [id |-> "CE", len |-> CeSize, block |-> block,
                         off |-> off, size |-> size]

\* sua, suf: the fields in the SUA and their size.  ce, ceLen: those in the CA
\* of the directory.  start: how many of ce are of other nodes.  comps: the
\* components of the SL fields.  err: ISO_ASSERT_FAILURE.
NoInfo == [sua |-> <<>>, suf |-> 0, ce |-> <<>>, ceLen |-> 0, start |-> 0,
           comps |-> <<>>, err |-> FALSE]

\* susp_append()
AppendSua(i, f) == [i EXCEPT !.sua = Append(@, f), !.suf = @ + f.len]

AppendAllSua(i, fs) == FoldLeft(AppendSua, i, fs)

\* susp_append_ce(): a CE at the end of each block of the CA points to the
\* start of the next one.
AppendCe(ceBlock, i, f) ==
  LET hop == (i.ceLen + f.len + CeSize - 1) \div BlockSize
             # i.ceLen \div BlockSize
      pad == (i.ceLen + CeSize) % BlockSize # 0
  IN  IF ~hop THEN [i EXCEPT !.ce = Append(@, f), !.ceLen = @ + f.len]
      ELSE [i EXCEPT
              !.ce = @ \o <<CE(ceBlock + i.ceLen \div BlockSize + 1, 0, BlockSize)>>
                       \o If(pad, <<Field("PAD", 0)>>) \o <<f>>,
              !.ceLen = RoundUpBlock(@ + CeSize) + f.len]

AppendAllCe(ceBlock, i, fs) ==
  FoldLeft(LAMBDA j, f : AppendCe(ceBlock, j, f), i, fs)

\* susp_add_CE(): the entry in the SUA which points to the CA.
AddCE(ceBlock, i, len) ==
  AppendSua(i, CE(ceBlock + i.ceLen \div BlockSize, i.ceLen % BlockSize, len))

\* Length of the link target from byte 248 of component k to its very end.
Remainder(link, k) ==
  LET text(c) == IF c < 0 THEN -c ELSE c
  IN  text(link[k]) - 248
      + Total([j \in 1 .. Len(link) - k |-> 1 + text(link[k + j])])

\* rrip_SL_append_comp(): the length is an unsigned byte.
Comp(size, continues) == [size |-> size % 256, continues |-> continues]

\* The next component of a link target: acc has the components so far, the size
\* of the current SL field, the bytes in the CA and whether SL goes there.
ComposeComp(link, free, acc, k) ==
  LET clen == CompLen(link[k])
      cew  == acc.cew \/ acc.sl + clen > free
      fit  == 255 - acc.sl - 2
      whole == Comp(clen - 2, FALSE)
  IN  CASE ~cew \/ acc.sl + clen =< 255
             -> [cew |-> cew, ce |-> acc.ce, sl |-> acc.sl + clen,
                 comps |-> Append(acc.comps, whole)]
        [] cew /\ acc.sl + clen > 255 /\ clen > 250 /\ clen - 250 =< fit
             -> [cew |-> TRUE, ce |-> acc.ce + 255,
                 sl |-> 5 + (clen - fit),
                 comps |-> acc.comps \o <<Comp(fit, TRUE),
                                         Comp(clen - fit - 2, FALSE)>>]
        [] cew /\ acc.sl + clen > 255 /\ clen > 250 /\ clen - 250 > fit
             -> [cew |-> TRUE, ce |-> acc.ce + acc.sl + 255,
                 sl |-> 5 + (clen - 250) + 2,
                 comps |-> acc.comps \o <<Comp(248, TRUE),
                                   Comp(Remainder(link, k), FALSE)>>]
        [] OTHER
             -> [cew |-> TRUE, ce |-> acc.ce + acc.sl, sl |-> 5 + clen,
                 comps |-> Append(acc.comps, whole)]

\* The components of the SL fields in rrip_get_susp_fields(), and the bytes in
\* the CA behind ce bytes of NM.
ComposeSl(link, free, ce) ==
  LET end == FoldLeft(LAMBDA acc, k : ComposeComp(link, free, acc, k),
                      [cew |-> ce > 0, ce |-> ce, sl |-> 5, comps |-> <<>>],
                      [k \in 1 .. Len(link) |-> k])
  IN  [comps |-> end.comps, ce |-> IF end.cew THEN end.ce + end.sl ELSE end.ce]

\* A component which does not fit any more begins a new SL field.
AddComp(ceBlock, toCe, acc, c) ==
  IF acc.total + c.size + 2 =< 250
  THEN [acc EXCEPT !.total = @ + c.size + 2]
  ELSE [i |-> [AppendCe(ceBlock, acc.i, Field("SL", acc.total + 5))
                 EXCEPT !.err = @ \/ ~toCe],
        total |-> c.size + 2]

\* rrip_add_SL(): distribute the components over SL fields.
AddSL(ceBlock, i, comps, toCe) ==
  LET end == FoldLeft(LAMBDA acc, c : AddComp(ceBlock, toCe, acc, c),
                      [i |-> i, total |-> 0], comps)
      last == Field("SL", end.total + 5)
  IN  IF toCe THEN AppendCe(ceBlock, end.i, last) ELSE AppendSua(end.i, last)

\* The fields which always go to the SUA.
FixedFields(o, n, type) ==
  LET relocated == n.type = "dir" /\ n.relocated
      dedicated == n.type = "dir" /\ ~n.relocated /\ n.relocDir /\ o.markReloc
  IN  If(type = 1 /\ n.root, <<Field("SP", 7)>>)
      \o If(AaipByEr(o), <<Field("ES", 5)>>)
      \o <<Field("PX", IF o.pxIno \/ ~o.rrip110 THEN 44 ELSE 36), Field("TF", 26)>>
      \o If(relocated /\ type = 2, <<Field("PL", 12)>>)
      \o If((relocated /\ type = 0) \/ dedicated, <<Field("RE", 4)>>)
      \o If(n.type = "special" /\ n.device, <<Field("PN", 20)>>)
      \o If(n.type = "placeholder", <<Field("CL", 12)>>)

AlFields(o, n) ==
  [k \in 1 .. Len(AlLens(o, n)) |->
     Field(IF k = 1 /\ ~o.susp110 THEN "ES" ELSE "AL", AlLens(o, n)[k])]

\* ZF and AL: add_zf_field() and add_aa_string() decide by the remaining bytes
\* free and by the bytes ce in the CA.
ComposeZfAl(o, n, ceBlock, i, base, free, ce) ==
  LET zf == PlaceZf(n, [free |-> free, ce |-> ce], base, TRUE)
      al == PlaceAl(o, n, zf, base, TRUE)
      i1 == IF ~n.zf THEN i
            ELSE IF zf.ce > 0 THEN AppendCe(ceBlock, i, Field("ZF", 16))
            ELSE AppendSua(i, Field("ZF", 16))
  IN  IF al.ce > 0 THEN AppendAllCe(ceBlock, i1, AlFields(o, n))
                   ELSE AppendAllSua(i1, AlFields(o, n))

\* rrip_get_susp_fields() of type 0, behind the fixed fields.  try is what the
\* tries of susp_calc_nm_sl_al() predict.  rrip_add_NM() refuses more than 250
\* bytes of text.
ComposeNode(o, n, space, ceBlock, i, try) ==
  LET free   == space - i.suf - (IF try.announced THEN CeSize ELSE 0)
      whole  == 5 + n.name =< free
      part   == IF whole THEN n.name ELSE free - 5
      nmCe   == IF whole THEN 0 ELSE 5 + n.name - part
      freeNm == IF whole THEN free - 5 - n.name ELSE 0
      WithCE(j) == IF try.announced THEN AddCE(ceBlock, j, try.ce) ELSE j
      WithNM(j) == IF whole THEN j ELSE AppendCe(ceBlock, j, Field("NM", nmCe))
      named  == WithNM(WithCE(AppendSua(i, Field("NM", 5 + part))))
      WithSL(j, sl) ==
        ComposeZfAl(o, n, ceBlock,
          IF n.type = "symlink"
          THEN [AddSL(ceBlock, j, sl.comps, sl.ce > 0) EXCEPT !.comps = sl.comps]
          ELSE j,
          i.ceLen, freeNm, sl.ce)
  IN  [WithSL(named, IF n.type = "symlink" THEN ComposeSl(n.link, freeNm, nmCe)
                                           ELSE [comps |-> <<>>, ce |-> nmCe])
         EXCEPT !.err = @ \/ 5 + part > 255 \/ nmCe > 255]

\* rrip_get_susp_fields() of type 1 and 2, behind the fixed fields.
ComposeDots(o, n, type, ceBlock, i) ==
  LET i1 == AppendAllSua(i, If(~o.rrip110, <<Field("NM", 5)>>))
      al == PlaceAl(o, n, [free |-> 0, ce |-> 0], i.ceLen, TRUE)
      i2 == AddCE(ceBlock, i1, ErLen(o) + al.ce)
  IN  IF type = 1 /\ n.root
      THEN AppendAllCe(ceBlock, i2,
             <<Field("ER", IF o.rrip110 THEN 237 ELSE 182)>>
               \o If(AaipByEr(o), <<Field("ER", 160)>>) \o AlFields(o, n))
      ELSE i1

\* rrip_get_susp_fields(): i is what the previous record has left.  The SUA of
\* that record has been disposed by rrip_write_susp_fields(), unless the CE was
\* missing there.
Compose(o, n, type, usedUp, ceBlock, i) ==
  LET space == Space(usedUp)
      left  == IF i.err THEN i ELSE [i EXCEPT !.sua = <<>>, !.suf = 0]
      Rest(j) ==
        IF j.suf + CeSize > space \/ space < 124 THEN [j EXCEPT !.err = TRUE]
        ELSE [IF type = 0
              THEN ComposeNode(o, n, space, ceBlock, j,
                               Tries(o, n, space, j.suf, j.ceLen))
              ELSE ComposeDots(o, n, type, ceBlock, j) EXCEPT !.suf = Even(@)]
  IN  Rest(AppendAllSua([left EXCEPT !.comps = <<>>, !.err = FALSE,
                                     !.start = Len(i.ce)],
                        FixedFields(o, n, type)))

\* Mutant: the CE at the end of a block does not count.
UpdateCeSizesShort(i) ==
  LET first == SelectInSeq(i.sua, LAMBDA f : f.id = "CE")
      Set(j, cur, size) == IF cur = 0 THEN [j EXCEPT !.sua[first].size = size]
                                      ELSE [j EXCEPT !.ce[cur].size = size]
      Step(acc, k) ==
        LET f == i.ce[k]
            next == (acc.pos + f.len) % BlockSize
        IN  CASE f.id = "PAD" -> [acc EXCEPT !.pos = 0]
              [] f.id = "CE"  -> [i |-> Set(acc.i, acc.cur, acc.pos),
                                  cur |-> k, pos |-> next]
              [] OTHER -> [acc EXCEPT !.pos = next]
      end == FoldLeft(Step, [i |-> i, cur |-> 0, pos |-> 0],
                      [k \in 1 .. Len(i.ce) - i.start |-> i.start + k])
  IN  IF i.sua = <<>> \/ Len(i.ce) = i.start THEN i
      ELSE IF first = 0 THEN [i EXCEPT !.err = TRUE]
      ELSE IF end.pos > 0 THEN Set(end.i, end.cur, end.pos) ELSE end.i

\* The first CE in the SUA, 0 if there is none.
FirstCE(i) == SelectInSeq(i.sua, LAMBDA f : f.id = "CE")

\* j with the size of a CE set.  cur is its place in the CA, 0 for the one in
\* the SUA.
SetCeSize(i, j, cur, size) ==
  IF cur = 0 THEN [j EXCEPT !.sua[FirstCE(i)].size = size]
             ELSE [j EXCEPT !.ce[cur].size = size]

\* The next field k of the CA: a CE ends the part to which acc.cur points.
CountCe(i, acc, k) ==
  LET f == i.ce[k]
      next == (acc.pos + f.len) % BlockSize
  IN  CASE f.id = "PAD" -> [acc EXCEPT !.pos = 0]
        [] f.id = "CE"  -> [i |-> SetCeSize(i, acc.i, acc.cur,
                                  IF next = 0 THEN BlockSize ELSE next),
                            cur |-> k, pos |-> next]
        [] OTHER -> [acc EXCEPT !.pos = next]

\* susp_update_CE_sizes(): each CE gets the size of the part of the CA to which
\* it points.
UpdateCeSizes(i) ==
  LET end == FoldLeft(LAMBDA acc, k : CountCe(i, acc, k), [i |-> i, cur |-> 0, pos |-> 0],
                      [k \in 1 .. Len(i.ce) - i.start |-> i.start + k])
  IN  IF i.sua = <<>> \/ Len(i.ce) = i.start THEN i
      ELSE IF FirstCE(i) = 0 THEN [i EXCEPT !.err = TRUE]
      ELSE IF end.pos > 0 THEN SetCeSize(i, end.i, end.cur, end.pos) ELSE end.i

\* A field of the CA gets written.
WriteCe(pos, f) == IF f.id = "PAD" THEN RoundUpBlock(pos) ELSE pos + f.len

\* rrip_write_ce_fields(): the bytes written after field k of the CA.
CeWritten(ce, k) == FoldLeft(WriteCe, 0, SubSeq(ce, 1, k))

\* All bytes written by rrip_write_ce_fields(): the padding at the end goes by
\* the counter ce_len.
CeArea(i) == CeWritten(i.ce, Len(i.ce)) + (RoundUpBlock(i.ceLen) - i.ceLen)
=============================================================================

------------------------------- MODULE Streams -------------------------------
(***************************************************************************)
(* Data streams of files and the filters that get stacked on them:         *)
(* stream.c (file source, cut-out, memory), filter.c, filters/gzip.c and   *)
(* filters/zisofs.c.  A stream is an object with a class, a reference      *)
(* counter and, if it is a filter, an input stream.  The methods of the    *)
(* class are called through each other, so that they are written here as   *)
(* one recursive operator Do(op, h, i, a) on the heap h of all streams:    *)
(* it returns the changed heap and the return value of the method.         *)
(*                                                                         *)
(* Bytes have no values.  The content of the data source is a record with  *)
(* its size, its length after gzip, the lengths of its blocks after zlib   *)
(* compression and, if it is a zisofs file itself, its header.  The zlib   *)
(* functions are external: deflate() hands out its output after all input. *)
(***************************************************************************)
EXTENDS Integers, Sequences, FiniteSets, FiniteSetsExt

CONSTANTS
    Ids,            \* stream objects that may exist at the same time, a subset of Nat
    Files,          \* IsoFile nodes
    Contents,       \* what the data source may contain over time
    FirstContent,   \* what it contains when the first stream is created
    ReadSizes,      \* numbers of bytes requested by one read
    V1Limit,        \* ISO_ZISOFS_V1_LIMIT, 4 GiB in the code
    MaxTotal,       \* ziso_max_total_blocks
    MaxFile,        \* ziso_max_file_blocks
    ParamSets,      \* values of struct iso_zisofs_ctrl
    Stackings,      \* bound: <<class below, class of the filter above>>
    SrcChanges      \* bound: changes of the source by others

VARIABLES
    st,     \* Ids -> stream object
    g,      \* static variables of gzip.c and zisofs.c
    src,    \* current content of the data source, Gone if it was removed
    file,   \* Files -> the id of IsoFile.stream, 0 if the file does not exist
    sess,   \* Files -> record of the present or last read session of the file
    chg     \* number of changes of the source

vars == <<st, g, src, file, sess, chg>>

-----------------------------------------------------------------------------
(* Return values, negative as in libisofs.h.                               *)
NULL_SIZE == -1
GONE == -2
NOT_OPENED == -3
ALREADY_OPENED == -4
WRONG_ARG == -5
UNKNOWN_SIZE == -6
TOO_LARGE == -7
TOO_MANY_PTR == -8
WRONG_INPUT == -9
ZISOFS_WRONG_INPUT == -10
COMPR_ERR == -11
EARLY_EOF == -12
PARAM_LOCK == -13
UNDEFINED == -99    \* not a return value: memory was used which is not there

Gone == [size |-> -1, gz |-> 0, cl |-> <<>>, gun |-> -1, z |-> <<>>]
Closed == -1
NoRun == [st |-> -1]
Raw == {"fsrc", "cout", "mem"}
Classes == Raw \cup {"gzip", "pizg", "ziso", "osiz"}
IsRun(x) == x.st >= 0

DivUp(a, b) == (a + b - 1) \div b
Pow2(k) == 2^k
Least(a, b) == IF a < b THEN a ELSE b

(* IsoStream with the private data of its class; the fields a class does   *)
(* not have keep their initial value.  bp is block_pointers, <<>> for NULL; *)
(* its length is block_pointer_counter.                                    *)
NewStream(c, o) ==
    [class |-> c, ref |-> 1, orig |-> o, size |-> NULL_SIZE, pos |-> Closed,
     off |-> 0, run |-> NoRun, osize |-> 0, bp |-> <<>>, opens |-> 0,
     dropped |-> FALSE]
FreeStream == [NewStream("free", 0) EXCEPT !.ref = 0]

(* gzip_running_new, ziso_running_new *)
GzRun == [st |-> 0, total |-> NULL_SIZE, out |-> 0, err |-> 0]
ZRun(bs) == [st |-> 0, v |-> 0, bs |-> bs, fill |-> 0, rp |-> 0, bf |-> 0,
             br |-> 0, blk |-> 0, in |-> 0, out |-> 0, err |-> 0, pt |-> <<>>]

Ret(h, r) == [h |-> h, r |-> r]
Fail(h, i, e) == Ret([h EXCEPT !.st[i].run.err = e], e)
NewId(h) == Min({i \in Ids : h.st[i].class = "free"})
Spare(h) == Cardinality({i \in Ids : h.st[i].class = "free"})

-----------------------------------------------------------------------------
(* Parameters of zisofs compression                                        *)

ziso_decide_v2_usage(gg, size) ==
    gg.v2 > 1 \/ (gg.v2 = 1 /\ size >= V1Limit)

(* ziso_decide_bs_log2: the smallest block size that meets the wished      *)
(* number of blocks, at most the size that was set                         *)
ziso_decide_bs_log2(gg, size) ==
    LET most == IF ziso_decide_v2_usage(gg, size) THEN gg.bs2 ELSE gg.bs
        fit  == {k \in 15..(most - 1) :
                   DivUp(size, Pow2(k)) + 1 <= gg.target}
    IN  IF gg.target <= 0 \/ fit = {} THEN most ELSE Min(fit)

NumPointers(size, bs) == DivUp(size, bs) + 1
HeadSize(v) == IF v = 1 THEN 16 ELSE 24
PointerSize(v) == IF v = 1 THEN 4 ELSE 8
BufferSize(bs) == bs + bs \div 1000 + 13    \* compressBound(), external

(* ziso_block_pointer_mgt, modes 0 (room?), 1 (register) and 2 (release)    *)
PointersFit(gg, num) == gg.bpts + num <= MaxTotal
Register(gg, num) == [gg EXCEPT !.bpts = @ + num]
Release(gg, num) == [gg EXCEPT !.bpts = IF @ < num THEN 0 ELSE @ - num]

-----------------------------------------------------------------------------
(* What the streams deliver.  A filter on a filter sees incompressible     *)
(* data.                                                                   *)

(* length of the k-th block of stream o after compress2(), 0 if all bytes  *)
(* of the block are zero                                                   *)
CompressedLen(h, o, k, len) ==
    IF h.st[o].class \in Raw
    THEN IF k <= Len(h.src.cl) THEN h.src.cl[k] ELSE len \div 2
    ELSE len + 11

GzippedLen(h, o, len) ==
    IF h.st[o].class \in Raw THEN h.src.gz ELSE len + 18

(* the length inflate() makes of the data of stream o                      *)
GunzippedLen(h, o) ==
    IF h.st[o].class = "gzip" THEN h.st[h.st[o].orig].size ELSE h.src.gun

(* zisofs header and pointers at the start of the data of stream o, <<>>   *)
(* if there are none                                                       *)
HeadOf(h, o) == IF h.st[o].class \in Raw THEN h.src.z ELSE <<>>

(* ziso_parse_zisofs_head: value tests (the bytes were read by the caller) *)
HeadValid(hd, gg) ==
    /\ hd.hs >= 4
    /\ IF hd.algo = 0 THEN hd.bl \in 15..17 ELSE hd.bl \in 15..20
    /\ hd.algo \in {0, 1}

-----------------------------------------------------------------------------
(* The methods.  RECURSIVE Do(op, h, i, a):                                *)
(*   "open" (a: 1 = the caller finds out the size), "close" (a: bits 1, 2), *)
(*   "read" (a: number of bytes), "size", "unref", "drain" (a: bytes so    *)
(*   far), "zloop" and "uloop" (a: <<desired, fill>>), "clone"             *)
RECURSIVE Do(_, _, _, _)

(* fsrc_open returns 2 or 3 if the size of the source is not the one at    *)
(* the time of creation                                                    *)
fsrc_open(h, i) ==
    IF h.src = Gone THEN Ret(h, GONE)
    ELSE Ret([h EXCEPT !.st[i].pos = 0],
             IF h.st[i].size = h.src.size THEN 1
             ELSE IF h.st[i].size > h.src.size THEN 3 ELSE 2)
(* cut_out_open seeks the offset, at most the end of the source            *)
cut_out_open(h, i) ==
    LET s == h.st[i] IN
    IF h.src = Gone THEN Ret(h, GONE)
    ELSE Ret([h EXCEPT !.st[i].pos = Least(s.off, h.src.size)],
             IF s.off + s.size > h.src.size THEN 3 ELSE 1)
mem_open(h, i) == Ret([h EXCEPT !.st[i].pos = 0], 1)
RawOpen(h, i) ==
    IF h.st[i].class # "mem" /\ h.src = Gone THEN Ret(h, GONE)
    ELSE IF h.st[i].pos # Closed THEN Ret(h, ALREADY_OPENED)
    ELSE CASE h.st[i].class = "fsrc" -> fsrc_open(h, i)
           [] h.st[i].class = "cout" -> cut_out_open(h, i)
           [] OTHER -> mem_open(h, i)

RawClose(h, i) ==
    IF h.st[i].pos = Closed THEN Ret(h, NOT_OPENED)
    ELSE Ret([h EXCEPT !.st[i].pos = Closed], 1)

(* fsrc_read delivers up to the end of the source, not of the announced    *)
(* size; cut_out_read compares the request with size - pos, where pos      *)
(* stays 0; mem_read owns its bytes.                                       *)
Deliver(h, i, want, end) ==
    LET pos == h.st[i].pos
        got == IF pos >= end THEN 0 ELSE Least(want, end - pos)
    IN  Ret([h EXCEPT !.st[i].pos = @ + got], got)
fsrc_read(h, i, n) == Deliver(h, i, n, h.src.size)
cut_out_read(h, i, n) == Deliver(h, i, Least(n, h.st[i].size), h.src.size)
mem_read(h, i, n) == IF n = 0 THEN Ret(h, WRONG_ARG) ELSE Deliver(h, i, n, h.st[i].size)
RawRead(h, i, n) ==
    IF h.st[i].pos = Closed THEN Ret(h, NOT_OPENED)
    ELSE CASE h.st[i].class = "fsrc" -> fsrc_read(h, i, n)
           [] h.st[i].class = "cout" -> cut_out_read(h, i, n)
           [] OTHER -> mem_read(h, i, n)

(* gzip_stream_open_flag: runtime first, then the input; if the input      *)
(* cannot be opened the runtime stays                                      *)
GzOpen2(x, i) == Do("open", [x.h EXCEPT !.st[i].run = GzRun], x.h.st[i].orig, 0)
GzOpen1(x, i) == IF x.r < 0 THEN x ELSE Ret(x.h, 1)
GzOpen(h, i, a) ==
    IF IsRun(h.st[i].run) THEN Ret(h, ALREADY_OPENED)
    ELSE GzOpen1(GzOpen2(IF h.st[i].size < 0 /\ a = 0 THEN Do("size", h, i, 0)
                         ELSE Ret(h, 1), i), i)

(* gzip_stream_close_flag *)
GzClose(h, i) ==
    IF ~IsRun(h.st[i].run) THEN Ret(h, 1)
    ELSE Do("close", [h EXCEPT !.st[i].run = NoRun], h.st[i].orig, 0)

(* gzip_stream_convert: gunzipping ends at the end of the gzip data or     *)
(* finds the input too short                                               *)
GzDrained(x, i) ==
    LET c == x.h.st[i].class
        o == x.h.st[i].orig
    IN  IF x.r < 0 THEN Fail(x.h, i, x.r)
        ELSE IF c = "pizg" /\ x.r < x.h.st[o].size THEN Fail(x.h, i, EARLY_EOF)
        ELSE Ret([x.h EXCEPT !.st[i].run.total =
                     IF c = "pizg" THEN GunzippedLen(x.h, o)
                     ELSE GzippedLen(x.h, o, x.r)], 1)
GzDeliver(x, i, n) ==
    LET left == x.h.st[i].run.total - x.h.st[i].run.out
    IN  IF x.r < 0 THEN x
        ELSE Ret([x.h EXCEPT !.st[i].run.out = @ + Least(n, left)], Least(n, left))
gzip_stream_convert(h, i, n) ==
    IF ~IsRun(h.st[i].run) THEN Ret(h, NOT_OPENED)
    ELSE IF h.st[i].run.err < 0 THEN Ret(h, h.st[i].run.err)
    ELSE GzDeliver(IF h.st[i].run.total >= 0 THEN Ret(h, 1)
                   ELSE GzDrained(Do("drain", h, h.st[i].orig, 0), i), i, n)

(* Reading a stream to its end: the loops of gzip_stream_get_size and      *)
(* ziso_stream_measure_size, and the input side of gzip_stream_convert     *)
DrainNext(x, i, a) ==
    IF x.r < 0 THEN x ELSE IF x.r = 0 THEN Ret(x.h, a)
    ELSE Do("drain", x.h, i, a + x.r)

(* gzip_stream_get_size *)
GzSized(x, y, i) ==     \* x: result of reading, y: of closing after it
    IF x.r < 0 THEN Ret(y.h, x.r) ELSE IF y.r < 0 THEN y
    ELSE Ret([y.h EXCEPT !.st[i].size = x.r], x.r)
GzMeasured(x, i) == GzSized(x, GzClose(x.h, i), i)
GzSize(h, i) ==
    IF h.st[i].size >= 0 THEN Ret(h, h.st[i].size)
    ELSE LET o == GzOpen(h, i, 1)
         IN  IF o.r < 0 THEN o ELSE GzMeasured(Do("drain", o.h, i, 0), i)

-----------------------------------------------------------------------------
(* zisofs                                                                  *)

(* ziso_discard_bpt: flag bit0 = by the application, bit1 = at close       *)
ziso_discard_bpt(h, i, app, closing) ==
    LET s == h.st[i] IN
    IF \/ s.class # "ziso" \/ s.bp = <<>>
       \/ s.opens # (IF closing THEN 1 ELSE 0)
       \/ ~app /\ ~h.g.early
    THEN Ret(h, 0)
    ELSE Ret([h EXCEPT !.g = Release(@, Len(s.bp)), !.st[i].bp = <<>>,
                       !.st[i].dropped = TRUE], 1)

(* mutant: the pointers of an uncompression stay registered *)
ZDestroyUncounted(h, i) == [h EXCEPT !.st[i].run = NoRun]

(* ziso_running_destroy releases the pointers of an uncompression          *)
ZDestroy(h, i) ==
    [h EXCEPT !.st[i].run = NoRun,
              !.g = Release(@, Len(h.st[i].run.pt))]

(* ziso_stream_close_flag; keep: flag bit1, no discarding of pointers      *)
ZCloseInput(h, i) ==
    IF ~IsRun(h.st[i].run) THEN Ret(h, 1)
    ELSE Do("close", [ZDestroy(h, i) EXCEPT !.st[i].opens = IF @ > 0 THEN @ - 1 ELSE 0],
            h.st[i].orig, 0)
ZClose(h, i, keep) ==
    ZCloseInput(IF keep THEN h ELSE ziso_discard_bpt(h, i, FALSE, TRUE).h, i)

(* ziso_stream_open_flag: the open counter goes up before anything can     *)
(* fail, and the runtime stays if the input cannot be opened               *)
ZOpen2(x, i) == IF x.r < 0 THEN x ELSE Ret(x.h, 1)
ZOpen1(h, i, size) ==
    IF size < 0 THEN Ret(h, UNKNOWN_SIZE)
    ELSE ZOpen2(Do("open",
                   [h EXCEPT !.st[i].run =
                       ZRun(IF h.st[i].class = "osiz" THEN 0
                            ELSE Pow2(ziso_decide_bs_log2(h.g, size)))],
                   h.st[i].orig, 0), i)
ZOpenSized(x, i) ==
    IF x.h.st[i].class = "ziso"
    THEN ZOpen1([x.h EXCEPT !.st[i].opens = @ + 1], i, x.h.st[i].osize)
    ELSE ZOpen1(x.h, i, x.h.st[i].size)
ZOpen(h, i, a) ==
    IF IsRun(h.st[i].run) THEN Ret(h, ALREADY_OPENED)
    ELSE ZOpenSized(IF h.st[i].size < 0 /\ a = 0 THEN Do("size", h, i, 0)
                    ELSE Ret(h, 1), i)

(* ziso_stream_measure_size; opened: flag bit0, keep: flag bit1            *)
ZSized(x, y, i) ==
    IF x.r < 0 THEN Ret(y.h, x.r) ELSE IF y.r < 0 THEN y
    ELSE LET n == IF y.h.st[i].class = "osiz" THEN y.h.st[i].size ELSE x.r
         IN  Ret([y.h EXCEPT !.st[i].size = n], n)
ZMeasured(x, i, keep) == ZSized(x, ZClose(x.h, i, keep), i)
ZMeasure1(x, i, keep) ==
    IF x.r < 0 THEN x
    ELSE ZMeasured(IF x.h.st[i].class = "osiz" THEN Do("uloop", x.h, i, <<0, 0>>)
                   ELSE Do("drain", x.h, i, 0), i, keep)
ziso_stream_measure_size(h, i, opened, keep) ==
    ZMeasure1(IF opened THEN Ret(h, 1) ELSE ZOpen(h, i, 1), i, keep)

(* ziso_stream_get_size *)
ZSize(h, i) ==
    IF h.st[i].size >= 0 THEN Ret(h, h.st[i].size)
    ELSE ziso_stream_measure_size(h, i, FALSE, FALSE)

(* ziso_stream_compress, state 0: header; x is iso_stream_get_size(orig)   *)
Z0(x, i) ==
    LET h == x.h
        r == h.st[i].run
        num == NumPointers(x.r, r.bs)
        v2 == ziso_decide_v2_usage(h.g, x.r)
    IN  CASE r.st = 0 /\ r.bf = 0 /\ num > MaxFile -> Fail(h, i, TOO_LARGE)
          [] r.st = 0 /\ r.bf = 0 /\ num <= MaxFile /\ ~PointersFit(h.g, num) ->
               Fail([h EXCEPT !.g.early = TRUE], i, TOO_MANY_PTR)
          [] r.st = 0 /\ r.bf = 0 /\ num <= MaxFile /\ PointersFit(h.g, num)
             /\ x.r # h.st[i].osize -> Fail(h, i, WRONG_INPUT)
          [] r.st = 0 /\ r.bf = 0 /\ num <= MaxFile /\ PointersFit(h.g, num)
             /\ x.r = h.st[i].osize ->
               IF ~v2 /\ x.r >= V1Limit THEN Fail(h, i, TOO_LARGE)
               ELSE Ret([h EXCEPT !.st[i].run =
                           [@ EXCEPT !.v = IF v2 THEN 2 ELSE 1, !.br = 0,
                                     !.bf = HeadSize(IF v2 THEN 2 ELSE 1)]], 1)
          [] r.st = 0 /\ r.bf > 0 /\ r.br >= r.bf ->
               Ret([h EXCEPT !.st[i].run = [@ EXCEPT !.bf = 0, !.br = 0, !.st = 1]], 1)
          [] OTHER -> Ret(h, 1)

(* state 1: block pointers.  Those of the measuring pass are zeros.        *)
Z1Alloc(h, i) ==
    LET s == h.st[i]
        num == NumPointers(s.osize, s.run.bs)
    IN  IF s.run.st # 1 \/ (s.run.fill # 0 /\ s.bp # <<>>) THEN Ret(h, 1)
        ELSE IF s.run.fill > 0 /\ num # s.run.fill THEN Fail(h, i, WRONG_INPUT)
        ELSE IF s.bp # <<>>
             THEN Ret([h EXCEPT !.st[i].run = [@ EXCEPT !.rp = 0, !.fill = num]], 1)
        ELSE IF ~PointersFit(h.g, num)
             THEN Fail([h EXCEPT !.g.early = TRUE, !.st[i].run.fill = 0], i, TOO_MANY_PTR)
        ELSE Ret([h EXCEPT !.g = Register(@, num),
                           !.st[i].bp = [k \in 1..num |-> 0],
                           !.st[i].run = [@ EXCEPT !.rp = 0, !.fill = num]], 1)
Z1(x, i) ==
    LET h == x.h
        r == h.st[i].run
        todo == Least(r.fill - r.rp, BufferSize(r.bs) \div PointerSize(r.v))
    IN  IF x.r < 0 \/ r.st # 1 \/ r.br < r.bf THEN x
        ELSE IF Len(h.st[i].bp) < r.fill THEN Ret(h, UNDEFINED)
        ELSE IF r.rp >= r.fill
        THEN Ret([h EXCEPT !.st[i].run = [@ EXCEPT !.bf = 0, !.br = 0, !.blk = 0, !.st = 2],
                           !.st[i].bp[1] = HeadSize(r.v) + r.fill * PointerSize(r.v)], 1)
        ELSE Ret([h EXCEPT !.st[i].run = [@ EXCEPT !.bf = todo * PointerSize(r.v), !.br = 0,
                                                   !.rp = @ + todo]], 1)

(* state 2: the block that was read from the input is compressed; x is the *)
(* result of reading                                                       *)
Z2BlockTrusting(h, i, n) ==     \* mutant: no comparison with the measured pointer
    LET s == h.st[i]
        k == s.run.blk + 1
        len == CompressedLen(h, s.orig, k, n)
        next == s.bp[k] + len
        h1 == [h EXCEPT !.st[i].run = [@ EXCEPT !.in = @ + n, !.bf = len, !.br = 0]]
    IN  IF s.run.in + n > s.osize THEN Fail(h, i, WRONG_INPUT)
        ELSE IF s.size >= 0 /\ next > s.size THEN Fail(h1, i, WRONG_INPUT)
        ELSE Ret([h1 EXCEPT !.st[i].run.blk = k, !.st[i].bp[k + 1] = next], 1)
Z2Block(h, i, n) ==
    LET s == h.st[i]
        k == s.run.blk + 1
        len == CompressedLen(h, s.orig, k, n)
        next == s.bp[k] + len
        h1 == [h EXCEPT !.st[i].run = [@ EXCEPT !.in = @ + n, !.bf = len, !.br = 0]]
    IN  IF s.run.in + n > s.osize THEN Fail(h, i, WRONG_INPUT)
        ELSE IF s.size >= 0 /\ next > s.size THEN Fail(h1, i, WRONG_INPUT)
        ELSE IF s.bp[k + 1] > 0 /\ s.bp[k + 1] # next THEN Fail(h1, i, WRONG_INPUT)
        ELSE Ret([h1 EXCEPT !.st[i].run.blk = k, !.st[i].bp[k + 1] = next], 1)
Z2(x, i) ==
    IF x.r > 0 THEN Z2Block(x.h, i, x.r)
    ELSE IF x.r < 0 THEN Fail(x.h, i, x.r)
    ELSE IF x.h.st[i].run.in # x.h.st[i].osize
         THEN Fail([x.h EXCEPT !.st[i].run.st = 3], i, WRONG_INPUT)
         ELSE Ret([x.h EXCEPT !.st[i].run.st = 3], 0)

(* The transfer at the end of the loops of ziso_stream_compress and        *)
(* ziso_stream_uncompress; p is <<desired, fill>>, rec the loop to go on   *)
Transfer(h, i, p, rec) ==
    LET r == h.st[i].run
        todo == Least(p[1] - p[2], r.bf - r.br)
        h1 == [h EXCEPT !.st[i].run.br = @ + todo, !.st[i].run.out = @ + todo]
    IN  IF p[2] + todo >= p[1] THEN Ret(h1, p[2] + todo)
        ELSE Do(rec, h1, i, <<p[1], p[2] + todo>>)
ZLoop2(x, i, p) ==
    IF x.r < 0 THEN x
    ELSE IF x.r = 0 THEN Ret(x.h, p[2])
    ELSE IF x.h.st[i].run.st = 2 /\ x.h.st[i].run.bf = 0 THEN Do("zloop", x.h, i, p)
    ELSE Transfer(x.h, i, p, "zloop")
ZLoop1(x, i, p) ==
    LET r == x.h.st[i].run IN
    IF x.r < 0 THEN x
    ELSE IF r.st = 2 /\ r.br >= r.bf
    THEN ZLoop2(Z2(Do("read", x.h, x.h.st[i].orig, r.bs), i), i, p)
    ELSE IF r.st = 3 /\ r.br >= r.bf THEN Ret(x.h, 0)
    ELSE Transfer(x.h, i, p, "zloop")
ZLoop0(x, i) == IF x.r < 0 THEN x ELSE Z1(Z1Alloc(x.h, i), i)
ZLoop(h, i, p) ==
    ZLoop1(ZLoop0(Z0(IF h.st[i].run.st = 0 /\ h.st[i].run.bf = 0
                     THEN Do("size", h, h.st[i].orig, 0) ELSE Ret(h, 1), i), i), i, p)

(* If the pointers were dropped, the stream is measured again through the  *)
(* already open runtime and opened anew.  The local variable rng keeps the *)
(* address of the freed runtime: the outcome is only defined if the new    *)
(* runtime got the same memory, which is assumed here.                     *)
ZRemeasured(x, i) ==
    IF x.r < 0 THEN x ELSE ZOpen(x.h, i, 1)
ZFresh(x, i, n) == IF x.r < 0 THEN x ELSE Do("zloop", x.h, i, <<n, 0>>)
ziso_stream_compress(h, i, n) ==
    IF ~IsRun(h.st[i].run) THEN Ret(h, NOT_OPENED)
    ELSE IF h.st[i].run.err < 0 THEN Ret(h, h.st[i].run.err)
    ELSE ZFresh(IF ~h.st[i].dropped THEN Ret(h, 1)
                ELSE ZRemeasured(ziso_stream_measure_size(
                        [h EXCEPT !.st[i].dropped = FALSE], i, TRUE, TRUE), i), i, n)

(* ziso_stream_uncompress, state 0: header and pointers.  x and y are the  *)
(* results of reading the two parts of the header                          *)
U0Pointers(x, i, hd, fill) ==
    LET want == fill * (IF hd.algo = 0 THEN 4 ELSE 8) IN
    IF x.r < 0 THEN Fail(x.h, i, x.r)
    ELSE IF x.r # want \/ Len(hd.pt) < fill THEN Fail(x.h, i, ZISOFS_WRONG_INPUT)
    ELSE Ret([x.h EXCEPT !.st[i].run = [@ EXCEPT !.st = 2, !.bf = 0, !.br = 0]], 1)
U0Sized(h, i, hd, n, fill) ==
    IF n = 0 THEN Ret(h, 0)
    ELSE IF fill > MaxFile THEN Fail(h, i, TOO_LARGE)
    ELSE IF ~PointersFit(h.g, fill) THEN Ret(h, TOO_MANY_PTR)
    ELSE U0Pointers(
           Do("read", [h EXCEPT !.g = Register(@, fill),
                                !.st[i].run = [@ EXCEPT !.fill = fill, !.rp = 0,
                                    !.pt = [k \in 1..fill |-> IF k <= Len(hd.pt)
                                                              THEN hd.pt[k] ELSE 0]]],
              h.st[i].orig, fill * (IF hd.algo = 0 THEN 4 ELSE 8)), i, hd, fill)
U0Head(x, i, hd, n) ==
    IF x.r < 0 THEN Fail(x.h, i, x.r)
    ELSE IF hd = <<>> \/ x.r # (IF hd[1].algo = 0 THEN 16 ELSE 24)
         THEN Fail(x.h, i, ZISOFS_WRONG_INPUT)
    ELSE IF ~HeadValid(hd[1], x.h.g) THEN Fail(x.h, i, ZISOFS_WRONG_INPUT)
    ELSE U0Sized([x.h EXCEPT !.st[i].size = hd[1].us, !.st[i].run.bs = Pow2(hd[1].bl)],
                 i, hd[1], n, NumPointers(hd[1].us, Pow2(hd[1].bl)))
U0(h, i, n) ==
    IF h.st[i].run.st # 0 THEN Ret(h, 1)
    ELSE U0Head(Do("read", h, h.st[i].orig,
                   IF HeadOf(h, h.st[i].orig) = <<>> THEN 8
                   ELSE IF HeadOf(h, h.st[i].orig)[1].algo = 0 THEN 16 ELSE 24),
                i, HeadOf(h, h.st[i].orig), n)

(* state 2: one block; x is the result of reading it, k its number         *)
U2Filled(h, i, k, len) ==
    LET r == h.st[i].run IN
    IF len < r.bs /\ k # r.fill - 1 THEN Fail(h, i, ZISOFS_WRONG_INPUT)
    ELSE IF r.out + len > h.st[i].size THEN Fail(h, i, WRONG_INPUT)
    ELSE Ret([h EXCEPT !.st[i].run.bf = len, !.st[i].run.br = 0], 1)
U2(x, i, k, todo) ==
    LET r == x.h.st[i].run
        rest == Least(r.bs, x.h.st[i].size - r.out)
    IN  IF x.r < 0 THEN Fail(x.h, i, x.r)
        ELSE IF todo = 0
        THEN U2Filled(x.h, i, k, IF k = r.fill - 1 THEN rest ELSE r.bs)
        ELSE IF x.r = 0
        THEN IF r.out # x.h.st[i].size
             THEN Fail([x.h EXCEPT !.st[i].run.st = 3], i, WRONG_INPUT)
             ELSE Ret([x.h EXCEPT !.st[i].run.st = 3], 0)
        ELSE IF x.r < todo THEN Fail(x.h, i, COMPR_ERR)
        ELSE U2Filled(x.h, i, k, rest)
U2Next(h, i) ==         \* rp is already the number of the block
    LET r == h.st[i].run
        todo == r.pt[r.rp + 1] - r.pt[r.rp]
    IN  IF r.rp >= r.fill
        THEN IF r.out = h.st[i].size
             THEN Ret([h EXCEPT !.st[i].run = [@ EXCEPT !.st = 3, !.rp = @ - 1]], 0)
             ELSE Fail(h, i, WRONG_INPUT)
        ELSE U2(IF todo = 0 THEN Ret(h, 1) ELSE Do("read", h, h.st[i].orig, todo), i, r.rp, todo)
ULoop2(x, i, p) ==
    IF x.r < 0 THEN x ELSE IF x.r = 0 THEN Ret(x.h, p[2])
    ELSE Transfer(x.h, i, p, "uloop")
ULoop1(x, i, p) ==
    LET r == x.h.st[i].run IN
    IF x.r <= 0 THEN x
    ELSE IF r.st = 2 /\ r.br >= r.bf
    THEN ULoop2(U2Next([x.h EXCEPT !.st[i].run.rp = @ + 1], i), i, p)
    ELSE IF r.st = 3 /\ r.br >= r.bf THEN Ret(x.h, 0)
    ELSE Transfer(x.h, i, p, "uloop")
ziso_stream_uncompress(h, i, p) ==
    IF ~IsRun(h.st[i].run) THEN Ret(h, NOT_OPENED)
    ELSE IF h.st[i].run.err < 0 THEN Ret(h, h.st[i].run.err)
    ELSE ULoop1(U0(h, i, p[1]), i, p)

-----------------------------------------------------------------------------
(* Ends of life, copies                                                    *)

(* gzip_stream_free and ziso_stream_free: close, count down, release the   *)
(* pointers, give up the input                                             *)
OneLess(n) == IF n > 0 THEN n - 1 ELSE 0
gzip_stream_free(h, i) ==
    IF h.st[i].class = "gzip" THEN [h EXCEPT !.g.gzip = OneLess(@)]
    ELSE [h EXCEPT !.g.gunzip = OneLess(@)]
ziso_stream_free(h, i) ==
    IF h.st[i].class = "osiz" THEN [h EXCEPT !.g.osiz = OneLess(@)]
    ELSE [h EXCEPT !.g = [Release(@, Len(h.st[i].bp)) EXCEPT
                             !.ziso = OneLess(@), !.early = @ /\ h.g.ziso > 1]]
CountDown(h, i) ==
    IF h.st[i].class \in {"gzip", "pizg"} THEN gzip_stream_free(h, i)
    ELSE ziso_stream_free(h, i)
Freed(h, i) == IF h.st[i].orig = 0 THEN Ret([h EXCEPT !.st[i] = FreeStream], 1)
               ELSE Do("unref", [CountDown(h, i) EXCEPT !.st[i] = FreeStream],
                       h.st[i].orig, 0)

(* iso_stream_unref *)
Unref(h, i) ==
    IF h.st[i].ref > 1 THEN Ret([h EXCEPT !.st[i].ref = @ - 1], 1)
    ELSE Freed(IF IsRun(h.st[i].run) THEN Do("close", h, i, 0).h ELSE h, i)

(* iso_stream_clone: fsrc, cut-out and memory streams get a copy with a    *)
(* source object of its own.  Filters clone their input first and forget   *)
(* their block pointers; the filter counters do not notice them.           *)
fsrc_clone_stream(s) == [NewStream("fsrc", 0) EXCEPT !.size = s.size]
cut_out_clone_stream(s) == [NewStream("cout", 0) EXCEPT !.size = s.size, !.off = s.off]
mem_clone_stream(s) == [NewStream("mem", 0) EXCEPT !.size = s.size]
gzip_clone_stream(s, o) == [NewStream(s.class, o) EXCEPT !.size = s.size]
ziso_clone_stream(s, o) ==
    [NewStream(s.class, o) EXCEPT !.size = s.size, !.osize = s.osize,
        !.dropped = s.class = "ziso" /\ (s.bp # <<>> \/ s.dropped)]
CloneOf(s, o) ==
    CASE s.class = "fsrc" -> fsrc_clone_stream(s)
      [] s.class = "cout" -> cut_out_clone_stream(s)
      [] s.class = "mem" -> mem_clone_stream(s)
      [] s.class \in {"gzip", "pizg"} -> gzip_clone_stream(s, o)
      [] OTHER -> ziso_clone_stream(s, o)
Cloned(h, i, o) == Ret([h EXCEPT !.st[NewId(h)] = CloneOf(h.st[i], o)], NewId(h))
Clone(h, i) ==
    IF h.st[i].orig = 0 THEN Cloned(h, i, 0)
    ELSE LET x == Do("clone", h, h.st[i].orig, 0) IN Cloned(x.h, i, x.r)

Do(op, h, i, a) ==
    LET c == h.st[i].class IN
    CASE op = "open"  -> (IF c \in Raw THEN RawOpen(h, i)
                          ELSE IF c \in {"gzip", "pizg"} THEN GzOpen(h, i, a)
                          ELSE ZOpen(h, i, a))
      [] op = "close" -> (IF c \in Raw THEN RawClose(h, i)
                          ELSE IF c \in {"gzip", "pizg"} THEN GzClose(h, i)
                          ELSE ZClose(h, i, FALSE))
      [] op = "read"  -> (IF c \in Raw THEN RawRead(h, i, a)
                          ELSE IF c \in {"gzip", "pizg"} THEN gzip_stream_convert(h, i, a)
                          ELSE IF c = "ziso" THEN ziso_stream_compress(h, i, a)
                          ELSE ziso_stream_uncompress(h, i, <<a, 0>>))
      [] op = "size"  -> (IF c \in Raw THEN Ret(h, h.st[i].size)
                          ELSE IF c \in {"gzip", "pizg"} THEN GzSize(h, i)
                          ELSE ZSize(h, i))
      [] op = "drain" -> DrainNext(Do("read", h, i, 65536), i, a)
      [] op = "zloop" -> ZLoop(h, i, a)
      [] op = "uloop" -> ziso_stream_uncompress(h, i, a)
      [] op = "unref" -> Unref(h, i)
      [] op = "clone" -> Clone(h, i)

-----------------------------------------------------------------------------
(* What the application and the image writer do with the streams           *)

Heap == [st |-> st, g |-> g, src |-> src]
Exists(f) == file[f] # 0
NoSession == [on |-> FALSE, end |-> FALSE, ann |-> 0, got |-> 0, ok |-> TRUE, kept |-> FALSE]
Chain(f) == IF st[file[f]].orig = 0 THEN 1      \* number of streams of the file
            ELSE IF st[st[file[f]].orig].orig = 0 THEN 2 ELSE 3
Become(h) == st' = h.st /\ g' = h.g

Init ==
    /\ st = [i \in Ids |-> IF i = Min(Ids)
                           THEN [NewStream("fsrc", 0) EXCEPT !.size = FirstContent.size]
                           ELSE FreeStream]
    /\ g = [gzip |-> 0, gunzip |-> 0, ziso |-> 0, osiz |-> 0, bpts |-> 0,
            early |-> FALSE, v2 |-> 0, bs |-> 15, bs2 |-> 17, target |-> -1]
    /\ src = FirstContent
    /\ file = [f \in Files |-> IF f = Min(Files) THEN Min(Ids) ELSE 0]
    /\ sess = [f \in Files |-> NoSession]
    /\ chg = 0

(* iso_file_add_filter with the get_filter() method of the class: the      *)
(* filter takes over the reference of the file                             *)
gzip_filter_get_filter(gg, c) ==
    IF c = "gzip" THEN [gg EXCEPT !.gzip = @ + 1] ELSE [gg EXCEPT !.gunzip = @ + 1]
ziso_filter_get_filter(gg, c) ==
    IF c = "osiz" THEN [gg EXCEPT !.osiz = @ + 1] ELSE [gg EXCEPT !.ziso = @ + 1]
CountUp(gg, c) ==
    IF c \in {"gzip", "pizg"} THEN gzip_filter_get_filter(gg, c)
    ELSE ziso_filter_get_filter(gg, c)
Stacked(h, c, i, os) ==
    Ret([h EXCEPT !.st[NewId(h)] = [NewStream(c, i) EXCEPT !.osize = os],
                  !.g = CountUp(@, c)], NewId(h))

(* mutant: the file does not take its own reference to the input *)
UnstackNoRef(h, top) == Ret(Do("unref", h, top, 0).h, h.st[top].orig)

(* iso_file_remove_filter *)
Unstack(h, top) ==
    Ret(Do("unref", [h EXCEPT !.st[h.st[top].orig].ref = @ + 1], top, 0).h, h.st[top].orig)

(* The tail of gzip_add_filter and ziso_add_filter: a filter whose size    *)
(* cannot be determined or which saves nothing is removed                  *)
KeepIfSmaller(x, top, osize, halfblock) ==
    IF x.r < 0 THEN Unstack(x.h, top)
    ELSE IF x.h.st[top].class \in {"gzip", "ziso"} /\
            (x.r >= osize \/ (halfblock /\ x.r \div 2048 >= osize \div 2048))
         THEN Unstack(x.h, top) ELSE Ret(x.h, top)
AddedFilter(y, osize, halfblock) ==     \* y: the stacked filter
    KeepIfSmaller(Do("size", y.h, y.r, 0), y.r, osize, halfblock)

(* gzip_add_filter, ziso_add_filter (flag bits 0 and 1).  A gunzip filter  *)
(* is only put on gzip data: on other data inflate() reports Z_DATA_ERROR, *)
(* which gzip_stream_convert() does not see, and the loop never ends.      *)
AddFilter(f, c, halfblock) ==
    /\ Exists(f) /\ ~sess[f].on /\ Spare(Heap) >= 1
    /\ <<st[file[f]].class, c>> \in Stackings
    /\ c = "pizg" => st[file[f]].class = "gzip"
    /\ \E o \in {Do("size", Heap, file[f], 0)} :    \* iso_file_get_size()
         /\ o.r >= 0
         /\ c = "ziso" => o.r > (IF halfblock THEN 2048 ELSE 0)
                          /\ (o.r < V1Limit \/ g.v2 > 0)
         /\ \E x \in {AddedFilter(Stacked(o.h, c, file[f], IF c = "ziso" THEN o.r ELSE 0),
                                  o.r, halfblock)} :
              /\ Become(x.h) /\ file' = [file EXCEPT ![f] = x.r]
    /\ UNCHANGED <<src, sess, chg>>

(* ziso_add_osiz_filter: the image import knows from the ZF entry what is  *)
(* in the file and needs no measuring                                      *)
AddOsiz(f) ==
    /\ Exists(f) /\ ~sess[f].on /\ Spare(Heap) >= 1 /\ st[file[f]].class = "fsrc"
    /\ src.z # <<>>
    /\ \E x \in {Stacked(Heap, "osiz", file[f], 0)} :
         /\ Become([x.h EXCEPT !.st[x.r].size = src.z[1].us])
         /\ file' = [file EXCEPT ![f] = x.r]
    /\ UNCHANGED <<src, sess, chg>>

RemoveFilter(f) ==
    /\ Exists(f) /\ st[file[f]].orig # 0 /\ ~sess[f].on
    /\ \E x \in {Unstack(Heap, file[f])} :
         /\ Become(x.h) /\ file' = [file EXCEPT ![f] = x.r]
    /\ UNCHANGED <<src, sess, chg>>

Plain == \A f \in Files : ~Exists(f)      \* bound: cut-out and memory files alone

(* iso_cut_out_stream_new on the source of an existing file                *)
CutOut(f, off) ==
    /\ ~Exists(f) /\ Plain /\ src # Gone /\ off <= src.size
    /\ st' = [st EXCEPT ![NewId(Heap)] =
                 [NewStream("cout", 0) EXCEPT !.off = off, !.size = src.size - off]]
    /\ file' = [file EXCEPT ![f] = NewId(Heap)]
    /\ UNCHANGED <<g, src, sess, chg>>

(* iso_memory_stream_new *)
MemFile(f, n) ==
    /\ ~Exists(f) /\ Plain
    /\ st' = [st EXCEPT ![NewId(Heap)] = [NewStream("mem", 0) EXCEPT !.size = n]]
    /\ file' = [file EXCEPT ![f] = NewId(Heap)]
    /\ UNCHANGED <<g, src, sess, chg>>

(* iso_tree_clone() of a file node                                         *)
CloneFile(f, new) ==
    /\ Exists(f) /\ ~Exists(new) /\ Spare(Heap) >= Chain(f)
    /\ \E x \in {Clone(Heap, file[f])} :
         /\ Become(x.h) /\ file' = [file EXCEPT ![new] = x.r]
    /\ sess' = [sess EXCEPT ![new] = NoSession]
    /\ UNCHANGED <<src, chg>>

(* iso_file_free via iso_node_unref *)
FreeFile(f) ==
    /\ Exists(f)
    /\ Become(Unref(Heap, file[f]).h)
    /\ file' = [file EXCEPT ![f] = 0] /\ sess' = [sess EXCEPT ![f] = NoSession]
    /\ UNCHANGED <<src, chg>>

(* The stream still has the block pointers of the measuring that gave its  *)
(* size, which was done with the present block size                        *)
Measured(h, i) ==
    /\ h.st[i].class = "ziso"
    /\ Len(h.st[i].bp) = NumPointers(h.st[i].osize, h.st[i].run.bs)
    /\ h.st[i].bp[Len(h.st[i].bp)] = h.st[i].size

(* filesrc_open, filesrc_read, filesrc_close of the image writer, which    *)
(* handles one file after the other                                        *)
OpenFile(f) ==
    /\ Exists(f) /\ \A e \in Files : ~sess[e].on
    /\ \E x \in {Do("open", Heap, file[f], 0)} :
         /\ Become(x.h)
         /\ sess' = [sess EXCEPT ![f] =
                       IF x.r < 0 THEN NoSession
                       ELSE [NoSession EXCEPT !.on = TRUE, !.ann = x.h.st[file[f]].size,
                                              !.kept = Measured(x.h, file[f])]]
    /\ UNCHANGED <<src, file, chg>>

ReadFile(f, n) ==
    /\ Exists(f) /\ sess[f].on /\ ~sess[f].end /\ sess[f].ok
    /\ \E x \in {Do("read", Heap, file[f], n)} :
         /\ Become(x.h)
         /\ sess' = [sess EXCEPT ![f] =
                       IF x.r < 0 THEN [@ EXCEPT !.ok = FALSE]
                       ELSE IF x.r = 0 THEN [@ EXCEPT !.end = TRUE]
                       ELSE [@ EXCEPT !.got = @ + x.r]]
    /\ UNCHANGED <<src, file, chg>>

CloseFile(f) ==
    /\ Exists(f) /\ sess[f].on
    /\ Become(Do("close", Heap, file[f], 0).h)
    /\ sess' = [sess EXCEPT ![f] = NoSession]
    /\ UNCHANGED <<src, file, chg>>

(* iso_stream_update_size: only fsrc_update_size does something            *)
UpdateSize(f) ==
    /\ Exists(f) /\ st[file[f]].class = "fsrc" /\ src # Gone /\ ~sess[f].on
    /\ st' = [st EXCEPT ![file[f]].size = src.size]
    /\ UNCHANGED <<g, src, file, sess, chg>>

(* iso_zisofs_set_params *)
SetParams(p) ==
    /\ p.bs \in 15..17 /\ p.bs2 \in 15..20 /\ p.v2 \in 0..2
    /\ g.ziso = 0
    /\ g' = [g EXCEPT !.bs = p.bs, !.bs2 = p.bs2, !.v2 = p.v2,
                      !.target = IF p.target = 0 THEN @ ELSE p.target]
    /\ UNCHANGED <<st, src, file, sess, chg>>

(* iso_stream_zisofs_discard_bpt *)
DiscardBpt(f) ==
    /\ Exists(f)
    /\ ziso_discard_bpt(Heap, file[f], TRUE, FALSE).r = 1
    /\ Become(ziso_discard_bpt(Heap, file[f], TRUE, FALSE).h)
    /\ UNCHANGED <<src, file, sess, chg>>

(* Somebody else changes, replaces or removes the source.  (Removal while  *)
(* it is open leaves the data to who has opened it.)                       *)
SourceChanges(c) ==
    /\ chg < SrcChanges /\ c # src
    /\ c = Gone => \A i \in Ids : st[i].pos = Closed
    /\ src' = c /\ chg' = chg + 1
    /\ UNCHANGED <<st, g, file, sess>>

Next ==
    \/ \E f \in Files, c \in Classes \ Raw, b \in BOOLEAN : AddFilter(f, c, b)
    \/ \E f \in Files : AddOsiz(f)
    \/ \E f \in Files : RemoveFilter(f)
    \/ \E f \in Files : CutOut(f, 2048)
    \/ \E f \in Files : MemFile(f, 100)
    \/ \E f, new \in Files : CloneFile(f, new)
    \/ \E f \in Files : FreeFile(f)
    \/ \E f \in Files : OpenFile(f)
    \/ \E f \in Files, n \in ReadSizes : ReadFile(f, n)
    \/ \E f \in Files : CloseFile(f)
    \/ \E f \in Files : UpdateSize(f)
    \/ \E p \in ParamSets : SetParams(p)
    \/ \E f \in Files : DiscardBpt(f)
    \/ \E c \in Contents \cup {Gone} : SourceChanges(c)

Spec == Init /\ [][Next]_vars

-----------------------------------------------------------------------------
Live == {i \in Ids : st[i].class # "free"}

(* Every stream object is owned by exactly as many files and filters as    *)
(* its reference counter says, and none is left over: stacking, removing,  *)
(* cloning and failing half-way neither leaks nor frees too early.         *)
StreamRefsExact ==
    \A i \in Live :
        st[i].ref = Cardinality({f \in Files : file[f] = i})
                    + Cardinality({j \in Live : st[j].orig = i})

(* The global number of block pointers is what the streams really hold: no *)
(* path through measuring, discarding, cloning or failing forgets to       *)
(* release pointers or releases them twice.                                *)
PointersAccounted ==
    g.bpts = MapThenSumSet(LAMBDA i : Len(st[i].bp) +
                                      (IF st[i].class = "osiz" /\ IsRun(st[i].run)
                                       THEN Len(st[i].run.pt) ELSE 0), Live)

(* A zisofs compression that ends without error has delivered exactly the  *)
(* bytes which get_size() announced to the layout, also if the source was  *)
(* changed by others after that, as long as its block pointers were kept.  *)
CompressionAsAnnounced ==
    \A f \in Files :
        sess[f].end /\ sess[f].ok /\ sess[f].kept => sess[f].got = sess[f].ann


\* References to streams and the pool of zisofs block pointers are accounted
\* exactly, through failing stackings too (iso_file_add_filter(),
\* ziso_add_filter(), ziso_stream_free()).
StreamAccounting == StreamRefsExact /\ PointersAccounted
=============================================================================

------------------------------ MODULE StreamCmp ------------------------------
(***************************************************************************)
(* The order of streams by which files with equal content are recognized:  *)
(* iso_stream_cmp_ino() of stream.c with the cmp_ino methods of the filter *)
(* classes and iso_ifs_sections_cmp() of fs_image.c.  Classes with         *)
(* different methods are ranked in the order in which they were first met. *)
(***************************************************************************)
EXTENDS Integers, Sequences

CONSTANT Pool       \* a sequence of streams

VARIABLE ranks      \* streamcmpranks: list of cmp_ino methods, "NULL" included

Classes3 == <<"fsrc", "cout", "mem", "extf", "ziso", "osiz", "gzip", "pizg", "user">>
ClassNo(c) == CHOOSE n \in 1..Len(Classes3) : Classes3[n] = c
cmp_ino(c) == IF c \in {"fsrc", "cout", "mem"} THEN "NULL" ELSE c
Sgn(a, b) == IF a < b THEN -1 ELSE IF a > b THEN 1 ELSE 0
Lex(a, b) == IF a # 0 THEN a ELSE b      \* first comparison that decides

(* iso_get_streamcmprank appends an unknown method *)
Met(rk, m) == IF \E n \in 1..Len(rk) : rk[n] = m THEN rk ELSE Append(rk, m)
RankOf(rk, m) == CHOOSE n \in 1..Len(rk) : rk[n] = m

(* Applicable is a file of the imported image, unless its first section has *)
(* address 0.  Both are compared by their sections, empty files by size.   *)
Applicable(s) == s.ifs /\ ~(s.sec # <<>> /\ s.sec[1][1] = 0)
CmpSections(a, b) ==
    LET d == {n \in 1..Len(a.sec) : a.sec[n] # b.sec[n]}
        n == CHOOSE k \in d : \A m \in d : k <= m
    IN  IF Len(a.sec) # Len(b.sec) THEN Sgn(Len(a.sec), Len(b.sec))
        ELSE IF Len(a.sec) = 0 THEN 0
        ELSE IF a.sec[1][2] < 1 \/ b.sec[1][2] < 1 THEN Sgn(a.sec[1][2], b.sec[1][2])
        ELSE IF d = {} THEN 0
        ELSE Lex(Sgn(a.sec[n][1], b.sec[n][1]), Sgn(a.sec[n][2], b.sec[n][2]))

(* mutant: without flag bit0 there is no decision between an applicable    *)
(* source and another one                                                  *)
iso_ifs_sections_cmp_loose(a, b) ==
    IF Applicable(a) /\ Applicable(b) THEN <<CmpSections(a, b)>> ELSE <<>>

(* iso_ifs_sections_cmp with flag bit0: <<>> if it does not decide         *)
iso_ifs_sections_cmp(a, b) ==
    IF ~Applicable(a) /\ ~Applicable(b) THEN <<>>
    ELSE IF ~Applicable(b) THEN <<-1>>
    ELSE IF ~Applicable(a) THEN <<1>>
    ELSE <<CmpSections(a, b)>>

(* file system id ascending, device descending, inode, size, class; streams *)
(* without any id by their address                                         *)
CmpIds(i, j) ==
    LET a == Pool[i]
        b == Pool[j]
        byid == Lex(Sgn(a.fs, b.fs), Lex(Sgn(b.dev, a.dev),
                    Lex(Sgn(a.ino, b.ino), Lex(Sgn(a.size, b.size),
                        Sgn(ClassNo(a.class), ClassNo(b.class))))))
    IN  IF byid # 0 THEN byid
        ELSE IF a.fs = 0 /\ a.dev = 0 /\ a.ino = 0 THEN Sgn(i, j) ELSE 0

(* iso_stream_cmp_ino, and the cmp_ino methods: an external filter compares *)
(* its command first, every filter then the input streams.  Returns the    *)
(* result and the list of ranks.                                           *)
RECURSIVE iso_stream_cmp_ino(_, _, _)
iso_stream_cmp_ino(i, j, rk) ==
    LET a == Pool[i]
        b == Pool[j]
        ma == cmp_ino(a.class)
        mb == cmp_ino(b.class)
        sec == IF a.class # "fsrc" /\ b.class # "fsrc" THEN <<>>
               ELSE iso_ifs_sections_cmp(a, b)
        met == Met(Met(rk, ma), mb)
    IN  IF i = j THEN [r |-> 0, rk |-> rk]
        ELSE IF sec # <<>> THEN [r |-> sec[1], rk |-> rk]
        ELSE IF (a.version >= 3) # (b.version >= 3)
             THEN [r |-> IF a.version >= 3 THEN -1 ELSE 1, rk |-> rk]
        ELSE IF a.version >= 3 /\ ma # mb
             THEN [r |-> Sgn(RankOf(met, ma), RankOf(met, mb)), rk |-> met]
        ELSE IF a.version >= 3 /\ ma # "NULL"
             THEN IF a.cmd # b.cmd THEN [r |-> Sgn(a.cmd, b.cmd), rk |-> rk]
                  ELSE iso_stream_cmp_ino(a.input, b.input, rk)
        ELSE [r |-> CmpIds(i, j), rk |-> rk]

CInit == ranks = <<>>
Compare(i, j) == ranks' = iso_stream_cmp_ino(i, j, ranks).rk
CNext == \E i, j \in 1..Len(Pool) : Compare(i, j)

-----------------------------------------------------------------------------
Result(i, j) == iso_stream_cmp_ino(i, j, ranks)

(* At any time the comparison of the streams whose classes have been met   *)
(* is a total order: the red-black tree which finds files with the same    *)
(* content can rely on it, in whatever sequence classes were met.          *)
CmpTotalOrder ==
    ranks # <<>> =>
    \E M \in {[p \in (1..Len(Pool)) \X (1..Len(Pool)) |-> Result(p[1], p[2])]} :
    \A i, j \in 1..Len(Pool) : M[i, j].rk = ranks =>
        /\ M[j, i].r = -M[i, j].r
        /\ \A k \in 1..Len(Pool) : M[j, k].rk = ranks /\ M[i, k].rk = ranks =>
             (M[i, j].r <= 0 /\ M[j, k].r <= 0 => M[i, k].r <= 0)
=============================================================================

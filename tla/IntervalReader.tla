--------------------------- MODULE IntervalReader ---------------------------
(* The interval reader and iso_write_partition_file() of ecma119.c, which   *)
(* copy a byte interval of a local file or of the imported image into the   *)
(* new one.  A byte is represented by its address in the source plus one,   *)
(* 0 is a zeroized or missing byte; a block has Block bytes.                *)
EXTENDS Integers, Sequences, SequencesExt, FiniteSets, FiniteSetsExt

CONSTANTS Block,             \* BLOCK_SIZE, 2048 in the code
          SourceLen,         \* bytes of the source
          ZeroKinds,         \* sets of zeroizers: numbers 0 to 3 by z_type
          Mbr, Gpt, Apm      \* bytes which zero_mbrpt, zero_gpt, zero_apm find at the source's start

\* The MBR partition table lies in the first block.
ASSUME IvrAssumption == Block \in Nat \ {0} /\ SourceLen \in Nat /\ Mbr \subseteq 0..(Block - 1)

VARIABLES ivr,               \* struct iso_interval_reader and what iso_write_partition_file() knows
          out                \* blocks written so far
ivars == <<ivr, out>>

Zeroes(n) == [i \in 1..n |-> 0]
SourceAt(a, n) == [i \in 1..n |-> a + i]
NoReader == [st |-> "none", kind |-> "local", s |-> 0, e |-> 0, z |-> {}, init |-> FALSE, cur |-> 0,
             fd |-> 0, open |-> FALSE, pend |-> <<>>, count |-> 0, eof |-> FALSE, todo |-> 0,
             msblock |-> 0, found |-> {}, short |-> FALSE]

IvrInit == ivr = NoReader /\ out = <<>>

\* iso_ivr_parse() accepts any interval; `src' tells whether there is an
\* imported image to read from.
iso_interval_reader_new(kind, s, e, z, src, ms) ==
  /\ ivr.st = "none"
  /\ ivr' = [NoReader EXCEPT !.st = IF kind = "imported" /\ ~src THEN "failed" ELSE "new",
               !.kind = kind, !.s = s, !.e = e, !.z = z, !.msblock = ms,
               !.todo = (e - s + 1 + Block - 1) \div Block]
  /\ UNCHANGED out

\* A partition of the imported image stays where it is if the new session
\* begins after it; it is an error if it would be overwritten.
iso_interval_reader_keep ==
  /\ ivr.st = "new"
  /\ ivr' = [ivr EXCEPT !.st = IF ivr.kind # "imported" \/ ivr.msblock = 0 THEN "read"
                               ELSE IF ivr.msblock <= ivr.e \div Block THEN "failed" ELSE "kept"]
  /\ UNCHANGED out

----------------------------------------------------------------------------
\* What a zeroizer blanks: type 0 a given interval (here: the second byte),
\* type 1 in the first buffer only, types 2 and 3 an interval which was
\* recognized in the first buffer and is then valid for all of them.
Interval == {1}
iso_ivr_zeroize(r, buf, fill) ==
  LET first == r.count = 0
      found == r.found \union (IF first THEN r.z \intersect {2, 3} ELSE {})
      blank == (IF 0 \in r.z THEN Interval ELSE {})
               \union (IF 1 \in r.z /\ first /\ r.s = 0 THEN Mbr ELSE {})
               \union (IF 2 \in found /\ r.s = 0 THEN Gpt ELSE {})
               \union (IF 3 \in found /\ r.s = 0 THEN Apm ELSE {})
  IN [found |-> found,
      buf |-> [i \in 1..Block |-> IF i <= fill /\ r.count + i - 1 \in blank THEN 0 ELSE buf[i]]]

\* Bytes that read() delivers for one block: short reads make the later ones
\* replace the earlier ones, as the buffer address is not advanced.
LocalRead(fd, n, cut) ==
  LET a == Max({0, Min({n, SourceLen - fd})})
      k == IF cut > 0 /\ cut < a THEN cut ELSE a IN
  [n |-> a, eof |-> a < n,
   buf |-> [i \in 1..Block |-> IF k < a /\ i <= a - k THEN fd + k + i
                               ELSE IF i <= k THEN fd + i ELSE 0]]
\* After a failed read_block() the buffer counts as filled with what it had.
Stale == IF out = <<>> THEN Zeroes(Block) ELSE Last(out)
\* One pass through the read part: number of bytes, buffer, file position.
Fetch(r, cut) ==
  IF r.cur * Block > r.e THEN [n |-> 0, eof |-> FALSE, fd |-> r.fd, buf |-> Zeroes(Block)]
  ELSE IF r.kind = "imported"
  THEN [n |-> Block, eof |-> r.cur * Block >= SourceLen, fd |-> r.fd,
        buf |-> IF r.cur * Block >= SourceLen THEN Stale ELSE SourceAt(r.cur * Block, Block)]
  ELSE LET x == LocalRead(r.fd, Max({0, Min({Block, r.e - r.s + 1 - r.count})}), cut) IN
       [n |-> x.n, eof |-> x.eof, fd |-> r.fd + x.n, buf |-> x.buf]

Aligned(r) == r.s % Block = 0
\* Filling of the caller's buffer: [fill, buf, pend].
Fill(r, f) ==
  LET k == Len(r.pend)
      c == Min({f.n, Block - k})
      all == r.pend \o SubSeq(f.buf, 1, c) IN
  IF Aligned(r) THEN [fill |-> f.n, buf |-> f.buf, pend |-> r.pend]
  ELSE [fill |-> k + c, buf |-> all \o Zeroes(Block - k - c), pend |-> SubSeq(f.buf, c + 1, f.n)]

\* Start of the interval: open and position; if it is not at the start of a
\* block, fetch that block first and keep its end as pending bytes.  The
\* block number is not advanced by that.
Opened(r, f) ==
  LET x == [r EXCEPT !.init = TRUE, !.open = TRUE] IN
  IF Aligned(r) THEN x
  ELSE [x EXCEPT !.fd = f.fd, !.eof = f.eof, !.pend = SubSeq(f.buf, (r.s % Block) + 1, Block)]
First_noSeek(r, cut) == [r EXCEPT !.short = cut > 0, !.cur = r.s \div Block]
First(r, cut) == [r EXCEPT !.short = cut > 0, !.cur = r.s \div Block, !.fd = (r.s \div Block) * Block]

Deliver(r, g, f) ==
  LET over == r.s + r.count + g.fill - 1 > r.e
      fill == IF over THEN r.e - r.s + 1 - r.count ELSE g.fill
      z    == iso_ivr_zeroize(r, [i \in 1..Block |-> IF i <= fill THEN g.buf[i] ELSE 0], fill)
  IN /\ ivr' = [r EXCEPT !.pend = g.pend, !.fd = f.fd, !.eof = @ \/ f.eof \/ over,
                         !.count = @ + fill, !.found = z.found, !.todo = @ - 1]
     /\ out' = Append(out, z.buf)

\* A block after the end of input is zero; an open() may fail.
iso_interval_reader_read(cut) ==
  /\ ivr.st = "read" /\ ivr.todo > 0
  /\ cut > 0 => ivr.kind = "local" /\ ~ivr.eof
  /\ IF ivr.eof THEN ivr' = [ivr EXCEPT !.todo = @ - 1] /\ out' = Append(out, Zeroes(Block))
     ELSE IF ivr.init
     THEN \E r \in {[ivr EXCEPT !.cur = @ + 1, !.short = @ \/ cut > 0]} : \E f \in {Fetch(r, cut)} : Deliver(r, Fill(r, f), f)
     ELSE \E r0 \in {First(ivr, cut)} : \E r \in {Opened(r0, Fetch(r0, cut))} :
          \E f \in {Fetch(r, cut)} : Deliver(r, Fill(r, f), f)
IvrOpenFails == /\ ivr.st = "read" /\ ~ivr.init /\ ivr.todo > 0
                /\ ivr' = [ivr EXCEPT !.st = "failed", !.eof = TRUE]
                /\ UNCHANGED out
iso_interval_reader_destroy == /\ ivr.st = "read" /\ ivr.todo = 0
                               /\ ivr' = [ivr EXCEPT !.st = "done", !.open = FALSE]
                               /\ UNCHANGED out

IvrNext == \/ \E kind \in {"local", "imported"}, s \in 0..(SourceLen - 1), n \in 1..SourceLen,
                 z \in ZeroKinds, src \in BOOLEAN, ms \in {0, 2, 20} :
                iso_interval_reader_new(kind, s, s + n - 1, z, src, ms)
           \/ iso_interval_reader_keep
           \/ \E cut \in {0, 1} : iso_interval_reader_read(cut)
           \/ IvrOpenFails \/ iso_interval_reader_destroy
IvrSpec == IvrInit /\ [][IvrNext]_ivars

\* Addresses in the partition which the zeroizers of r blank.
Blanked(r) == (IF 0 \in r.z THEN Interval ELSE {})
              \union (IF r.s > 0 THEN {} ELSE (IF 1 \in r.z THEN Mbr ELSE {})
                        \union (IF 2 \in r.z THEN Gpt ELSE {}) \union (IF 3 \in r.z THEN Apm ELSE {}))
Expected(r, k) == IF r.s + k > Min({r.e + 1, SourceLen}) \/ k - 1 \in Blanked(r) THEN 0 ELSE r.s + k

\* For which intervals the reader works.  If the interval does not begin at a
\* block, then it must have at least a block, because the pending bytes of the
\* first one are not limited by its end; the first block of an imported image
\* would be fetched twice; and with pending bytes, the end of the file ends the
\* reading although the pending ones are still to be delivered.
Readable(r) ==
  \/ Aligned(r) /\ (r.kind = "imported" => r.e < SourceLen)
  \/ /\ r.kind = "local" /\ r.e - r.s + 1 >= Block
     /\ r.e < SourceLen /\ r.e < (SourceLen \div Block) * Block + (r.s % Block)

\* A copied partition has exactly the bytes of its interval, blanked where
\* the zeroizers demand and padded with zeros, although the pieces come with
\* pending bytes from an earlier call and with the end of file anywhere.  Short
\* counts of read() are excluded, as iso_interval_reader_read() does not
\* advance its buffer address.
IntervalCopied ==
  ivr.st = "done" /\ ~ivr.short /\ Readable(ivr)
  => \A b \in 1..Len(out), i \in 1..Block : out[b][i] = Expected(ivr, (b - 1) * Block + i)
=============================================================================

----------------------------- MODULE ReaderProofs -----------------------------
(***************************************************************************)
(* Proofs about the ways on which bytes get passed on. The ring buffer     *)
(* passes the image from the generator thread to the consumer: for every   *)
(* size of the fifo, every image size and every size of the calls. The     *)
(* external filter and the interval reader stand between a source and the  *)
(* image: for any length of the input, any capacity of the pipes, any      *)
(* sequence of read sizes and any filter program that hoards its input;    *)
(* for any size of blocks and source, any interval and any zeroizers. The  *)
(* reader of the boot catalog gets back from the image what eltorito.c has *)
(* written: for any number of boot images and any sequence of calls that   *)
(* made the catalog.                                                       *)
(***************************************************************************)
EXTENDS RingBuffer, ExtFilter, IntervalReader, ElTorito, SequenceTheorems, FiniteSetTheorems,
        WellFoundedInduction, TLAPS

-----------------------------------------------------------------------------
(* The ring buffer.                                                        *)

LEMMA CapPositive == Cap \in Nat \ {0}
<1>1. \A m, n \in Nat \ {0} : m * n \in Nat \ {0}
  OBVIOUS
<1> QED  BY <1>1, SizeAssumption DEF Cap

\* A position advances by at most Cap, so the modulo wraps at most once.
SlotAt(k) == IF k < Cap THEN k ELSE k - Cap

LEMMA Wrap ==
  ASSUME NEW k \in 0 .. 2 * Cap - 1
  PROVE  k % Cap = SlotAt(k)
  BY CapPositive DEF SlotAt

\* RingContent without the modulo.
Content ==
  /\ wpos = SlotAt(rpos + size)
  /\ sent = Len(delivered) + size
  /\ \A i \in 0 .. size - 1 : buf[SlotAt(rpos + i)] = Len(delivered) + i + 1

LEMMA ContentIsRingContent == TypeOK => (RingContent <=> Content)
<1> SUFFICES ASSUME TypeOK PROVE RingContent <=> Content
  OBVIOUS
<1>1. /\ Cap \in Nat \ {0}
      /\ rpos \in 0 .. Cap - 1 /\ size \in 0 .. Cap
  BY CapPositive DEF TypeOK, Slots
<1>2. (rpos + size) % Cap = SlotAt(rpos + size)
  BY <1>1, Wrap
<1>3. \A i \in 0 .. size - 1 : (rpos + i) % Cap = SlotAt(rpos + i)
  BY <1>1, Wrap
<1> QED  BY <1>2, <1>3 DEF RingContent, Content

\* What the lengths computed by the two copy loops are bounded by.
LEMMA WriteLenBounds ==
  ASSUME TypeOK, wpc = "run", size # Cap
  PROVE  /\ WriteLen \in 1 .. wleft
         /\ size + WriteLen =< Cap
         /\ wpos + WriteLen =< Cap
  BY CapPositive DEF TypeOK, Slots, WriteLen, Min2

LEMMA ReadLenBounds ==
  ASSUME TypeOK, rpc = "run", size # 0
  PROVE  /\ ReadLen \in 1 .. rleft
         /\ ReadLen =< size
         /\ rpos + ReadLen =< Cap
  BY CapPositive DEF TypeOK, Slots, ReadLen, Min2

-----------------------------------------------------------------------------
(* Type correctness.                                                       *)

LEMMA TypeInit == Init => TypeOK
  BY CapPositive DEF Init, TypeOK, Slots

LEMMA TypeStep == TypeOK /\ [Next]_vars => TypeOK'
<1> SUFFICES ASSUME TypeOK, [Next]_vars PROVE TypeOK'
  OBVIOUS
<1> USE CapPositive
<1>1. CASE WriteCopy
  <2>1. /\ WriteLen \in 1 .. wleft
        /\ size + WriteLen =< Cap
        /\ wpos + WriteLen =< Cap
    BY <1>1, WriteLenBounds DEF WriteCopy
  <2>2. wpos' = SlotAt(wpos + WriteLen)
    <3>1. wpos + WriteLen \in 0 .. 2 * Cap - 1
      BY <2>1 DEF TypeOK, Slots
    <3>2. wpos' = (wpos + WriteLen) % Cap
      BY <1>1 DEF WriteCopy
    <3> QED  BY <3>1, <3>2, Wrap
  <2>3. wpos' \in Slots
    BY <2>1, <2>2 DEF SlotAt, TypeOK, Slots
  <2>4. buf' \in [Slots -> Nat]
    BY <1>1, <2>1 DEF WriteCopy, TypeOK, Slots
  <2> QED  BY <1>1, <2>1, <2>3, <2>4 DEF WriteCopy, SignalEmpty, TypeOK
<1>2. CASE ReadCopy
  <2>1. /\ ReadLen \in 1 .. rleft
        /\ ReadLen =< size
        /\ rpos + ReadLen =< Cap
    BY <1>2, ReadLenBounds DEF ReadCopy
  <2>2. rpos' = SlotAt(rpos + ReadLen)
    BY <1>2, <2>1, Wrap DEF ReadCopy, TypeOK, Slots
  <2>3. rpos' \in Slots
    BY <2>1, <2>2 DEF SlotAt, TypeOK, Slots
  <2>4. [i \in 1 .. ReadLen |-> buf[rpos + i - 1]] \in Seq(Nat)
    <3>1. \A i \in 1 .. ReadLen : buf[rpos + i - 1] \in Nat
      BY <2>1 DEF TypeOK, Slots
    <3> QED  BY <2>1, <3>1 DEF TypeOK
  <2>5. delivered' \in Seq(Nat)
    BY <1>2, <2>4 DEF ReadCopy, TypeOK
  <2> QED  BY <1>2, <2>1, <2>3, <2>5 DEF ReadCopy, SignalFull, TypeOK
<1>3. ASSUME NEW count \in WriteCounts, WriteCall(count) PROVE TypeOK'
  BY <1>3, CountAssumption DEF WriteCall, TypeOK, ring, reader
<1>4. ASSUME NEW count \in ReadCounts, ReadCall(count) PROVE TypeOK'
  BY <1>4, CountAssumption DEF ReadCall, TypeOK, ring, writer
<1>5. CASE WriteAbandoned
  BY <1>5 DEF WriteAbandoned, TypeOK, ring, reader
<1>6. CASE WriteWait
  BY <1>6 DEF WriteWait, TypeOK, ring, reader
<1>7. CASE \E error \in BOOLEAN : WriterClose(error)
  BY <1>7 DEF WriterClose, SignalEmpty, TypeOK, ring, writer
<1>8. CASE ReadEOF
  BY <1>8 DEF ReadEOF, TypeOK, ring, writer
<1>9. CASE ReadWait
  BY <1>9 DEF ReadWait, TypeOK, ring, writer
<1>10. CASE \E error \in BOOLEAN : ReaderClose(error)
  BY <1>10 DEF ReaderClose, SignalFull, TypeOK, ring, reader
<1>11. CASE SpuriousWakeup
  BY <1>11 DEF SpuriousWakeup, TypeOK, ring
<1>12. CASE UNCHANGED vars
  BY <1>12 DEF vars, ring, writer, reader, TypeOK
<1> QED
  BY <1>1, <1>2, <1>3, <1>4, <1>5, <1>6, <1>7, <1>8, <1>9, <1>10, <1>11,
     <1>12 DEF Next, WriterStep, ReaderStep

\* The fill level, the positions and the call counters of buffer.c stay in
\* their ranges: no memcpy() beyond the buffer, no underflow of size.
THEOREM TypeCorrect == Spec => []TypeOK
  BY TypeInit, TypeStep, PTL DEF Spec

-----------------------------------------------------------------------------
(* The inductive invariant, one lemma per conjunct.                        *)

LEMMA WakeupStep == TypeOK /\ NoLostWakeup /\ [Next]_vars => NoLostWakeup'
<1> SUFFICES ASSUME TypeOK, NoLostWakeup, [Next]_vars PROVE NoLostWakeup'
  OBVIOUS
<1> USE CapPositive DEF NoLostWakeup
<1>1. CASE WriteCopy
  BY <1>1 DEF WriteCopy, SignalEmpty
<1>2. CASE ReadCopy
  BY <1>2 DEF ReadCopy, SignalFull
<1>3. ASSUME NEW count \in WriteCounts, WriteCall(count) PROVE NoLostWakeup'
  BY <1>3 DEF WriteCall, ring, reader
<1>4. ASSUME NEW count \in ReadCounts, ReadCall(count) PROVE NoLostWakeup'
  BY <1>4 DEF ReadCall, ring, writer
<1>5. CASE WriteAbandoned \/ WriteWait
  BY <1>5 DEF WriteAbandoned, WriteWait, ring, reader
<1>6. CASE \E error \in BOOLEAN : WriterClose(error)
  BY <1>6 DEF WriterClose, SignalEmpty, ring, writer
<1>7. CASE ReadEOF \/ ReadWait
  BY <1>7 DEF ReadEOF, ReadWait, ring, writer
<1>8. CASE \E error \in BOOLEAN : ReaderClose(error)
  BY <1>8 DEF ReaderClose, SignalFull, ring, reader
<1>9. CASE SpuriousWakeup
  BY <1>9 DEF SpuriousWakeup, ring
<1>10. CASE UNCHANGED vars
  BY <1>10 DEF vars, ring, writer, reader
<1> QED
  BY <1>1, <1>2, <1>3, <1>4, <1>5, <1>6, <1>7, <1>8, <1>9, <1>10
     DEF Next, WriterStep, ReaderStep

LEMMA ProtocolStep == TypeOK /\ WriterProtocol /\ [Next]_vars => WriterProtocol'
<1> SUFFICES ASSUME TypeOK, WriterProtocol, [Next]_vars PROVE WriterProtocol'
  OBVIOUS
<1> USE SizeAssumption DEF WriterProtocol
<1>1. CASE WriteCopy
  <2>1. WriteLen \in 1 .. wleft
    BY <1>1, WriteLenBounds DEF WriteCopy
  <2> QED  BY <1>1, <2>1 DEF WriteCopy, TypeOK
<1>2. CASE ReadCopy
  BY <1>2 DEF ReadCopy, SignalFull, TypeOK
<1>3. ASSUME NEW count \in WriteCounts, WriteCall(count) PROVE WriterProtocol'
  BY <1>3, CountAssumption DEF WriteCall, TypeOK
<1>4. ASSUME NEW count \in ReadCounts, ReadCall(count) PROVE WriterProtocol'
  BY <1>4 DEF ReadCall, writer
<1>5. CASE WriteAbandoned \/ WriteWait
  BY <1>5 DEF WriteAbandoned, WriteWait, TypeOK
<1>6. CASE \E error \in BOOLEAN : WriterClose(error)
  BY <1>6 DEF WriterClose, writer, TypeOK
<1>7. CASE ReadEOF \/ ReadWait
  BY <1>7 DEF ReadEOF, ReadWait, writer
<1>8. CASE \E error \in BOOLEAN : ReaderClose(error)
  BY <1>8 DEF ReaderClose, SignalFull, TypeOK
<1>9. CASE SpuriousWakeup
  BY <1>9 DEF SpuriousWakeup, TypeOK
<1>10. CASE UNCHANGED vars
  BY <1>10 DEF vars, writer
<1> QED
  BY <1>1, <1>2, <1>3, <1>4, <1>5, <1>6, <1>7, <1>8, <1>9, <1>10
     DEF Next, WriterStep, ReaderStep

LEMMA EofStep ==
  TypeOK /\ WriterProtocol /\ EofSound /\ [Next]_vars => EofSound'
<1> SUFFICES ASSUME TypeOK, WriterProtocol, EofSound, [Next]_vars
             PROVE  EofSound'
  OBVIOUS
<1> USE DEF EofSound, WriterProtocol
<1>1. CASE WriteCopy
  BY <1>1 DEF WriteCopy
<1>2. CASE ReadCopy
  BY <1>2 DEF ReadCopy
<1>3. CASE \E error \in BOOLEAN : WriterClose(error)
  BY <1>3 DEF WriterClose, ring
<1>4. CASE ReadEOF
  BY <1>4 DEF ReadEOF, ring
<1>5. CASE UNCHANGED <<ring, wend, eof>>
  BY <1>5 DEF ring
<1> QED
  BY <1>1, <1>2, <1>3, <1>4, <1>5
     DEF Next, WriterStep, ReaderStep, WriteCall, ReadCall, WriteAbandoned,
         WriteWait, ReadWait, ReaderClose, SpuriousWakeup, vars, reader

\* The copy into the ring: the n bytes land behind the ones in store.
LEMMA ContentWrite == TypeOK /\ Content /\ WriteCopy => Content'
<1> SUFFICES ASSUME TypeOK, Content, WriteCopy PROVE Content'
  OBVIOUS
<1> DEFINE n == WriteLen
<1>1. /\ n \in 1 .. wleft /\ n \in Nat
      /\ size + n =< Cap /\ wpos + n =< Cap
  BY WriteLenBounds DEF WriteCopy, TypeOK
<1>2. /\ Cap \in Nat \ {0}
      /\ size \in 0 .. Cap /\ rpos \in 0 .. Cap - 1 /\ wpos \in 0 .. Cap - 1
      /\ sent \in Nat /\ Len(delivered) \in Nat
  BY CapPositive DEF TypeOK, Slots
<1>3. /\ size' = size + n /\ rpos' = rpos /\ delivered' = delivered
      /\ sent' = sent + n
  BY DEF WriteCopy
<1>4. wpos' = SlotAt(wpos + n)
  BY <1>1, <1>2, Wrap DEF WriteCopy
<1> HIDE DEF n
<1>5. wpos' = SlotAt(rpos + size + n)
  BY <1>1, <1>2, <1>4 DEF Content, SlotAt
<1>6. ASSUME NEW i \in 0 .. size + n - 1
      PROVE  buf'[SlotAt(rpos + i)] = Len(delivered) + i + 1
  <2>1. SlotAt(rpos + i) \in Slots
    BY <1>1, <1>2 DEF SlotAt, Slots
  <2>2. buf'[SlotAt(rpos + i)] =
          IF wpos =< SlotAt(rpos + i) /\ SlotAt(rpos + i) < wpos + n
          THEN sent + (SlotAt(rpos + i) - wpos) + 1 ELSE buf[SlotAt(rpos + i)]
    BY <2>1 DEF WriteCopy, n
  <2>3. CASE i < size
    <3>1. ~(wpos =< SlotAt(rpos + i) /\ SlotAt(rpos + i) < wpos + n)
      BY <1>1, <1>2, <2>3 DEF SlotAt, Content
    <3>2. buf[SlotAt(rpos + i)] = Len(delivered) + i + 1
      <4>1. i \in 0 .. size - 1
        BY <1>1, <1>2, <2>3
      <4> QED  BY <4>1 DEF Content
    <3> QED  BY <2>2, <3>1, <3>2
  <2>4. CASE i >= size
    <3>1. SlotAt(rpos + i) = wpos + (i - size)
      BY <1>1, <1>2, <2>4 DEF SlotAt, Content
    <3>2. sent + (SlotAt(rpos + i) - wpos) + 1 = Len(delivered) + i + 1
      BY <1>2, <3>1 DEF Content
    <3> QED  BY <1>1, <1>2, <2>2, <2>4, <3>1, <3>2
  <2> QED  BY <1>1, <1>2, <2>3, <2>4
<1> QED
  <2>1. sent' = Len(delivered') + size'
    BY <1>1, <1>2, <1>3 DEF Content, n
  <2>2. wpos' = SlotAt(rpos' + size')
    BY <1>1, <1>2, <1>3, <1>5 DEF n
  <2>3. \A i \in 0 .. size' - 1 : buf'[SlotAt(rpos' + i)] = Len(delivered') + i + 1
    <3>1. \A i \in 0 .. size + n - 1 :
            buf'[SlotAt(rpos + i)] = Len(delivered) + i + 1
      BY <1>6
    <3> SUFFICES ASSUME NEW i \in 0 .. size' - 1
                 PROVE  buf'[SlotAt(rpos' + i)] = Len(delivered') + i + 1
      OBVIOUS
    <3>2. i \in 0 .. size + n - 1
      BY <1>1, <1>2, <1>3
    <3>3. SlotAt(rpos' + i) = SlotAt(rpos + i) /\ Len(delivered') = Len(delivered)
      BY <1>3
    <3> QED  BY <3>1, <3>2, <3>3
  <2> QED  BY <2>1, <2>2, <2>3 DEF Content, SlotAt

\* The copy out of the ring: the n oldest bytes are appended to the stream.
LEMMA ContentRead ==
  TypeOK /\ Content /\ StreamInOrder /\ ReadCopy => Content' /\ StreamInOrder'
<1> SUFFICES ASSUME TypeOK, Content, StreamInOrder, ReadCopy
             PROVE  Content' /\ StreamInOrder'
  OBVIOUS
<1> DEFINE n == ReadLen
           chunk == [i \in 1 .. n |-> buf[rpos + i - 1]]
<1>1. /\ n \in 1 .. rleft /\ n \in Nat
      /\ n =< size /\ rpos + n =< Cap
  BY ReadLenBounds DEF ReadCopy, TypeOK
<1>2. /\ Cap \in Nat \ {0}
      /\ size \in 0 .. Cap /\ rpos \in 0 .. Cap - 1 /\ wpos \in 0 .. Cap - 1
      /\ sent \in Nat /\ Len(delivered) \in Nat /\ delivered \in Seq(Nat)
  BY CapPositive DEF TypeOK, Slots
<1>3. /\ size' = size - n /\ wpos' = wpos /\ buf' = buf /\ sent' = sent
      /\ delivered' = delivered \o chunk
  BY DEF ReadCopy
<1>4. rpos' = SlotAt(rpos + n)
  BY <1>1, <1>2, Wrap DEF ReadCopy
<1>5. \A i \in 1 .. n : buf[rpos + i - 1] = Len(delivered) + i
  <2> SUFFICES ASSUME NEW i \in 1 .. n
               PROVE  buf[rpos + i - 1] = Len(delivered) + i
    OBVIOUS
  <2>1. i - 1 \in 0 .. size - 1 /\ SlotAt(rpos + (i - 1)) = rpos + i - 1
    BY <1>1, <1>2 DEF SlotAt
  <2>2. buf[SlotAt(rpos + (i - 1))] = Len(delivered) + (i - 1) + 1
    BY <2>1 DEF Content
  <2> QED  BY <1>2, <2>1, <2>2
<1>6. chunk \in Seq(Nat) /\ Len(chunk) = n
  <2>1. \A i \in 1 .. n : buf[rpos + i - 1] \in Nat
    BY <1>2, <1>5
  <2> QED  BY <1>1, <2>1
<1>7. \A i \in 1 .. n : chunk[i] = Len(delivered) + i
  BY <1>5
<1> HIDE DEF n, chunk
<1>8. Len(delivered') = Len(delivered) + n
  <2>1. Len(delivered \o chunk) = Len(delivered) + Len(chunk)
    BY <1>2, <1>6
  <2> QED  BY <1>3, <1>6, <2>1
<1>9. StreamInOrder'
  <2> SUFFICES ASSUME NEW i \in 1 .. Len(delivered) + n
               PROVE  (delivered \o chunk)[i] = i
    BY <1>3, <1>8 DEF StreamInOrder
  <2>1. CASE i =< Len(delivered)
    BY <1>2, <1>6, <2>1 DEF StreamInOrder
  <2>2. CASE i > Len(delivered)
    <3>1. i - Len(delivered) \in 1 .. n
      BY <1>1, <1>2, <2>2
    <3>2. (delivered \o chunk)[i] = chunk[i - Len(delivered)]
      BY <1>2, <1>6, <2>2
    <3> QED  BY <1>2, <1>7, <3>1, <3>2
  <2>3. i =< Len(delivered) \/ i > Len(delivered)
    BY <1>1, <1>2
  <2> QED  BY <2>1, <2>2, <2>3
<1>10. Content'
  <2>1. sent' = Len(delivered') + size'
    BY <1>1, <1>2, <1>3, <1>8 DEF Content
  <2>2. wpos' = SlotAt(rpos' + size')
    BY <1>1, <1>2, <1>3, <1>4 DEF Content, SlotAt
  <2>3. ASSUME NEW i \in 0 .. size - n - 1
        PROVE  buf'[SlotAt(rpos' + i)] = Len(delivered') + i + 1
    <3>1. SlotAt(rpos' + i) = SlotAt(rpos + (n + i)) /\ n + i \in 0 .. size - 1
      BY <1>1, <1>2, <1>4 DEF SlotAt
    <3>2. buf[SlotAt(rpos + (n + i))] = Len(delivered) + (n + i) + 1
      BY <3>1 DEF Content
    <3> QED  BY <1>1, <1>2, <1>3, <1>8, <3>1, <3>2
  <2> QED  BY <1>3, <2>1, <2>2, <2>3 DEF Content, SlotAt
<1> QED  BY <1>9, <1>10

LEMMA ContentStep ==
  TypeOK /\ Content /\ StreamInOrder /\ [Next]_vars => Content' /\ StreamInOrder'
<1> SUFFICES ASSUME TypeOK, Content, StreamInOrder, [Next]_vars
             PROVE  Content' /\ StreamInOrder'
  OBVIOUS
<1>1. CASE WriteCopy
  BY <1>1, ContentWrite DEF WriteCopy, StreamInOrder
<1>2. CASE ReadCopy
  BY <1>2, ContentRead
<1>3. CASE UNCHANGED <<ring, sent, delivered>>
  BY <1>3 DEF ring, Content, SlotAt, StreamInOrder
<1> QED
  BY <1>1, <1>2, <1>3
     DEF Next, WriterStep, ReaderStep, WriteCall, ReadCall, WriteAbandoned,
         WriteWait, ReadWait, ReadEOF, WriterClose, ReaderClose,
         SpuriousWakeup, vars, reader, writer

\* The inductive invariant: in every reachable state the ring holds exactly
\* the bytes under way, no sleeping thread has missed its signal, and EOF is
\* told only at the end of the writer.
THEOREM Invariant == Spec => []IndInv
<1>1. Init => IndInv
  <2> SUFFICES ASSUME Init PROVE IndInv
    OBVIOUS
  <2>1. TypeOK
    BY TypeInit
  <2>2. Content
    BY CapPositive DEF Init, Content, SlotAt
  <2> QED
    BY <2>1, <2>2, CapPositive, SizeAssumption, ContentIsRingContent
       DEF Init, IndInv, NoLostWakeup, WriterProtocol, StreamInOrder, EofSound
<1>2. IndInv /\ [Next]_vars => IndInv'
  <2> SUFFICES ASSUME IndInv, [Next]_vars PROVE IndInv'
    OBVIOUS
  <2>1. Content /\ TypeOK'
    BY ContentIsRingContent, TypeStep DEF IndInv
  <2>2. RingContent' /\ StreamInOrder'
    <3>1. Content' /\ StreamInOrder'
      BY <2>1, ContentStep DEF IndInv
    <3>2. TypeOK' => (RingContent' <=> Content')
      BY ContentIsRingContent, PTL
    <3> QED  BY <2>1, <3>1, <3>2
  <2> QED
    BY <2>1, <2>2, WakeupStep, ProtocolStep, EofStep DEF IndInv
<1> QED  BY <1>1, <1>2, PTL DEF Spec

\* No thread sleeps in pthread_cond_wait() past the event it waits for.
THEOREM WakeupsAreNotLost == Spec => []NoLostWakeup
  BY Invariant, PTL DEF IndInv

\* The burn program gets the bytes of the image in the order in which the
\* generator wrote them.
THEOREM DeliveryInOrder == Spec => []StreamInOrder
  BY Invariant, PTL DEF IndInv

\* EOF without error status means that the image is complete.
THEOREM EofOnlyWhenComplete == Spec => []EofMeansComplete
<1>1. IndInv => EofMeansComplete
  BY CapPositive
     DEF IndInv, TypeOK, EofMeansComplete, EofSound, WriterProtocol, RingContent
<1> QED  BY <1>1, Invariant, PTL

-----------------------------------------------------------------------------
(* The ring buffer implements the abstract channel.                        *)

Transit == [i \in 1 .. size |-> buf[(rpos + i - 1) % Cap]]

TransitInOrder ==
  Transit = [i \in 1 .. size |-> Len(delivered) + i] /\ Len(Transit) = size

DeliveredInOrder == delivered = [i \in 1 .. Len(delivered) |-> i]

\* The bytes under way are those after the delivered ones.
LEMMA StreamOfChannel ==
  TypeOK /\ RingContent /\ StreamInOrder => TransitInOrder /\ DeliveredInOrder
<1> SUFFICES ASSUME TypeOK, RingContent, StreamInOrder
             PROVE  TransitInOrder /\ DeliveredInOrder
  OBVIOUS
<1>1. /\ Cap \in Nat \ {0} /\ size \in Nat /\ Len(delivered) \in Nat
      /\ rpos \in Nat
  BY CapPositive DEF TypeOK, Slots
<1>2. ASSUME NEW i \in 1 .. size
      PROVE  buf[(rpos + i - 1) % Cap] = Len(delivered) + i
  <2>1. i - 1 \in 0 .. size - 1
    BY <1>1
  <2>2. rpos + (i - 1) = rpos + i - 1 /\ Len(delivered) + (i - 1) + 1 = Len(delivered) + i
    BY <1>1, <2>1
  <2> QED  BY <2>1, <2>2 DEF RingContent
<1>3. Transit = [i \in 1 .. size |-> Len(delivered) + i]
  BY <1>2 DEF Transit
<1> QED  BY <1>1, <1>3 DEF TransitInOrder, DeliveredInOrder, TypeOK, StreamInOrder

\* Each step of the ring buffer is a step of the channel or changes nothing there.
LEMMA ChannelStep ==
  IndInv /\ IndInv' /\ [Next]_vars => [Channel!Next]_(Channel!cvars)
<1> SUFFICES ASSUME IndInv, IndInv', [Next]_vars
             PROVE  [Channel!Next]_(Channel!cvars)
  OBVIOUS
<1>0. TypeOK /\ TypeOK' /\ RingContent /\ RingContent' /\ WriterProtocol /\ WriterProtocol'
      /\ StreamInOrder /\ StreamInOrder'
  BY DEF IndInv
<1>1. /\ Transit = [i \in 1 .. size |-> Len(delivered) + i] /\ Len(Transit) = size
      /\ Transit' = [i \in 1 .. size' |-> Len(delivered') + i]
      /\ delivered' = [i \in 1 .. Len(delivered') |-> i]
  <2>1. TransitInOrder /\ TransitInOrder' /\ DeliveredInOrder'
    BY <1>0, StreamOfChannel, PTL
  <2> QED  BY <2>1 DEF TransitInOrder, DeliveredInOrder
<1>2. /\ Cap \in Nat \ {0} /\ size \in 0 .. Cap /\ size' \in 0 .. Cap
      /\ sent = Len(delivered) + size /\ sent' = Len(delivered') + size'
      /\ Len(delivered) \in Nat /\ Len(delivered') \in Nat
      /\ ImageSize \in Nat
  <2>1. Cap \in Nat \ {0} /\ ImageSize \in Nat
    BY CapPositive, SizeAssumption
  <2>2. size \in 0 .. Cap /\ size' \in 0 .. Cap
    BY <1>0 DEF TypeOK
  <2>3. Len(delivered) \in Nat /\ Len(delivered') \in Nat
    BY <1>0 DEF TypeOK
  <2>4. sent = Len(delivered) + size /\ sent' = Len(delivered') + size'
    BY <1>0 DEF RingContent
  <2> QED  BY <2>1, <2>2, <2>3, <2>4
<1>3. ASSUME WriteCopy PROVE Channel!Next
  <2> DEFINE n == WriteLen
  <2>0. n \in 1 .. wleft /\ size + n =< Cap
    BY <1>0, <1>3, WriteLenBounds DEF WriteCopy
  <2>1. n \in 1 .. Cap /\ size' = size + n /\ delivered' = delivered
    BY <1>0, <1>2, <1>3, <2>0 DEF WriteCopy, TypeOK
  <2>2. wend = 0 /\ UNCHANGED <<wend, rend>>
    BY <1>0, <1>3 DEF WriterProtocol, WriteCopy
  <2>3. sent' =< ImageSize
    <3>1. sent' \in Nat /\ wleft' \in Nat
      BY <1>0 DEF TypeOK
    <3> QED  BY <1>0, <1>2, <3>1 DEF WriterProtocol
  <2> HIDE DEF n
  <2> PICK k \in 1 .. Cap : k = n
    BY <2>1
  <2>4. Channel!Send(k)
    BY <1>1, <1>2, <2>1, <2>2, <2>3 DEF Channel!Send, Transit
  <2> QED  BY <2>4 DEF Channel!Next
<1>4. ASSUME ReadCopy PROVE Channel!Next
  <2> DEFINE n == ReadLen
  <2>0. n \in 1 .. rleft /\ n =< size
    BY <1>0, <1>4, ReadLenBounds DEF ReadCopy
  <2>1. n \in 1 .. Cap /\ n =< size /\ size' = size - n /\ sent' = sent
    BY <1>0, <1>2, <1>4, <2>0 DEF ReadCopy, TypeOK
  <2>2. UNCHANGED <<wend, rend>>
    BY <1>4 DEF ReadCopy
  <2> HIDE DEF n
  <2>3. Len(delivered') = Len(delivered) + n
    BY <1>2, <2>1
  <2> PICK k \in 1 .. Cap : k = n
    BY <2>1
  <2>4. Channel!Receive(k)
    BY <1>1, <1>2, <2>1, <2>2, <2>3 DEF Channel!Receive, Transit
  <2> QED  BY <2>4 DEF Channel!Next
<1>5. ASSUME NEW error \in BOOLEAN, WriterClose(error)
      PROVE  Channel!Next
  <2>1. wend' \in 1 .. 2 /\ UNCHANGED <<ring, sent, delivered, rend>>
    BY <1>5 DEF WriterClose, writer
  <2>2. wend' = 1 => wend # 2 /\ sent = ImageSize
    BY <1>5 DEF WriterClose
  <2>3. Channel!CloseSend(wend')
    BY <1>1, <1>2, <2>1, <2>2 DEF Channel!CloseSend, Transit, ring
  <2> QED  BY <2>1, <2>3 DEF Channel!Next
<1>6. ASSUME NEW error \in BOOLEAN, ReaderClose(error)
      PROVE  Channel!Next
  <2>1. rend' \in 1 .. 2 /\ rend = 0 /\ UNCHANGED <<ring, delivered, wend>>
    BY <1>6 DEF ReaderClose, reader
  <2>2. Channel!CloseReceive(rend')
    BY <2>1 DEF Channel!CloseReceive, ring
  <2> QED  BY <2>1, <2>2 DEF Channel!Next
<1>7. CASE UNCHANGED <<ring, delivered, wend, rend>>
  BY <1>7 DEF Channel!cvars, ring
<1> QED
  BY <1>3, <1>4, <1>5, <1>6, <1>7
     DEF Next, WriterStep, ReaderStep, WriteCall, ReadCall, WriteAbandoned,
         WriteWait, ReadWait, ReadEOF, SpuriousWakeup, vars, reader, writer

\* The fifo is a byte channel of the capacity of the ring: what enters leaves in
\* the same order, and both ends close as the channel allows
\* (iso_ring_buffer_write(), iso_ring_buffer_read() and the two close functions).
THEOREM RingImplementsChannel == Spec => ImplementsChannel
<1>1. Init => Channel!Init
  <2> SUFFICES ASSUME Init PROVE Channel!Init
    OBVIOUS
  <2>1. size = 0 /\ delivered = <<>> /\ wend = 0 /\ rend = 0
    BY DEF Init
  <2>2. [i \in 1 .. size |-> buf[(rpos + i - 1) % Cap]] = <<>>
    BY <2>1
  <2> QED  BY <2>1, <2>2 DEF Channel!Init
<1> QED
  BY <1>1, ChannelStep, Invariant, PTL DEF Spec, ImplementsChannel, Channel!Spec

-----------------------------------------------------------------------------
(* The external filter.                                                    *)

XSafety == XInit /\ [][XNext]_xvars

Runtimes == [send : BOOLEAN, recv : BOOLEAN, nb : BOOLEAN, in_eof : BOOLEAN,
             out_eof : BOOLEAN, pbuf : {0, 1}, blocking : BOOLEAN, want : Nat,
             fill : Nat, got : Nat, ret : Int]

Inputs == [open : BOOLEAN, left : Nat, bad : BOOLEAN]
Kids == [st : {"none", "run", "zombie", "dead", "reaped"}, took : Nat,
         gave : Nat, hoard : Nat]

Typed ==
  /\ xpc \in {"closed", "idle", "top", "recv", "feed", "write"}
  /\ xr \in Runtimes
  /\ xin \in Inputs
  /\ down \in Nat /\ up \in Nat
  /\ kid \in Kids

\* Every load of the input is in the stream, in pipebuf, in the pipe or was
\* taken by the child.
LoadsDown == xin.left + xr.pbuf + down + kid.took = InLen

\* Every load of the child's output is in the pipe or was delivered, by this
\* or by earlier read() calls.
LoadsUp == IF xpc = "idle" THEN up + xr.got = kid.gave
                           ELSE up + xr.got + xr.fill = kid.gave

\* The library shuts the child's input only when all of it was written, and
\* the child exits only when it has answered all of it.
Answered ==
  /\ ~xr.send => xin.left = 0 /\ xr.pbuf = 0
  /\ kid.st = "zombie" => ~xr.send /\ down = 0 /\ kid.gave = kid.took

\* End of file means that nothing is left in the pipe.
Drained == xr.out_eof => up = 0 /\ kid.st # "run"

XInv ==
  /\ Typed
  /\ xpc = "closed" => kid.st \in {"none", "reaped"}
  /\ xpc # "closed" =>
       /\ LoadsDown /\ Answered
       /\ xr.ret >= 0 => LoadsUp /\ Drained
       /\ xpc # "idle" => xr.ret >= 0 /\ ~xr.out_eof /\ xr.fill < xr.want
       /\ xpc = "write" => xr.pbuf = 1 /\ ~xr.in_eof
       /\ ~xr.in_eof => xr.send

LEMMA XInvInit == XInit => XInv
  BY ExtFilterAssumption DEF XInit, XInv, Typed, Runtimes, Inputs, Kids, NoRuntime, NoKid

LEMMA XInvStep == XInv /\ [XNext]_xvars => XInv'
<1> SUFFICES ASSUME XInv, [XNext]_xvars PROVE XInv'
  OBVIOUS
<1> USE ExtFilterAssumption
<1>0. PICK r \in Runtimes, x \in Inputs, k \in Kids : r = xr /\ x = xin /\ k = kid
  BY DEF XInv, Typed
<1>a. PICK r1, x1, k1 : r1 = xr' /\ x1 = xin' /\ k1 = kid'
  OBVIOUS
<1>1. ASSUME NEW h \in Hoards, extf_stream_open_flag(h) PROVE XInv'
  <2>1. /\ r1 = [NoRuntime EXCEPT !.send = TRUE, !.recv = TRUE, !.nb = TRUE]
        /\ k1 = [NoKid EXCEPT !.st = "run", !.hoard = h]
        /\ x1 = [x EXCEPT !.open = TRUE, !.left = InLen]
    BY <1>0, <1>a, <1>1 DEF extf_stream_open_flag
  <2>a. /\ r1 = [send |-> TRUE, recv |-> TRUE, nb |-> TRUE, in_eof |-> FALSE,
                out_eof |-> FALSE, pbuf |-> 0, blocking |-> FALSE, want |-> 0,
                fill |-> 0, got |-> 0, ret |-> 0]
        /\ k1 = [st |-> "run", took |-> 0, gave |-> 0, hoard |-> h]
    BY <2>1 DEF NoRuntime, NoKid
  <2>b. h \in Nat /\ InLen \in Nat
    OBVIOUS
  <2>2. r1 \in Runtimes /\ x1 \in Inputs /\ k1 \in Kids /\ r1.send /\ ~r1.in_eof
        /\ r1.pbuf = 0 /\ r1.got = 0 /\ r1.ret = 0 /\ ~r1.out_eof /\ k1.st = "run"
        /\ k1.took = 0 /\ k1.gave = 0 /\ x1.left = InLen
    <3>1. r1 \in Runtimes
      BY <2>a DEF Runtimes
    <3>2. k1 \in Kids
      BY <2>a, <2>b DEF Kids
    <3>3. x1 \in Inputs /\ x1.left = InLen
      BY <2>1, <2>b DEF Inputs
    <3> QED  BY <2>a, <3>1, <3>2, <3>3
  <2> QED  BY <1>0, <1>a, <1>1, <2>1, <2>2 DEF extf_stream_open_flag, XInv, Typed, LoadsDown, LoadsUp, Answered, Drained
<1>2. CASE OpenFails
  <2>1. r1 = NoRuntime /\ k1 = [NoKid EXCEPT !.st = "reaped"] /\ x1 = [x EXCEPT !.bad = TRUE]
    BY <1>0, <1>a, <1>2 DEF OpenFails
  <2>a. /\ r1 = [send |-> FALSE, recv |-> FALSE, nb |-> FALSE, in_eof |-> FALSE,
                out_eof |-> FALSE, pbuf |-> 0, blocking |-> FALSE, want |-> 0,
                fill |-> 0, got |-> 0, ret |-> 0]
        /\ k1 = [st |-> "reaped", took |-> 0, gave |-> 0, hoard |-> 0]
    BY <2>1 DEF NoRuntime, NoKid
  <2>2. r1 \in Runtimes /\ x1 \in Inputs /\ k1 \in Kids /\ k1.st = "reaped"
    <3>1. r1 \in Runtimes
      BY <2>a DEF Runtimes
    <3>2. k1 \in Kids
      BY <2>a DEF Kids
    <3>3. x1 \in Inputs
      BY <2>1 DEF Inputs
    <3> QED  BY <2>a, <3>1, <3>2, <3>3
  <2> QED  BY <1>0, <1>a, <1>2, <2>1, <2>2 DEF OpenFails, XInv, Typed, LoadsDown, LoadsUp, Answered, Drained
<1>3. ASSUME NEW n \in Wants, ReadBegin(n) PROVE XInv'
  <2>1. /\ r1 = IF r.out_eof THEN [r EXCEPT !.ret = 0, !.fill = 0]
                ELSE [r EXCEPT !.want = n, !.fill = 0, !.blocking = FALSE]
        /\ x1 = x /\ k1 = k
    BY <1>0, <1>a, <1>3 DEF ReadBegin
  <2>a. n \in Nat \ {0}
    OBVIOUS
  <2>b. r.out_eof \in BOOLEAN
    BY DEF Runtimes
  <2>2. /\ r1 \in Runtimes /\ r1.fill = 0 /\ r1.send = r.send /\ r1.in_eof = r.in_eof
        /\ r1.out_eof = r.out_eof /\ r1.pbuf = r.pbuf /\ r1.got = r.got
        /\ (r.out_eof => r1.ret = 0) /\ (~r.out_eof => r1.ret = r.ret /\ r1.want = n)
    <3>1. CASE r.out_eof
      <4>1. r1 = [r EXCEPT !.ret = 0, !.fill = 0]
        BY <2>1, <3>1
      <4>2. PICK z \in Nat : z = 0
        OBVIOUS
      <4>3. z \in Int
        BY <4>2
      <4>4. r1 = [r EXCEPT !.ret = z, !.fill = z]
        BY <4>1, <4>2
      <4>5. r1 \in Runtimes
        BY <4>3, <4>4 DEF Runtimes
      <4> QED  BY <3>1, <4>2, <4>4, <4>5 DEF Runtimes
    <3>2. CASE ~r.out_eof
      <4>1. r1 = [r EXCEPT !.want = n, !.fill = 0, !.blocking = FALSE]
        BY <2>1, <3>2
      <4> QED  BY <2>a, <3>2, <4>1 DEF Runtimes
    <3> QED  BY <3>1, <3>2
  <2>c. xpc = "idle" /\ r.ret >= 0 /\ UNCHANGED <<down, up>>
        /\ xpc' = IF r.out_eof THEN "idle" ELSE "top"
    BY <1>0, <1>3 DEF ReadBegin
  <2>3. CASE r.out_eof
    BY <1>0, <1>a, <2>1, <2>2, <2>3, <2>c DEF XInv, Typed, LoadsDown, LoadsUp, Answered, Drained
  <2>4. CASE ~r.out_eof
    <3>1. r1.ret >= 0 /\ r1.fill < r1.want /\ up + r1.got + r1.fill = up + r.got
      BY <1>0, <2>a, <2>2, <2>4, <2>c DEF XInv, Typed, Runtimes
    <3> QED
      BY <1>0, <1>a, <2>1, <2>2, <2>4, <2>c, <3>1 DEF XInv, Typed, LoadsDown, LoadsUp, Answered, Drained
  <2> QED  BY <2>3, <2>4
<1>4. CASE LoopTop
  <2>1. /\ r1 = IF r.in_eof /\ ~r.blocking
                THEN [r EXCEPT !.nb = FALSE, !.blocking = TRUE] ELSE r
        /\ x1 = x /\ k1 = k
    BY <1>0, <1>a, <1>4 DEF LoopTop
  <2>2. /\ r1 \in Runtimes /\ r1.fill = r.fill /\ r1.send = r.send /\ r1.in_eof = r.in_eof
        /\ r1.out_eof = r.out_eof /\ r1.pbuf = r.pbuf /\ r1.got = r.got
        /\ r1.ret = r.ret /\ r1.want = r.want
    BY <1>0, <2>1, <1>4 DEF LoopTop, Runtimes, Inputs, Kids
  <2> QED  BY <1>0, <1>a, <1>4, <2>1, <2>2 DEF LoopTop, XInv, Typed, LoadsDown, LoadsUp, Answered, Drained
<1>5. CASE Recv
  <2>1. x1 = x /\ k1 = k /\ down' = down /\ xpc = "recv"
    BY <1>0, <1>a, <1>5 DEF Recv
  <2>2. ASSUME NEW n \in Nat, n = (IF up < r.want - r.fill THEN up ELSE r.want - r.fill),
               up > 0, up' = up - n, Filled(r.fill + n)
        PROVE  XInv'
    <3>1. CASE r.fill + n >= r.want
      <4>1. r1 = [r EXCEPT !.ret = r.fill + n, !.got = @ + (r.fill + n)] /\ xpc' = "idle"
        BY <1>0, <1>a, <2>2, <3>1 DEF Filled, Returned
      <4>a. r.fill + n \in Nat
        BY <2>2 DEF Runtimes
      <4>2. /\ r1 \in Runtimes /\ r1.ret = r.fill + n /\ r1.got = r.got + r.fill + n
            /\ r1.send = r.send /\ r1.in_eof = r.in_eof /\ r1.out_eof = r.out_eof
            /\ r1.pbuf = r.pbuf
        <5>1. PICK m \in Nat : m = r.fill + n
          BY <4>a
        <5>2. r1 = [r EXCEPT !.ret = m, !.got = r.got + m]
          BY <4>1, <5>1
        <5>3. r1 \in Runtimes /\ r1.ret = m /\ r1.got = r.got + m
              /\ r1.send = r.send /\ r1.in_eof = r.in_eof /\ r1.out_eof = r.out_eof
              /\ r1.pbuf = r.pbuf
          <6>1. m \in Int /\ r.got + m \in Nat
            BY <5>1, <4>a DEF Runtimes
          <6> QED  BY <5>2, <6>1 DEF Runtimes
        <5>4. r.got + m = r.got + r.fill + n
          BY <5>1, <2>2 DEF Runtimes
        <5> QED  BY <5>1, <5>3, <5>4
      <4> QED
        BY <1>0, <1>a, <2>1, <2>2, <4>1, <4>2 DEF XInv, Typed, LoadsDown, LoadsUp, Answered, Drained, Runtimes
    <3>2. CASE ~(r.fill + n >= r.want)
      <4>1. r1 = [r EXCEPT !.fill = r.fill + n] /\ xpc' = "recv"
        BY <1>0, <1>a, <2>2, <3>2 DEF Filled
      <4>a. r.fill + n \in Nat
        BY <2>2 DEF Runtimes
      <4>2. /\ r1 \in Runtimes /\ r1.ret = r.ret /\ r1.got = r.got /\ r1.fill = r.fill + n
            /\ r1.send = r.send /\ r1.in_eof = r.in_eof /\ r1.out_eof = r.out_eof
            /\ r1.pbuf = r.pbuf /\ r1.want = r.want
        BY <4>1, <4>a DEF Runtimes
      <4> QED
        BY <1>0, <1>a, <2>1, <2>2, <3>2, <4>1, <4>2 DEF XInv, Typed, LoadsDown, LoadsUp, Answered, Drained, Runtimes
    <3> QED  BY <3>1, <3>2
  <2>3. CASE up > 0 /\ \E n \in {IF up < r.want - r.fill THEN up ELSE r.want - r.fill} :
                         up' = up - n /\ Filled(r.fill + n)
    <3>1. r.fill < r.want /\ r.fill \in Nat /\ r.want \in Nat /\ up \in Nat
      BY <1>0, <2>1 DEF XInv, Typed, Runtimes
    <3>2. (IF up < r.want - r.fill THEN up ELSE r.want - r.fill) \in Nat
      BY <3>1
    <3> QED  BY <2>2, <2>3, <3>2
  <2>4. CASE up = 0 /\ k.st # "run" /\ xpc' = "idle" /\ up' = up
             /\ xr' = [Returned(r.fill) EXCEPT !.out_eof = TRUE]
    <3>1. r1 = [r EXCEPT !.ret = r.fill, !.got = @ + r.fill, !.out_eof = TRUE]
      BY <1>0, <1>a, <2>4 DEF Returned
    <3>a. PICK m \in Nat : m = r.fill
      BY DEF Runtimes
    <3>b. r1 = [r EXCEPT !.ret = m, !.got = r.got + m, !.out_eof = TRUE]
      BY <3>1, <3>a
    <3>2. /\ r1 \in Runtimes /\ r1.ret = r.fill /\ r1.got = r.got + r.fill
          /\ r1.send = r.send /\ r1.in_eof = r.in_eof /\ r1.pbuf = r.pbuf
      <4>1. m \in Int /\ r.got + m \in Nat
        BY <3>a DEF Runtimes
      <4> QED  BY <3>a, <3>b, <4>1 DEF Runtimes
    <3> QED
      BY <1>0, <1>a, <2>1, <2>4, <3>2 DEF XInv, Typed, LoadsDown, LoadsUp, Answered, Drained, Runtimes
  <2>5. CASE xpc' = "feed" /\ UNCHANGED <<xr, up>>
    BY <1>0, <1>a, <2>1, <2>5 DEF XInv, Typed, LoadsDown, LoadsUp, Answered, Drained
  <2> QED  BY <1>0, <1>5, <2>3, <2>4, <2>5 DEF Recv
<1>6. CASE Feed
  <2>1. CASE r.pbuf > 0 /\ xpc' = "write" /\ UNCHANGED <<xr, xin>>
    <3>1. r.pbuf \in {0, 1}
      BY DEF Runtimes
    <3> QED
      BY <1>0, <1>a, <1>6, <2>1, <3>1 DEF Feed, XInv, Typed, LoadsDown, LoadsUp, Answered, Drained
  <2>2. CASE /\ r.pbuf = 0 /\ x.left > 0
             /\ xr' = [r EXCEPT !.pbuf = 1] /\ xpc' = "write"
             /\ xin' = [x EXCEPT !.left = @ - 1]
    <3>1. /\ r1 \in Runtimes /\ r1.pbuf = 1 /\ r1.ret = r.ret /\ r1.got = r.got
          /\ r1.fill = r.fill /\ r1.send = r.send /\ r1.in_eof = r.in_eof
          /\ r1.out_eof = r.out_eof /\ r1.want = r.want
          /\ x1 \in Inputs /\ x1.left = x.left - 1
      BY <1>a, <2>2 DEF Runtimes, Inputs
    <3> QED
      BY <1>0, <1>a, <1>6, <2>2, <3>1 DEF Feed, XInv, Typed, LoadsDown, LoadsUp, Answered,
         Drained, Inputs
  <2>3. CASE /\ r.pbuf = 0 /\ x.left = 0
             /\ xr' = [r EXCEPT !.in_eof = TRUE, !.send = FALSE]
             /\ xpc' = "top" /\ UNCHANGED xin
    <3>1. /\ r1 \in Runtimes /\ r1.pbuf = r.pbuf /\ r1.ret = r.ret /\ r1.got = r.got
          /\ r1.fill = r.fill /\ ~r1.send /\ r1.in_eof
          /\ r1.out_eof = r.out_eof /\ r1.want = r.want
      BY <1>a, <2>3 DEF Runtimes
    <3> QED
      BY <1>0, <1>a, <1>6, <2>3, <3>1 DEF Feed, XInv, Typed, LoadsDown, LoadsUp, Answered, Drained
  <2> QED  BY <1>0, <1>6, <2>1, <2>2, <2>3 DEF Feed
<1>7. CASE FeedFails
  <2>1. r1 = [r EXCEPT !.in_eof = TRUE, !.ret = -1] /\ x1 = x /\ k1 = k
    BY <1>0, <1>a, <1>7 DEF FeedFails
  <2>2. r1 \in Runtimes /\ r1.in_eof /\ r1.ret = -1 /\ r1.send = r.send /\ r1.pbuf = r.pbuf
    <3>1. PICK m \in Int : m = -1
      OBVIOUS
    <3> QED  BY <2>1, <3>1 DEF Runtimes
  <2> QED  BY <1>0, <1>a, <1>7, <2>1, <2>2 DEF FeedFails, XInv, Typed, LoadsDown, LoadsUp, Answered, Drained
<1>8. CASE Write
  <2>1. xpc = "write" /\ x1 = x /\ k1 = k /\ up' = up
    BY <1>0, <1>a, <1>8 DEF Write
  <2>2. CASE down' = down + 1 /\ xr' = [r EXCEPT !.pbuf = 0] /\ xpc' = "top"
    <3>1. /\ r1 \in Runtimes /\ r1.pbuf = 0 /\ r1.ret = r.ret /\ r1.got = r.got
          /\ r1.fill = r.fill /\ r1.send = r.send /\ r1.in_eof = r.in_eof
          /\ r1.out_eof = r.out_eof /\ r1.want = r.want
      BY <1>a, <2>2 DEF Runtimes
    <3> QED
      BY <1>0, <1>a, <2>1, <2>2, <3>1 DEF XInv, Typed, LoadsDown, LoadsUp, Answered, Drained, Kids, Inputs
  <2>3. CASE xpc' = "top" /\ UNCHANGED <<down, xr>>
    BY <1>0, <1>a, <2>1, <2>3 DEF XInv, Typed, LoadsDown, LoadsUp, Answered, Drained
  <2>4. CASE /\ xr' = [r EXCEPT !.in_eof = TRUE, !.ret = -1]
             /\ xpc' = "idle" /\ UNCHANGED down
    <3>1. /\ r1 \in Runtimes /\ r1.in_eof /\ r1.ret = -1 /\ r1.send = r.send
          /\ r1.pbuf = r.pbuf
      <4>1. PICK m \in Int : m = -1
        OBVIOUS
      <4>2. r1 = [r EXCEPT !.in_eof = TRUE, !.ret = m]
        BY <1>a, <2>4, <4>1
      <4> QED  BY <4>1, <4>2 DEF Runtimes
    <3> QED
      BY <1>0, <1>a, <2>1, <2>4, <3>1 DEF XInv, Typed, LoadsDown, LoadsUp, Answered, Drained
  <2> QED  BY <1>0, <1>8, <2>2, <2>3, <2>4 DEF Write
<1>9. CASE extf_stream_close
  <2>1. r1 = NoRuntime /\ x1 = [x EXCEPT !.open = FALSE] /\ k1 = [k EXCEPT !.st = "reaped"]
    BY <1>0, <1>a, <1>9 DEF extf_stream_close
  <2>a. r1 = [send |-> FALSE, recv |-> FALSE, nb |-> FALSE, in_eof |-> FALSE,
                out_eof |-> FALSE, pbuf |-> 0, blocking |-> FALSE, want |-> 0,
                fill |-> 0, got |-> 0, ret |-> 0]
    BY <2>1 DEF NoRuntime
  <2>2. r1 \in Runtimes /\ x1 \in Inputs /\ k1 \in Kids /\ k1.st = "reaped"
    <3>1. r1 \in Runtimes
      BY <2>a DEF Runtimes
    <3>2. k1 \in Kids /\ k1.st = "reaped"
      BY <2>1 DEF Kids
    <3>3. x1 \in Inputs
      BY <2>1 DEF Inputs
    <3> QED  BY <3>1, <3>2, <3>3
  <2> QED  BY <1>0, <1>a, <1>9, <2>1, <2>2 DEF extf_stream_close, XInv, Typed, LoadsDown, LoadsUp, Answered, Drained
<1>10. CASE KidTakes
  <2>1. k1 = [k EXCEPT !.took = @ + 1] /\ r1 = r /\ x1 = x
    BY <1>0, <1>a, <1>10 DEF KidTakes
  <2>2. k1 \in Kids /\ k1.st = k.st /\ k1.took = k.took + 1 /\ k1.gave = k.gave
    BY <1>0, <2>1, <1>10 DEF KidTakes, Runtimes, Inputs, Kids
  <2> QED  BY <1>0, <1>a, <1>10, <2>1, <2>2 DEF KidTakes, XInv, Typed, LoadsDown, LoadsUp,
      Answered, Drained, Kids, Inputs, Runtimes
<1>11. CASE KidGives
  <2>1. k1 = [k EXCEPT !.gave = @ + 1] /\ r1 = r /\ x1 = x
    BY <1>0, <1>a, <1>11 DEF KidGives
  <2>2. k1 \in Kids /\ k1.st = k.st /\ k1.took = k.took /\ k1.gave = k.gave + 1
    BY <1>0, <2>1, <1>11 DEF KidGives, Runtimes, Inputs, Kids
  <2> QED  BY <1>0, <1>a, <1>11, <2>1, <2>2 DEF KidGives, XInv, Typed, LoadsDown, LoadsUp,
      Answered, Drained, Kids, Inputs, Runtimes
<1>12. CASE KidExits
  <2>1. k1 = [k EXCEPT !.st = "zombie"] /\ r1 = r /\ x1 = x
    BY <1>0, <1>a, <1>12 DEF KidExits
  <2>2. k1 \in Kids /\ k1.st = "zombie" /\ k1.took = k.took /\ k1.gave = k.gave
    BY <1>0, <2>1, <1>12 DEF KidExits, Runtimes, Inputs, Kids
  <2> QED  BY <1>0, <1>a, <1>12, <2>1, <2>2 DEF KidExits, XInv, Typed, LoadsDown, LoadsUp, Answered, Drained
<1>13. CASE KidDies
  <2>1. k1 = [k EXCEPT !.st = "dead"] /\ r1 = r /\ x1 = x
    BY <1>0, <1>a, <1>13 DEF KidDies
  <2>2. k1 \in Kids /\ k1.st = "dead" /\ k1.took = k.took /\ k1.gave = k.gave
    BY <1>0, <2>1, <1>13 DEF KidDies, Runtimes, Inputs, Kids
  <2> QED  BY <1>0, <1>a, <1>13, <2>1, <2>2 DEF KidDies, XInv, Typed, LoadsDown, LoadsUp, Answered, Drained
<1>14. CASE UNCHANGED xvars
  BY <1>14 DEF xvars, XInv, Typed, LoadsDown, LoadsUp, Answered, Drained
<1> QED
  BY <1>1, <1>2, <1>3, <1>4, <1>5, <1>6, <1>7, <1>8, <1>9, <1>10, <1>11, <1>12, <1>13, <1>14 DEF XNext

\* extf_stream_read() delivers the answer to every load of the input before it
\* reports end of file after a regular exit of the filter program.
THEOREM FilterComplete == XSafety => []FilterOutputComplete
<1>1. XInv => FilterOutputComplete
  BY ExtFilterAssumption DEF XInv, Typed, Inputs, Runtimes, Kids, LoadsDown, LoadsUp, Answered, Drained, FilterOutputComplete
<1> QED  BY <1>1, XInvInit, XInvStep, PTL DEF XSafety

-----------------------------------------------------------------------------
(* The interval reader.                                                    *)

Fields == {"st", "kind", "s", "e", "z", "init", "cur", "fd", "open", "pend", "count", "eof",
           "todo", "msblock", "found", "short"}

\* Size of the interval, its bytes in the first block if that is not its
\* start, and the first byte behind of what can be delivered.
Size(r)  == r.e - r.s + 1
Ahead(r) == Block - (r.s % Block)
EndOf(r) == Min({r.e + 1, SourceLen})

\* What was written up to now is right, and the end of input was only found
\* with everything delivered.
Written(r, w) ==
  /\ w \in Seq([1..Block -> Nat])
  /\ \A b \in 1..Len(w), i \in 1..Block : w[b][i] = Expected(r, (b - 1) * Block + i)
  /\ r.count <= Block * Len(w)
  /\ r.s + r.count <= EndOf(r)
  /\ r.eof => r.s + r.count = EndOf(r)

\* The reader stands behind the bytes which it has delivered, or, with an
\* interval that is not aligned, behind those which it still has pending.
Behind(r) ==
  /\ Aligned(r) /\ r.kind = "local" => r.fd = r.s + r.count
  /\ ~Aligned(r) => /\ r.pend \in Seq(Nat) /\ Len(r.pend) = Ahead(r)
                    /\ \A j \in 1..Ahead(r) : r.pend[j] = r.s + r.count + j
                    /\ r.fd = r.s + r.count + Ahead(r)
Positioned(r, w) ==
  /\ r.count = Block * Len(w)
  /\ r.cur = (r.s \div Block) + Len(w) - 1
  /\ Behind(r)

\* Blocks are left to write only while bytes of the interval are.
Remaining(r, w) == r.todo \in Nat /\ Block * (Len(w) + r.todo) < Size(r) + Block

Copy(r, w) ==
  /\ Remaining(r, w)
  /\ r.eof \in BOOLEAN /\ r.init \in BOOLEAN /\ r.count \in Nat /\ r.count <= Size(r)
  /\ ~r.init => w = <<>> /\ r.count = 0 /\ r.found = {} /\ r.pend = <<>> /\ ~r.eof
  /\ r.init => /\ Len(w) > 0 /\ Written(r, w) /\ r.found = r.z \intersect {2, 3}
               /\ ~r.eof /\ r.todo > 0 => Positioned(r, w)

IvrInv ==
  /\ DOMAIN ivr = Fields
  /\ ivr.st = "none" => ivr = NoReader /\ out = <<>>
  /\ ivr.st # "none" => /\ ivr.s \in Nat /\ ivr.e \in Nat /\ ivr.s <= ivr.e /\ ivr.s < SourceLen
                        /\ ivr.kind \in {"local", "imported"}
  /\ ~ivr.init => ~ivr.short
  /\ ivr.st \in {"new", "read", "done"} /\ ~ivr.short /\ Readable(ivr) => Copy(ivr, out)

LEMMA QuotRem ==
  ASSUME NEW a \in Nat
  PROVE  /\ a \div Block \in Nat /\ a % Block \in 0..(Block - 1)
         /\ a = Block * (a \div Block) + (a % Block)
BY IvrAssumption

LEMMA MinOf ==
  ASSUME NEW a \in Int, NEW b \in Int
  PROVE  Min({a, b}) = IF a <= b THEN a ELSE b
<1>1. \E x \in {a, b} : \A y \in {a, b} : x <= y
  OBVIOUS
<1> QED  BY <1>1 DEF Min

LEMMA MaxOf ==
  ASSUME NEW a \in Int, NEW b \in Int
  PROVE  Max({a, b}) = IF a >= b THEN a ELSE b
<1>1. \E x \in {a, b} : \A y \in {a, b} : x >= y
  OBVIOUS
<1> QED  BY <1>1 DEF Max

\* Rounding up to blocks: the last one is begun but not exceeded.
LEMMA BlocksOf ==
  ASSUME NEW n \in Nat \ {0}
  PROVE  /\ (n + Block - 1) \div Block \in Nat
         /\ Block * ((n + Block - 1) \div Block) < n + Block
<1>1. PICK a \in Nat : a = n + Block - 1
  BY IvrAssumption
<1> QED  BY <1>1, QuotRem, IvrAssumption

\* The buffer begins with n bytes of the source from address fd on.
HasBytes(bytes, fd, n) == \A i \in 1..n : bytes[i] = fd + i

\* One read() without short count gets the bytes from the file position on.
LEMMA LocalReadIs ==
  ASSUME NEW fd \in Nat, NEW n \in Nat, n <= Block, NEW a \in Int, fd <= SourceLen,
         SourceLen - fd < n => a = SourceLen - fd, ~(SourceLen - fd < n) => a = n
  PROVE  /\ LocalRead(fd, n, 0).n = a /\ a \in 0..Block /\ a <= n
         /\ LocalRead(fd, n, 0).eof \in BOOLEAN /\ (LocalRead(fd, n, 0).eof <=> a < n)
         /\ LocalRead(fd, n, 0).buf \in [1..Block -> Nat]
         /\ HasBytes(LocalRead(fd, n, 0).buf, fd, a)
<1>1. SourceLen - fd \in Int /\ SourceLen \in Nat /\ Block \in Nat
  BY IvrAssumption
<1>2. PICK m \in Int : m = Min({n, SourceLen - fd})
                       /\ m = IF n <= SourceLen - fd THEN n ELSE SourceLen - fd
  BY <1>1, MinOf
<1>3. Max({0, m}) = IF 0 >= m THEN 0 ELSE m
  BY <1>2, MaxOf
<1>4. Max({0, Min({n, SourceLen - fd})}) = a /\ a \in 0..Block /\ a <= n
  BY <1>1, <1>2, <1>3
<1>5. LocalRead(fd, n, 0) = [n |-> a, eof |-> a < n,
                              buf |-> [i \in 1..Block |-> IF i <= a THEN fd + i ELSE 0]]
  <2>1. ~(0 > 0) /\ ~(a < a)
    BY <1>4
  <2> QED  BY <1>4, <2>1 DEF LocalRead
<1> HIDE DEF LocalRead
<1>6. PICK b : b = [i \in 1..Block |-> IF i <= a THEN fd + i ELSE 0]
  OBVIOUS
<1>7. PICK e : e = (a < n)
  OBVIOUS
<1>8. LocalRead(fd, n, 0) = [n |-> a, eof |-> e, buf |-> b]
  BY <1>5, <1>6, <1>7
<1>9. LocalRead(fd, n, 0).n = a /\ LocalRead(fd, n, 0).eof = e /\ LocalRead(fd, n, 0).buf = b
  BY <1>8
<1>10. b \in [1..Block -> Nat] /\ \A i \in 1..a : b[i] = fd + i
  BY <1>4, <1>6, IvrAssumption
<1>11. e \in BOOLEAN /\ (e <=> a < n)
  <2>1. e \in BOOLEAN
    BY <1>7
  <2>2. e <=> a < n
    BY <1>7
  <2> QED  BY <2>1, <2>2
<1>12. HasBytes(b, fd, a)
  BY <1>10 DEF HasBytes
<1>13. PICK x : x = LocalRead(fd, n, 0)
  OBVIOUS
<1>14. x.n = a /\ x.eof = e /\ x.buf = b
  BY <1>9, <1>13
<1> QED  BY <1>4, <1>10, <1>11, <1>12, <1>13, <1>14

\* What shall become of byte i of the block at r.count, and is made of it.
Zeroized(r, b, fill, i) == IF i <= fill /\ r.count + i - 1 \in Blanked(r) THEN 0 ELSE b[i]
Buffer(r, b, fill) == iso_ivr_zeroize(r, b, fill).buf

\* The zeroizers blank what they shall, although two of them recognize their
\* interval only in the first buffer and one works only there.
LEMMA ZeroizeIs ==
  ASSUME NEW r, NEW b, NEW fill \in 0..Block,
         r.count \in Nat, r.count = 0 \/ r.count >= Block, r.s \in Nat,
         r.count = 0 => r.found = {}, r.count # 0 => r.found = r.z \intersect {2, 3}
  PROVE  /\ iso_ivr_zeroize(r, b, fill).found = r.z \intersect {2, 3}
         /\ \A i \in 1..Block : Buffer(r, b, fill)[i] = Zeroized(r, b, fill, i)
         /\ b \in [1..Block -> Nat] => Buffer(r, b, fill) \in [1..Block -> Nat]
<1> DEFINE first == r.count = 0
           found == r.found \union (IF first THEN r.z \intersect {2, 3} ELSE {})
           blank == (IF 0 \in r.z THEN Interval ELSE {})
                    \union (IF 1 \in r.z /\ first /\ r.s = 0 THEN Mbr ELSE {})
                    \union (IF 2 \in found /\ r.s = 0 THEN Gpt ELSE {})
                    \union (IF 3 \in found /\ r.s = 0 THEN Apm ELSE {})
           marked == [i \in 1..Block |-> IF i <= fill /\ r.count + i - 1 \in blank THEN 0 ELSE b[i]]
<1>1. iso_ivr_zeroize(r, b, fill) = [found |-> found, buf |-> marked]
  BY DEF iso_ivr_zeroize
<1>2. found = r.z \intersect {2, 3}
  OBVIOUS
<1>3. ASSUME NEW i \in 1..Block, i <= fill
      PROVE  r.count + i - 1 \in blank <=> r.count + i - 1 \in Blanked(r)
  <2>1. r.count + i - 1 \in Mbr => first
    BY IvrAssumption
  <2>2. (2 \in found <=> 2 \in r.z) /\ (3 \in found <=> 3 \in r.z)
    BY <1>2
  <2> HIDE DEF found
  <2>3. r.s > 0 <=> r.s # 0
    OBVIOUS
  <2> QED  BY <2>1, <2>2, <2>3 DEF Blanked
<1>4. marked = [i \in 1..Block |-> IF i <= fill /\ r.count + i - 1 \in Blanked(r) THEN 0 ELSE b[i]]
  <2> HIDE DEF blank
  <2> QED  BY <1>3
<1>5. PICK x, y : x = found /\ y = marked
  OBVIOUS
<1>6. iso_ivr_zeroize(r, b, fill).found = x /\ iso_ivr_zeroize(r, b, fill).buf = y
  <2> HIDE DEF found, marked
  <2> QED  BY <1>1, <1>5
<1>7. iso_ivr_zeroize(r, b, fill).buf =
        [i \in 1..Block |-> IF i <= fill /\ r.count + i - 1 \in Blanked(r) THEN 0 ELSE b[i]]
  BY <1>4, <1>5, <1>6
<1>8. PICK w : w = [i \in 1..Block |-> IF i <= fill /\ r.count + i - 1 \in Blanked(r) THEN 0 ELSE b[i]]
  OBVIOUS
<1>9. /\ \A i \in 1..Block : w[i] = IF i <= fill /\ r.count + i - 1 \in Blanked(r) THEN 0 ELSE b[i]
      /\ b \in [1..Block -> Nat] => w \in [1..Block -> Nat]
  BY <1>8
<1>10. iso_ivr_zeroize(r, b, fill).buf = w /\ iso_ivr_zeroize(r, b, fill).found = r.z \intersect {2, 3}
  BY <1>2, <1>5, <1>6, <1>7, <1>8
<1> QED  BY <1>9, <1>10 DEF Buffer, Zeroized

\* What a round of reading must have brought for the block at r.count.
Final(r, g) == IF g.fill > Size(r) - r.count THEN Size(r) - r.count ELSE g.fill
Round(r, g, f) ==
  /\ g.fill \in 0..Block /\ g.buf \in [1..Block -> Nat] /\ f.eof \in BOOLEAN
  /\ \A i \in 1..g.fill : i <= Size(r) - r.count => g.buf[i] = r.s + r.count + i
  /\ r.s + r.count + Final(r, g) <= EndOf(r)
  /\ f.eof \/ g.fill > Size(r) - r.count => r.s + r.count + Final(r, g) = EndOf(r)
  /\ Final(r, g) < Block => r.s + r.count + Final(r, g) = EndOf(r)
  /\ Final(r, g) < Block /\ ~f.eof => Final(r, g) = Size(r) - r.count
  /\ g.fill = Block /\ ~f.eof /\ g.fill < Size(r) - r.count =>
       /\ Aligned(r) /\ r.kind = "local" => f.fd = r.s + r.count + Block
       /\ ~Aligned(r) => /\ g.pend \in Seq(Nat) /\ Len(g.pend) = Ahead(r)
                         /\ \A j \in 1..Ahead(r) : g.pend[j] = r.s + r.count + Block + j
                         /\ f.fd = r.s + r.count + Block + Ahead(r)

\* Expected() and the like depend on the constant fields only.
SameInterval(r, q) == r.s = q.s /\ r.e = q.e /\ r.z = q.z /\ r.kind = q.kind

LEMMA SameExpected ==
  ASSUME NEW r, NEW q, SameInterval(r, q)
  PROVE  /\ \A k : Expected(r, k) = Expected(q, k)
         /\ Aligned(r) = Aligned(q) /\ Size(r) = Size(q) /\ Ahead(r) = Ahead(q)
         /\ EndOf(r) = EndOf(q) /\ Readable(r) = Readable(q)
<1>1. Blanked(r) = Blanked(q)
  BY DEF SameInterval, Blanked
<1>2. Aligned(r) = Aligned(q)
  BY DEF SameInterval, Aligned
<1> QED  BY <1>1, <1>2 DEF SameInterval, Expected, Size, Ahead, EndOf, Readable

\* Begin of a round: the reader is open and where it shall be, it knows what
\* the zeroizers need, and all blocks before were right.
Ready(r, w) ==
  /\ DOMAIN r = Fields /\ r.s \in Nat /\ r.e \in Nat /\ r.s <= r.e
  /\ r.init = TRUE /\ r.eof = FALSE /\ r.todo \in Nat \ {0} /\ Remaining(r, w)
  /\ w \in Seq([1..Block -> Nat])
  /\ \A b \in 1..Len(w), i \in 1..Block : w[b][i] = Expected(r, (b - 1) * Block + i)
  /\ r.count = Block * Len(w)
  /\ r.cur = (r.s \div Block) + Len(w)
  /\ r.s + r.count <= EndOf(r)
  /\ r.count = 0 => r.found = {}
  /\ r.count # 0 => r.found = r.z \intersect {2, 3}

LEMMA DeliverCopies ==
  ASSUME NEW r, NEW g, NEW f, Ready(r, out), Round(r, g, f), Deliver(r, g, f)
  PROVE  /\ DOMAIN ivr' = Fields /\ SameInterval(ivr', r)
         /\ ivr'.st = r.st /\ ivr'.short = r.short /\ Copy(ivr', out')
<1>1. PICK n \in Nat : n = Len(out)
  BY DEF Ready
<1>2. PICK p \in Nat : p = Block * n /\ Block * (n + 1) = p + Block
  BY IvrAssumption
<1>3. PICK L \in Nat : L = Size(r) /\ p < L /\ r.count = p /\ r.e + 1 = r.s + L
  <2>1. Block * (n + r.todo) < Size(r) + Block /\ r.todo \in Nat \ {0} /\ Size(r) \in Nat
    BY <1>1 DEF Ready, Remaining, Size
  <2>2. PICK t \in Nat : t = r.todo - 1
    BY <2>1
  <2>3. Block * (n + r.todo) = p + Block + Block * t /\ Block * t \in Nat
    BY <1>2, <2>1, <2>2, IvrAssumption
  <2>4. p < Size(r)
    BY <2>1, <2>3, IvrAssumption
  <2> QED  BY <1>1, <1>2, <2>1, <2>4 DEF Ready, Size
<1>4. PICK c \in 0..Block : c = Final(r, g) /\ c <= L - p
  BY <1>3, IvrAssumption DEF Final, Round
<1>a. g.fill \in 0..Block /\ r.s \in Nat /\ r.e \in Nat
  BY DEF Round, Ready
<1>5. PICK over : over = (r.s + r.count + g.fill - 1 > r.e)
  OBVIOUS
<1>b. over \in BOOLEAN
  BY <1>5
<1>c. r.s + r.count + g.fill - 1 > r.e <=> g.fill > L - p
  BY <1>3, <1>a, IvrAssumption
<1>6. (over <=> g.fill > L - p) /\ c = IF over THEN r.e - r.s + 1 - r.count ELSE g.fill
  <2>1. over <=> g.fill > L - p
    BY <1>5, <1>c
  <2>2. r.e - r.s + 1 - r.count = L - p
    BY <1>3, <1>a
  <2> QED  BY <1>3, <1>4, <2>1, <2>2 DEF Final
<1>7. PICK b \in [1..Block -> Nat] : b = [i \in 1..Block |-> IF i <= c THEN g.buf[i] ELSE 0]
  BY DEF Round
<1>8. PICK z : z = iso_ivr_zeroize(r, b, c)
  OBVIOUS
<1>9. /\ ivr' = [r EXCEPT !.pend = g.pend, !.fd = f.fd, !.eof = @ \/ f.eof \/ over,
                         !.count = @ + c, !.found = z.found, !.todo = @ - 1]
      /\ out' = Append(out, z.buf)
  BY <1>5, <1>6, <1>7, <1>8 DEF Deliver
<1>10. /\ z.found = r.z \intersect {2, 3}
       /\ \A i \in 1..Block : z.buf[i] = IF i <= c /\ p + i - 1 \in Blanked(r) THEN 0 ELSE b[i]
       /\ z.buf \in [1..Block -> Nat]
  <2>1. r.count = 0 \/ r.count >= Block
    BY <1>1, <1>2, <1>3, IvrAssumption
  <2>2. /\ r.count \in Nat /\ r.s \in Nat
        /\ r.count = 0 => r.found = {}
        /\ r.count # 0 => r.found = r.z \intersect {2, 3}
    BY <1>3 DEF Ready
  <2>3. /\ z.found = r.z \intersect {2, 3}
        /\ \A i \in 1..Block : z.buf[i] = IF i <= c /\ r.count + i - 1 \in Blanked(r) THEN 0 ELSE b[i]
        /\ z.buf \in [1..Block -> Nat]
    <3>1. c \in 0..Block
      BY <1>4
    <3>2. iso_ivr_zeroize(r, b, c).found = r.z \intersect {2, 3}
      BY <2>1, <2>2, <3>1, ZeroizeIs
    <3>3. Buffer(r, b, c) \in [1..Block -> Nat]
      BY <1>7, <2>1, <2>2, <3>1, ZeroizeIs
    <3>4. ASSUME NEW i \in 1..Block
          PROVE  Buffer(r, b, c)[i] = Zeroized(r, b, c, i)
      BY <2>1, <2>2, <3>1, ZeroizeIs
    <3> QED  BY <1>8, <3>2, <3>3, <3>4 DEF Buffer, Zeroized
  <2> QED  BY <1>3, <2>3
<1>11. EndOf(r) \in Int /\ EndOf(r) = IF r.e + 1 <= SourceLen THEN r.e + 1 ELSE SourceLen
  <2>1. r.e + 1 \in Int /\ SourceLen \in Int
    BY IvrAssumption DEF Ready
  <2> QED  BY <2>1, MinOf DEF EndOf
<1>12. \A i \in 1..Block : z.buf[i] = Expected(r, p + i) /\ z.buf[i] \in Nat
  <2> SUFFICES ASSUME NEW i \in 1..Block PROVE z.buf[i] = Expected(r, p + i) /\ z.buf[i] \in Nat
    OBVIOUS
  <2>1. Expected(r, p + i) = IF r.s + p + i > EndOf(r) \/ p + i - 1 \in Blanked(r) THEN 0 ELSE r.s + p + i
    <3>1. r.s + (p + i) = r.s + p + i
      BY <1>a, IvrAssumption
    <3> QED  BY <3>1 DEF Expected, EndOf
  <2>2. CASE i <= c
    <3>1. r.s + p + i <= EndOf(r)
      <4>1. r.s + p + c <= EndOf(r)
        BY <1>3, <1>4 DEF Round
      <4>2. PICK m \in Int : m = EndOf(r)
        BY <1>11
      <4> QED  BY <1>a, <2>2, <4>1, <4>2
    <3>2. i \in 1..g.fill /\ i <= L - p
      BY <1>4, <1>5, <1>6, <1>3, <2>2, IvrAssumption DEF Final, Round
    <3>3. b[i] = r.s + p + i
      BY <1>3, <1>7, <2>2, <3>2 DEF Round
    <3>4. ~(r.s + p + i > EndOf(r)) /\ r.s + p + i \in Nat
      BY <1>2, <1>11, <3>1 DEF Ready
    <3> QED  BY <1>10, <2>1, <2>2, <3>3, <3>4
  <2>3. CASE ~(i <= c)
    <3>1. r.s + p + c = EndOf(r)
      BY <1>3, <1>4, <2>3, IvrAssumption DEF Round
    <3>2. r.s + p + i > EndOf(r)
      BY <1>2, <1>4, <2>3, <3>1 DEF Ready
    <3>3. z.buf[i] = 0
      BY <1>7, <1>10, <2>3
    <3> QED  BY <2>1, <3>2, <3>3
  <2> QED  BY <2>2, <2>3
<1>13. /\ DOMAIN ivr' = Fields /\ SameInterval(ivr', r) /\ ivr'.st = r.st /\ ivr'.short = r.short
       /\ ivr'.init = TRUE /\ ivr'.pend = g.pend /\ ivr'.fd = f.fd /\ ivr'.eof = (f.eof \/ over)
       /\ ivr'.count = p + c /\ ivr'.found = r.z \intersect {2, 3} /\ ivr'.todo = r.todo - 1
       /\ ivr'.cur = r.cur
  <2>1. DOMAIN r = Fields /\ r.eof = FALSE /\ r.init = TRUE /\ r.count = p
    BY <1>3 DEF Ready
  <2>2. DOMAIN ivr' = Fields
    BY <1>9, <2>1
  <2>3. ivr'.pend = g.pend /\ ivr'.fd = f.fd /\ ivr'.found = z.found
    BY <1>9, <2>1 DEF Fields
  <2>4. ivr'.count = p + c /\ ivr'.todo = r.todo - 1
    BY <1>9, <2>1 DEF Fields
  <2>5. ivr'.eof = (f.eof \/ over)
    BY <1>9, <2>1 DEF Fields
  <2>6. SameInterval(ivr', r) /\ ivr'.st = r.st /\ ivr'.short = r.short /\ ivr'.init = TRUE /\ ivr'.cur = r.cur
    BY <1>9, <2>1 DEF Fields, SameInterval
  <2> QED  BY <1>10, <2>2, <2>3, <2>4, <2>5, <2>6
<1>14. out' \in Seq([1..Block -> Nat]) /\ Len(out') = n + 1 /\ out'[n + 1] = z.buf
       /\ \A k \in 1..n : out'[k] = out[k]
  <2>1. z.buf \in [1..Block -> Nat]
    BY <1>10, <1>12
  <2>2. out \in Seq([1..Block -> Nat])
    BY DEF Ready
  <2>3. out' = Append(out, z.buf)
    BY <1>9
  <2> QED  BY <1>1, <2>1, <2>2, <2>3
<1>15. \A k : Expected(ivr', k) = Expected(r, k)
  BY <1>13, SameExpected
<1>16. Written(ivr', out')
  <2>1. ASSUME NEW k \in 1..Len(out'), NEW i \in 1..Block
        PROVE  out'[k][i] = Expected(ivr', (k - 1) * Block + i)
    <3>1. CASE k = n + 1
      <4>1. (k - 1) * Block = p
        BY <1>2, <3>1, IvrAssumption
      <4> QED  BY <1>12, <1>14, <1>15, <3>1, <4>1
    <3>2. CASE k # n + 1
      <4>1. k \in 1..n
        BY <1>14, <3>2
      <4>2. out'[k] = out[k]
        BY <1>14, <4>1
      <4>3. out[k][i] = Expected(r, (k - 1) * Block + i)
        <5>1. \A j \in 1..Len(out), x \in 1..Block : out[j][x] = Expected(r, (j - 1) * Block + x)
          BY DEF Ready
        <5>2. k \in 1..Len(out)
          BY <1>1, <4>1
        <5> QED  BY ONLY <5>1, <5>2, i \in 1..Block
      <4> QED  BY ONLY <1>15, <4>2, <4>3
    <3> QED  BY <3>1, <3>2
  <2>2. ivr'.count <= Block * Len(out')
    BY <1>2, <1>13, <1>14, IvrAssumption
  <2>3. ivr'.s + ivr'.count <= EndOf(ivr') /\ (ivr'.eof => ivr'.s + ivr'.count = EndOf(ivr'))
    <3>1. EndOf(ivr') = EndOf(r) /\ ivr'.s = r.s
      BY <1>13, SameExpected DEF SameInterval
    <3>2. r.s + r.count + c <= EndOf(r) /\ (ivr'.eof => r.s + r.count + c = EndOf(r))
      BY <1>3, <1>4, <1>6, <1>13 DEF Round
    <3> QED  BY <1>2, <1>3, <1>11, <1>13, <3>1, <3>2 DEF Ready
  <2> QED  BY <1>14, <2>1, <2>2, <2>3 DEF Written
<1>17. Remaining(ivr', out') /\ Size(ivr') = L
  <2>1. Size(ivr') = L
    BY <1>3, <1>13, SameExpected
  <2>2. n + 1 + (r.todo - 1) = n + r.todo /\ r.todo - 1 \in Nat
    BY DEF Ready
  <2> QED  BY <1>1, <1>3, <1>13, <1>14, <2>1, <2>2 DEF Remaining, Ready
<1>18. ~ivr'.eof /\ ivr'.todo > 0 => Positioned(ivr', out')
  <2> SUFFICES ASSUME ~ivr'.eof, ivr'.todo > 0 PROVE Positioned(ivr', out')
    OBVIOUS
  <2>1. p + Block < L
    <3>1. PICK t \in Nat : t = ivr'.todo - 1
      BY <1>17 DEF Remaining
    <3>2. Block * (n + 1 + ivr'.todo) < L + Block
      BY <1>14, <1>17 DEF Remaining
    <3>3. ivr'.todo = t + 1 /\ Block \in Nat
      BY <1>17, <3>1, IvrAssumption DEF Remaining
    <3>4. Block * (n + 1 + (t + 1)) = (Block * (n + 1) + Block) + Block * t /\ Block * t \in Nat
      BY <3>3
    <3> QED  BY <1>2, <3>2, <3>3, <3>4
  <2>2. ~f.eof /\ ~over
    BY <1>5, <1>13
  <2>3. g.fill = Block /\ c = Block /\ g.fill < Size(r) - r.count
    BY <1>3, <1>4, <1>5, <1>6, <2>1, <2>2, IvrAssumption DEF Round, Final
  <2>4. Aligned(ivr') = Aligned(r) /\ Ahead(ivr') = Ahead(r) /\ ivr'.s = r.s /\ ivr'.kind = r.kind
    BY <1>13, SameExpected DEF SameInterval
  <2>5. ivr'.count = p + Block /\ ivr'.count = Block * Len(out') /\ ivr'.cur = (ivr'.s \div Block) + Len(out') - 1
    <3>1. r.s \div Block \in Nat
      BY QuotRem DEF Ready
    <3> QED  BY <1>1, <1>2, <1>13, <1>14, <2>3, <2>4, <3>1 DEF Ready
  <2>6. Aligned(r) /\ r.kind = "local" => f.fd = r.s + ivr'.count
    BY <1>2, <1>3, <2>2, <2>3, <2>5, IvrAssumption DEF Round, Ready
  <2>7. ~Aligned(r) => /\ g.pend \in Seq(Nat) /\ Len(g.pend) = Ahead(r)
                       /\ \A j \in 1..Ahead(r) : g.pend[j] = r.s + ivr'.count + j
                       /\ f.fd = r.s + ivr'.count + Ahead(r)
    <3>1. r.s + r.count + Block = r.s + ivr'.count
      BY <1>2, <1>3, <2>5, IvrAssumption DEF Ready
    <3> QED  BY <2>2, <2>3, <3>1 DEF Round
  <2> QED  BY <1>13, <2>4, <2>5, <2>6, <2>7 DEF Positioned, Behind
<1> QED
  <2>1. ivr'.init = TRUE /\ ivr'.eof \in BOOLEAN /\ ivr'.count \in Nat /\ ivr'.count <= Size(ivr')
    BY <1>2, <1>4, <1>5, <1>13, <1>17, IvrAssumption DEF Round
  <2>2. ivr'.found = ivr'.z \intersect {2, 3} /\ Len(out') > 0
    BY <1>13, <1>14 DEF SameInterval
  <2> QED  BY <1>13, <1>16, <1>17, <1>18, <2>1, <2>2 DEF Copy

LEMMA EndOfIs ==
  ASSUME NEW r, r.e \in Nat
  PROVE  EndOf(r) \in Int /\ EndOf(r) = IF r.e + 1 <= SourceLen THEN r.e + 1 ELSE SourceLen
<1>1. r.e + 1 \in Int /\ SourceLen \in Int
  BY IvrAssumption
<1> QED  BY <1>1, MinOf DEF EndOf

\* What is not delivered yet.
Left(r) == r.e - r.s + 1 - r.count

\* Where a round begins: n blocks with p bytes are written, q blocks and m
\* bytes of the source precede the interval.
At(r, w, n, p, L, q, m) ==
  /\ n = Len(w) /\ p = Block * n /\ p = r.count /\ L = Size(r) /\ p < L /\ Left(r) = L - p
  /\ q = r.s \div Block /\ m = r.s % Block /\ r.s = Block * q + m /\ r.e + 1 = r.s + L
  /\ r.cur * Block = r.s - m + p /\ r.cur * Block <= r.e /\ Block * (q + n + 1) = r.s - m + p + Block

LEMMA RoundBegins ==
  ASSUME NEW r, NEW w, Ready(r, w)
  PROVE  \E n, p, L, q \in Nat, m \in 0..(Block - 1) : At(r, w, n, p, L, q, m)
<1>1. PICK n \in Nat : n = Len(w)
  BY DEF Ready
<1>2. PICK p \in Nat : p = Block * n
  BY IvrAssumption
<1>3. PICK L \in Nat : L = Size(r) /\ p < L /\ r.count = p /\ r.e + 1 = r.s + L
  <2>1. Block * (n + r.todo) < Size(r) + Block /\ r.todo \in Nat \ {0} /\ Size(r) \in Nat
    BY <1>1 DEF Ready, Remaining, Size
  <2>2. PICK t \in Nat : t = r.todo - 1
    BY <2>1
  <2>3. Block * (n + r.todo) = p + Block + Block * t /\ Block * t \in Nat
    BY <1>2, <2>1, <2>2, IvrAssumption
  <2>4. p < Size(r)
    BY <2>1, <2>3, IvrAssumption
  <2> QED  BY <1>1, <1>2, <2>1, <2>4 DEF Ready, Size
<1>4. PICK q \in Nat, m \in 0..(Block - 1) : q = r.s \div Block /\ m = r.s % Block /\ r.s = Block * q + m
  <2>1. r.s \in Nat
    BY DEF Ready
  <2> QED  BY <2>1, QuotRem
<1>5. r.cur * Block = Block * q + p /\ Block * (q + n + 1) = Block * q + p + Block
  <2>1. r.cur = q + n
    BY <1>1, <1>4 DEF Ready
  <2> QED  BY <1>2, <2>1, IvrAssumption
<1>6. Block * q \in Nat
  BY IvrAssumption
<1>7. At(r, w, n, p, L, q, m)
  <2>1. r.s - m + p = Block * q + p
    BY <1>4, <1>6, IvrAssumption
  <2>2. r.cur * Block <= r.e
    <3>1. PICK x \in Nat : x = Block * q
      BY <1>6
    <3>2. r.s = x + m /\ r.e + 1 = r.s + L /\ r.cur * Block = x + p /\ r.e \in Nat /\ r.s \in Nat
      BY <1>3, <1>4, <1>5, <3>1 DEF Ready
    <3> QED  BY <1>3, <3>2, IvrAssumption
  <2>3. r.s - m + p + Block = Block * q + p + Block
    BY <2>1
  <2>4. Left(r) = L - p
    <3>1. r.s \in Nat /\ r.e \in Nat
      BY DEF Ready
    <3> QED  BY <1>3, <3>1 DEF Left
  <2> QED  BY <1>1, <1>2, <1>3, <1>4, <1>5, <2>1, <2>2, <2>3, <2>4 DEF At
<1> QED  BY <1>7

\* Whole blocks of an imported image.
LEMMA RoundImported ==
  ASSUME NEW r, Ready(r, out), Behind(r), Aligned(r), r.kind = "imported", r.e < SourceLen,
         NEW f, f = Fetch(r, 0)
  PROVE  Round(r, Fill(r, f), f)
<1>1. PICK n, p, L, q \in Nat, m \in 0..(Block - 1) : At(r, out, n, p, L, q, m)
  BY RoundBegins
<1>2. m = 0 /\ r.cur * Block = r.s + p /\ r.cur * Block <= r.e /\ r.s \in Nat /\ r.e \in Nat /\ p < L
      /\ r.count = p /\ Size(r) = L /\ r.e + 1 = r.s + L
  BY <1>1, IvrAssumption DEF At, Aligned, Ready
<1>a. PICK y \in Nat : y = r.s + p
  BY <1>2
<1>b. SourceAt(y, Block) \in [1..Block -> Nat]
  BY <1>a, IvrAssumption DEF SourceAt
<1>3. PICK b \in [1..Block -> Nat] : b = SourceAt(y, Block)
  BY <1>b
<1>4. \A i \in 1..Block : b[i] = r.s + p + i
  BY <1>a, <1>3 DEF SourceAt
<1>5. f = [n |-> Block, eof |-> FALSE, fd |-> r.fd, buf |-> b]
  <2>1. ~(r.cur * Block > r.e) /\ ~(r.cur * Block >= SourceLen)
    BY <1>2, IvrAssumption
  <2>2. b = SourceAt(r.cur * Block, Block)
    BY <1>2, <1>a, <1>3
  <2>3. Fetch(r, 0) = [n |-> Block, eof |-> r.cur * Block >= SourceLen, fd |-> r.fd, buf |-> b]
    BY <2>1, <2>2 DEF Fetch
  <2>4. (r.cur * Block >= SourceLen) = FALSE
    BY <2>1
  <2> QED  BY <2>3, <2>4
<1>6. PICK g : g = Fill(r, f)
  OBVIOUS
<1>7. g = [fill |-> Block, buf |-> b, pend |-> r.pend]
  BY <1>5, <1>6 DEF Fill
<1>8. EndOf(r) = r.e + 1
  BY <1>2, EndOfIs, IvrAssumption
<1>9. Final(r, g) = IF Block > L - p THEN L - p ELSE Block
  BY <1>2, <1>7 DEF Final
<1>10. r.s + r.count + Final(r, g) <= EndOf(r)
       /\ (g.fill > Size(r) - r.count => r.s + r.count + Final(r, g) = EndOf(r))
       /\ (Final(r, g) < Block => r.s + r.count + Final(r, g) = EndOf(r) /\ Final(r, g) = L - p)
  <2>0. (IF Block > L - p THEN L - p ELSE Block) \in Int
    BY IvrAssumption
  <2>1. PICK x \in Int : x = Final(r, g) /\ x = IF Block > L - p THEN L - p ELSE Block
    BY <1>9, <2>0
  <2>2. r.count = p /\ EndOf(r) = r.s + L /\ Size(r) = L /\ g.fill = Block /\ r.s \in Nat
    BY <1>2, <1>7, <1>8
  <2> QED  BY <2>1, <2>2, IvrAssumption
<1>11. Round(r, g, f)
  <2>1. f.eof = FALSE /\ g.fill = Block /\ g.buf = b
    BY <1>5, <1>7
  <2>a. Block \in 0..Block
    BY IvrAssumption
  <2>2. g.fill \in 0..Block /\ g.buf \in [1..Block -> Nat] /\ f.eof \in BOOLEAN
    BY <1>3, <2>1, <2>a
  <2>3. \A i \in 1..g.fill : g.buf[i] = r.s + r.count + i
    BY <1>2, <1>4, <2>1
  <2>4. Size(r) - r.count = L - p
    BY <1>2
  <2> QED  BY <1>10, <2>1, <2>2, <2>3, <2>4 DEF Round
<1> QED  BY <1>6, <1>11

\* What is left of the interval, but at most a block, is demanded.
LEMMA DemandIs ==
  ASSUME NEW L \in Nat \ {0}
  PROVE  Max({0, Min({Block, L})}) = (IF Block <= L THEN Block ELSE L)
<1>1. Block \in Int /\ L \in Int /\ L > 0 /\ Block > 0
  BY IvrAssumption
<1>2. PICK d \in Int : d = Min({Block, L}) /\ d = IF Block <= L THEN Block ELSE L
  BY <1>1, MinOf
<1>3. Max({0, d}) = IF 0 >= d THEN 0 ELSE d
  BY <1>2, MaxOf
<1> QED  BY <1>1, <1>2, <1>3

\* A read() from the local file in a round: a of d demanded bytes.
Piece(r, f, d, a) ==
  /\ d = (IF Block <= Left(r) THEN Block ELSE Left(r))
  /\ a = (IF SourceLen - r.fd < d THEN SourceLen - r.fd ELSE d)
  /\ a <= d /\ f.n = a /\ f.fd = r.fd + a /\ f.eof \in BOOLEAN /\ (f.eof <=> a < d)
  /\ f.buf \in [1..Block -> Nat] /\ HasBytes(f.buf, r.fd, a)

LEMMA LocalFetch ==
  ASSUME NEW r, r.kind = "local", ~(r.cur * Block > r.e), r.fd \in Nat, r.fd <= SourceLen,
         Left(r) \in Nat \ {0}, r.e - r.s + 1 - r.count = Left(r)
  PROVE  \E d, a \in 0..Block : Piece(r, Fetch(r, 0), d, a)
<1>1. PICK L \in Nat \ {0} : L = Left(r)
  OBVIOUS
<1>2. PICK d \in 0..Block : d = IF Block <= L THEN Block ELSE L
  BY <1>1, IvrAssumption
<1>a. PICK a \in 0..Block : a = IF SourceLen - r.fd < d THEN SourceLen - r.fd ELSE d
  BY <1>2, IvrAssumption
<1>3. PICK x : x = LocalRead(r.fd, d, 0)
  OBVIOUS
<1>4. /\ x.n = a /\ a <= d /\ x.eof \in BOOLEAN /\ (x.eof <=> a < d)
      /\ x.buf \in [1..Block -> Nat] /\ HasBytes(x.buf, r.fd, a)
  <2>1. /\ SourceLen - r.fd < d => a = SourceLen - r.fd
        /\ ~(SourceLen - r.fd < d) => a = d
        /\ a \in Int /\ d \in Nat /\ d <= Block
    BY <1>2, <1>a, IvrAssumption
  <2>2. x.n = a /\ a <= d
    BY <1>3, <2>1, LocalReadIs
  <2>3. x.eof \in BOOLEAN /\ (x.eof <=> a < d)
    BY <1>3, <2>1, LocalReadIs
  <2>4. x.buf \in [1..Block -> Nat]
    BY <1>3, <2>1, LocalReadIs
  <2>5. HasBytes(x.buf, r.fd, a)
    BY <1>3, <2>1, LocalReadIs
  <2> QED  BY <2>2, <2>3, <2>4, <2>5
<1>5. Fetch(r, 0) = [n |-> x.n, eof |-> x.eof, fd |-> r.fd + x.n, buf |-> x.buf]
  <2>1. r.kind # "imported"
    OBVIOUS
  <2>2. Max({0, Min({Block, r.e - r.s + 1 - r.count})}) = d
    <3>1. Max({0, Min({Block, L})}) = (IF Block <= L THEN Block ELSE L)
      BY <1>1, DemandIs
    <3>2. r.e - r.s + 1 - r.count = L
      BY <1>1
    <3> HIDE <1>1
    <3> QED  BY <1>2, <3>1, <3>2
  <2> QED  BY <1>3, <2>1, <2>2 DEF Fetch
<1>6. PICK y : y = Fetch(r, 0)
  OBVIOUS
<1>7. y.n = x.n /\ y.eof = x.eof /\ y.fd = r.fd + x.n /\ y.buf = x.buf
  BY <1>5, <1>6
<1>8. y.eof \in BOOLEAN /\ (y.eof <=> a < d)
  BY <1>4, <1>7
<1>9. Piece(r, y, d, a)
  BY <1>1, <1>2, <1>a, <1>4, <1>7, <1>8 DEF Piece
<1> QED  BY <1>6, <1>9

\* An aligned interval of a local file: the round ends at the demand or at
\* the end of the file.
LEMMA RoundAligned ==
  ASSUME NEW r, Ready(r, out), Behind(r), Aligned(r), r.kind = "local",
         NEW f, f = Fetch(r, 0)
  PROVE  Round(r, Fill(r, f), f)
<1>1. PICK n, p, L, q \in Nat, m \in 0..(Block - 1) : At(r, out, n, p, L, q, m)
  BY RoundBegins
<1>2. /\ p < L /\ r.s \in Nat /\ r.e \in Nat /\ r.count = p /\ Size(r) = L /\ r.e + 1 = r.s + L
      /\ r.fd = r.s + p
  <2>1. p < L /\ r.count = p /\ Size(r) = L /\ r.e + 1 = r.s + L
    BY <1>1 DEF At
  <2> QED  BY <2>1 DEF Ready, Behind
<1>3. PICK E \in Int : /\ E = EndOf(r) /\ r.s + p <= E
                       /\ E = IF r.s + L <= SourceLen THEN r.s + L ELSE SourceLen
  <2>1. EndOf(r) \in Int /\ EndOf(r) = IF r.e + 1 <= SourceLen THEN r.e + 1 ELSE SourceLen
    BY <1>2, EndOfIs
  <2>2. r.s + r.count <= EndOf(r)
    BY DEF Ready
  <2> QED  BY <1>2, <2>1, <2>2
<1>4. r.fd \in Nat /\ r.fd <= SourceLen
  BY <1>2, <1>3, IvrAssumption
<1>5. PICK d, a \in 0..Block : Piece(r, f, d, a)
  <2>1. ~(r.cur * Block > r.e)
    <3>1. r.cur * Block <= r.e /\ r.cur * Block = r.s - m + p
      BY <1>1 DEF At
    <3>2. PICK x \in Int : x = r.cur * Block
      BY <1>2, <3>1
    <3> QED  BY <1>2, <3>1, <3>2
  <2>2. Left(r) = L - p
    BY <1>1 DEF At
  <2> QED  BY <1>2, <1>4, <2>1, <2>2, LocalFetch DEF Left
<1>6. /\ d = (IF Block <= L - p THEN Block ELSE L - p)
      /\ a = (IF SourceLen - r.fd < d THEN SourceLen - r.fd ELSE d)
      /\ a <= d /\ f.n = a /\ f.fd = r.fd + a /\ f.eof \in BOOLEAN /\ (f.eof <=> a < d)
  BY <1>1, <1>5 DEF Piece, At
<1>7. /\ f.fd = r.s + p + a /\ f.buf \in [1..Block -> Nat] /\ HasBytes(f.buf, r.s + p, a)
  BY <1>2, <1>5, <1>6 DEF Piece
<1>8. PICK g : g = Fill(r, f)
  OBVIOUS
<1>9. g.fill = a /\ g.buf = f.buf
  BY <1>6, <1>8 DEF Fill
<1>10. Final(r, g) = a
  BY <1>2, <1>6, <1>9, IvrAssumption DEF Final
<1>11. r.s + p + a <= E /\ (a < d => r.s + p + a = E) /\ (a < Block => r.s + p + a = E)
       /\ a <= L - p /\ (a < Block /\ ~(a < d) => a = L - p)
  BY <1>2, <1>3, <1>6, IvrAssumption
<1>12. Round(r, g, f)
  <2>1. g.fill \in 0..Block /\ g.buf \in [1..Block -> Nat] /\ f.eof \in BOOLEAN
    BY <1>6, <1>7, <1>9
  <2>2. \A i \in 1..g.fill : g.buf[i] = r.s + r.count + i
    BY <1>2, <1>7, <1>9 DEF HasBytes
  <2>3. r.s + r.count + Final(r, g) <= EndOf(r)
        /\ (f.eof \/ g.fill > Size(r) - r.count => r.s + r.count + Final(r, g) = EndOf(r))
    BY <1>2, <1>3, <1>6, <1>9, <1>10, <1>11
  <2>4. /\ Final(r, g) < Block => r.s + r.count + Final(r, g) = EndOf(r)
        /\ Final(r, g) < Block /\ ~f.eof => Final(r, g) = Size(r) - r.count
    BY <1>2, <1>3, <1>6, <1>10, <1>11
  <2>5. g.fill = Block => f.fd = r.s + r.count + Block
    BY <1>2, <1>7, <1>9
  <2> QED  BY <2>1, <2>2, <2>3, <2>4, <2>5 DEF Round
<1> QED  BY <1>8, <1>12

\* Blocks are not entered by halves.
LEMMA BlockStep ==
  ASSUME NEW x \in Nat, NEW y \in Nat, Block * x < Block * y
  PROVE  Block * (x + 1) <= Block * y
<1>1. x < y
  <2> SUFFICES ASSUME y <= x PROVE FALSE
    OBVIOUS
  <2>1. PICK t \in Nat : x = y + t
    OBVIOUS
  <2>2. Block * x = Block * y + Block * t /\ Block * t \in Nat /\ Block * y \in Nat
    BY <2>1, IvrAssumption
  <2> QED  BY <2>2
<1>2. PICK t \in Nat : y = x + 1 + t
  BY <1>1
<1>3. Block * y = Block * (x + 1) + Block * t /\ Block * t \in Nat /\ Block * (x + 1) \in Nat
  BY <1>2, IvrAssumption
<1> QED  BY <1>3

\* The items of s are those of b from lo to hi.
IsCut(s, b, lo, hi) ==
  /\ s \in Seq(Nat) /\ Len(s) = (IF lo <= hi THEN hi - lo + 1 ELSE 0)
  /\ \A j \in 1..(hi - lo + 1) : s[j] = b[lo + j - 1]

\* The end of a block, which becomes the pending bytes.
LEMMA CutOf ==
  ASSUME NEW b \in [1..Block -> Nat], NEW lo \in 1..Block, NEW hi \in 0..Block
  PROVE  IsCut(SubSeq(b, lo, hi), b, lo, hi)
<1>1. \A i \in lo..hi : b[i] \in Nat
  BY IvrAssumption
<1>2. lo \in Int /\ hi \in Int
  BY IvrAssumption
<1> QED  BY <1>1, <1>2, SubSeqProperties DEF IsCut

\* The items of s follow the first k items of x.
HasPart(x, k, s) == \A i \in 1..Len(s) : x[k + i] = s[i]

\* Pending bytes, then bytes of the new piece, then zeros.
LEMMA JoinOf ==
  ASSUME NEW s \in Seq(Nat), NEW t \in Seq(Nat), Len(s) + Len(t) <= Block,
         NEW x, x = s \o t \o Zeroes(Block - Len(s) - Len(t))
  PROVE  /\ x \in [1..Block -> Nat]
         /\ HasPart(x, 0, s) /\ HasPart(x, Len(s), t)
<1>1. PICK k \in Nat, l \in Nat : k = Len(s) /\ l = Len(t)
  OBVIOUS
<1>a. k + l <= Block /\ Block \in Nat
  BY <1>1, IvrAssumption
<1>2. PICK z \in Nat : z = Block - k - l /\ k + l + z = Block
  <2>1. Block - k - l \in Nat
    BY <1>a
  <2> QED  BY <1>a, <2>1
<1>3. PICK o : o = Zeroes(z)
  OBVIOUS
<1>4. o \in Seq(Nat) /\ Len(o) = z
  BY <1>3 DEF Zeroes
<1>5. PICK u : u = s \o t
  OBVIOUS
<1>6. /\ u \in Seq(Nat) /\ Len(u) = k + l
      /\ \A i \in 1..(k + l) : u[i] = IF i <= k THEN s[i] ELSE t[i - k]
  BY <1>1, <1>5, ConcatProperties
<1>7. /\ u \o o \in Seq(Nat) /\ Len(u \o o) = k + l + z
      /\ \A i \in 1..(k + l + z) : (u \o o)[i] = IF i <= k + l THEN u[i] ELSE o[i - (k + l)]
  <2>1. /\ u \o o \in Seq(Nat) /\ Len(u \o o) = Len(u) + Len(o)
        /\ \A i \in 1..(Len(u) + Len(o)) : (u \o o)[i] = IF i <= Len(u) THEN u[i] ELSE o[i - Len(u)]
    BY <1>4, <1>6, ConcatProperties
  <2>2. Len(u) = k + l /\ Len(o) = z
    BY <1>4, <1>6
  <2> QED  BY <2>1, <2>2
<1>8. x = u \o o
  BY <1>1, <1>2, <1>3, <1>5
<1>b. x \in Seq(Nat) /\ Len(x) = Block /\ \A i \in 1..(k + l) : x[i] = u[i]
  <2>1. \A i \in 1..(k + l) : i \in 1..(k + l + z) /\ i <= k + l
    OBVIOUS
  <2> QED  BY <1>2, <1>7, <1>8, <2>1
<1>9. x \in [1..Block -> Nat]
  BY <1>b, ElementOfSeq, LenProperties
<1>10. ASSUME NEW i \in 1..k PROVE x[i] = s[i]
  <2>1. i \in 1..(k + l) /\ i <= k
    OBVIOUS
  <2>2. u[i] = s[i]
    BY <1>6, <2>1
  <2> QED  BY <1>b, <2>1, <2>2
<1>11. ASSUME NEW i \in 1..l PROVE x[k + i] = t[i]
  <2>1. k + i \in 1..(k + l) /\ ~(k + i <= k) /\ k + i - k = i
    OBVIOUS
  <2>2. u[k + i] = t[k + i - k]
    BY <1>6, <2>1
  <2> QED  BY <1>b, <2>1, <2>2
<1>12. HasPart(x, 0, s)
  <2>1. \A i \in 1..k : 0 + i = i
    OBVIOUS
  <2> QED  BY <1>1, <1>10, <2>1 DEF HasPart
<1>13. HasPart(x, Len(s), t)
  BY <1>1, <1>11 DEF HasPart
<1> QED  BY <1>9, <1>12, <1>13

\* An interval of a local file that is not aligned: the pending bytes come
\* first, and the end of the file is met only in the last round.
LEMMA RoundPending ==
  ASSUME NEW r, Ready(r, out), Behind(r), ~Aligned(r), r.kind = "local", Readable(r),
         NEW f, f = Fetch(r, 0)
  PROVE  Round(r, Fill(r, f), f)
<1>1. PICK n, p, L, q \in Nat, m \in 0..(Block - 1) : At(r, out, n, p, L, q, m)
  BY RoundBegins
<1>2. /\ p < L /\ Left(r) = L - p /\ r.s \in Nat /\ r.e \in Nat /\ r.count = p /\ Size(r) = L
      /\ r.e + 1 = r.s + L /\ m = r.s % Block /\ m # 0
  <2>1. p < L /\ Left(r) = L - p /\ r.count = p /\ Size(r) = L /\ r.e + 1 = r.s + L /\ m = r.s % Block
    BY <1>1 DEF At
  <2> QED  BY <2>1 DEF Ready, Aligned
<1>3. PICK h \in 1..(Block - 1) : h = Ahead(r) /\ h + m = Block
  BY <1>2, IvrAssumption DEF Ahead
<1>4. /\ r.pend \in Seq(Nat) /\ Len(r.pend) = h /\ r.fd = r.s + p + h
      /\ \A j \in 1..h : r.pend[j] = r.s + p + j
  BY <1>2, <1>3 DEF Behind
<1>5. PICK F \in Nat, Z \in Nat : /\ F = SourceLen \div Block /\ Z = Block * F
                                  /\ Z <= SourceLen /\ SourceLen < Z + Block
  <2>1. SourceLen \in Nat /\ Block \in Nat
    BY IvrAssumption
  <2>2. /\ SourceLen \div Block \in Nat /\ SourceLen % Block \in 0..(Block - 1)
        /\ SourceLen = Block * (SourceLen \div Block) + (SourceLen % Block)
    BY <2>1, QuotRem
  <2>3. Block * (SourceLen \div Block) \in Nat
    BY <2>1, <2>2
  <2> QED  BY <2>1, <2>2, <2>3
<1>6. L >= Block /\ r.e < SourceLen /\ r.e < Z + m
  <2>1. L >= Block /\ r.e < SourceLen /\ r.e < (SourceLen \div Block) * Block + (r.s % Block)
    BY <1>2 DEF Readable, Size
  <2>2. (SourceLen \div Block) * Block = Z
    BY <1>5, IvrAssumption
  <2> QED  BY <1>2, <2>1, <2>2
<1>c. PICK B \in Nat : B = Block
  BY IvrAssumption
<1>d. PICK S \in Nat : S = r.s
  BY <1>2
<1>e. PICK D \in Nat : D = S + p + h
  OBVIOUS
<1>a. B = Block /\ S = r.s /\ D = r.fd /\ D = S + p + h /\ r.e = S + L - 1
  <2>1. r.fd = r.s + p + h
    BY <1>4
  <2>2. r.e \in Nat /\ r.e + 1 = r.s + L
    BY <1>2
  <2> QED  BY <1>c, <1>d, <1>e, <2>1, <2>2
<1>b. h \in 1..(B - 1) /\ m \in 0..(B - 1) /\ h + m = B /\ L >= B /\ p < L
  BY <1>2, <1>3, <1>6, <1>a
<1>7. Block * (q + n + 1) = D /\ Block * (q + n) = D - B
  <2>0. Block * (q + n + 1) = S - m + p + B
    BY <1>1, <1>a DEF At
  <2>1. PICK X \in Int : X = S - m + p + B
    OBVIOUS
  <2>2. X = D
    BY <1>e, <1>b, <2>1
  <2>3. Block * (q + n) = Block * (q + n + 1) - Block
    BY IvrAssumption
  <2> QED  BY <1>c, <2>0, <2>1, <2>2, <2>3
<1>8. D <= Z
  <2>0. S + L - 1 < Z + m
    BY <1>6, <1>a
  <2>1. D - B < Z
    BY <1>a, <1>b, <2>0
  <2>2. Block * (q + n) < Block * F
    BY <1>5, <1>7, <2>1
  <2>3. q + n \in Nat
    OBVIOUS
  <2>4. Block * (q + n + 1) <= Block * F
    BY <2>2, <2>3, BlockStep
  <2> QED  BY <1>5, <1>7, <2>4
<1>9. PICK d, a \in 0..Block : Piece(r, f, d, a)
  <2>1. ~(r.cur * Block > r.e)
    <3>1. r.cur * Block <= r.e /\ r.cur * Block = r.s - m + p
      BY <1>1 DEF At
    <3>2. PICK x \in Int : x = r.cur * Block
      BY <1>2, <3>1
    <3> QED  BY <1>2, <3>1, <3>2
  <2>2. r.fd <= SourceLen
    BY <1>5, <1>8, <1>a, IvrAssumption
  <2>3. r.fd \in Nat
    BY <1>a
  <2> QED  BY <1>2, <2>1, <2>2, <2>3, LocalFetch DEF Left
<1>10. /\ d = (IF Block <= L - p THEN Block ELSE L - p)
       /\ a = (IF SourceLen - D < d THEN SourceLen - D ELSE d)
       /\ a <= d /\ f.n = a /\ f.fd = D + a /\ f.eof \in BOOLEAN /\ (f.eof <=> a < d)
       /\ f.buf \in [1..Block -> Nat] /\ HasBytes(f.buf, D, a)
  BY <1>2, <1>9, <1>a DEF Piece
\* The file ends within this round only if the interval does.
<1>11. a < d => L - p <= Block /\ L - p <= h + a
  <2> SUFFICES ASSUME a < d PROVE L - p <= Block /\ L - p <= h + a
    OBVIOUS
  <2>a. SourceLen \in Nat /\ d <= B
    BY <1>c, IvrAssumption
  <2>b. a = (IF SourceLen - D < d THEN SourceLen - D ELSE d)
    BY <1>10
  <2>1. a = SourceLen - D /\ a < B
    BY <2>a, <2>b
  <2>2. D >= Z
    <3> SUFFICES ASSUME D < Z PROVE FALSE
      OBVIOUS
    <3>1. Block * (q + n + 1) < Block * F
      BY <1>5, <1>7
    <3>2. q + n + 1 \in Nat
      OBVIOUS
    <3>3. Block * (q + n + 1 + 1) <= Block * F
      BY <3>1, <3>2, BlockStep
    <3>4. Block * (q + n + 1 + 1) = D + B
      <4>1. Block * (q + n + 1 + 1) = Block * (q + n + 1) + Block
        BY IvrAssumption
      <4> QED  BY <1>7, <1>a, <4>1
    <3>5. D + B <= Z
      BY <1>5, <3>3, <3>4
    <3> QED  BY <1>5, <2>1, <3>5, IvrAssumption
  <2>3. S + L <= SourceLen /\ S + L <= D + m
    BY <1>6, <1>a, <2>2, IvrAssumption
  <2> QED  BY <1>a, <1>b, <2>1, <2>3, IvrAssumption
<1>12. PICK c \in 0..m : c = Min({a, m}) /\ c = IF a <= m THEN a ELSE m
  <2>1. a \in Int /\ m \in Int
    BY <1>b
  <2> QED  BY <2>1, MinOf
<1>13. PICK t \in Seq(Nat) : t = SubSeq(f.buf, 1, c) /\ Len(t) = c /\ \A j \in 1..c : t[j] = f.buf[j]
  <2>1. 1 \in 1..Block /\ c \in 0..Block /\ f.buf \in [1..Block -> Nat]
    BY <1>10, <1>b, <1>c, IvrAssumption
  <2>2. PICK t : t = SubSeq(f.buf, 1, c)
    OBVIOUS
  <2>3. /\ t \in Seq(Nat) /\ Len(t) = (IF 1 <= c THEN c - 1 + 1 ELSE 0)
        /\ \A j \in 1..(c - 1 + 1) : t[j] = f.buf[1 + j - 1]
    BY <2>1, <2>2, CutOf DEF IsCut
  <2>4. Len(t) = c /\ \A j \in 1..c : t[j] = f.buf[j]
    BY <2>3
  <2> QED  BY <2>2, <2>3, <2>4
<1>14. PICK b : b = r.pend \o t \o Zeroes(Block - h - c)
  OBVIOUS
<1>15. /\ b \in [1..Block -> Nat]
       /\ \A i \in 1..h : b[i] = r.pend[i]
       /\ \A i \in 1..c : b[h + i] = t[i]
  <2>0. Len(r.pend) = h /\ Len(t) = c /\ r.pend \in Seq(Nat) /\ t \in Seq(Nat)
    BY <1>4, <1>13
  <2>a. h + c <= Block
    BY <1>b, <1>c
  <2>1. Len(r.pend) + Len(t) <= Block /\ b = r.pend \o t \o Zeroes(Block - Len(r.pend) - Len(t))
    BY <1>14, <2>0, <2>a
  <2>2. b \in [1..Block -> Nat]
    BY <2>0, <2>1, JoinOf
  <2>3. HasPart(b, 0, r.pend)
    BY <2>0, <2>1, JoinOf
  <2>4. HasPart(b, Len(r.pend), t)
    BY <2>0, <2>1, JoinOf
  <2>5. ASSUME NEW i \in 1..h PROVE b[i] = r.pend[i]
    <3>1. 0 + i = i
      OBVIOUS
    <3> QED  BY <2>0, <2>3, <3>1 DEF HasPart
  <2>6. \A i \in 1..c : b[h + i] = t[i]
    BY <2>0, <2>4 DEF HasPart
  <2> QED  BY <2>2, <2>5, <2>6
<1>16. \A i \in 1..(h + c) : b[i] = S + p + i
  <2> SUFFICES ASSUME NEW i \in 1..(h + c) PROVE b[i] = S + p + i
    OBVIOUS
  <2>1. CASE i <= h
    <3>1. i \in 1..h
      BY <2>1
    <3> QED  BY <1>4, <1>15, <1>d, <3>1
  <2>2. CASE ~(i <= h)
    <3>1. PICK j \in 1..c : i = h + j
      BY <2>2
    <3>2. b[i] = f.buf[j]
      BY <1>13, <1>15, <3>1
    <3>3. j \in 1..a
      BY <1>12, <3>1
    <3>4. f.buf[j] = D + j
      BY <1>10, <3>3 DEF HasBytes
    <3> QED  BY <1>e, <3>1, <3>2, <3>4
  <2> QED  BY <2>1, <2>2
<1>17. PICK g : g = Fill(r, f)
  OBVIOUS
<1>18. g.fill = h + c /\ g.buf = b /\ g.pend = SubSeq(f.buf, c + 1, a)
  <2>1. Block - h = m
    BY <1>b, <1>c
  <2>2. f.n = a /\ Len(r.pend) = h
    BY <1>4, <1>10
  <2>3. Min({f.n, Block - Len(r.pend)}) = c
    BY <1>12, <2>1, <2>2
  <2>4. Fill(r, f) = [fill |-> h + c, buf |-> b, pend |-> SubSeq(f.buf, c + 1, a)]
    BY <1>13, <1>14, <2>2, <2>3 DEF Fill
  <2> QED  BY <1>17, <2>4
<1>19. PICK x \in 0..Block : x = Final(r, g) /\ x = IF h + c > L - p THEN L - p ELSE h + c
  <2>1. Final(r, g) = IF h + c > L - p THEN L - p ELSE h + c
    BY <1>2, <1>18 DEF Final
  <2>2. (IF h + c > L - p THEN L - p ELSE h + c) \in 0..Block
    BY <1>b, <1>c
  <2> QED  BY <2>1, <2>2
<1>20. a = d \/ a < d
  <2>1. a <= d
    BY <1>10
  <2> QED  BY <2>1
<1>21. /\ x <= L - p
       /\ a < d \/ h + c > L - p \/ x < Block => x = L - p
  <2>1. x <= L - p
    BY <1>19
  <2>2. a < d => x = L - p
    BY <1>11, <1>12, <1>19, <1>b, <1>c
  <2>3. h + c > L - p => x = L - p
    BY <1>19
  <2>4. x < Block => x = L - p
    <3> SUFFICES ASSUME x < Block, a = d, ~(h + c > L - p) PROVE FALSE
      BY <1>20, <2>2, <2>3
    <3>1. x = h + c /\ c < m /\ c = a
      BY <1>12, <1>19, <1>b, <1>c
    <3>2. d = L - p
      BY <1>10, <3>1, <1>b, <1>c
    <3> QED  BY <3>1, <3>2, <1>b
  <2> QED  BY <2>1, <2>2, <2>3, <2>4
<1>22. ASSUME h + c = Block, ~(a < d), h + c < L - p
       PROVE  /\ g.pend \in Seq(Nat) /\ Len(g.pend) = h /\ f.fd = S + p + Block + h
              /\ \A j \in 1..h : g.pend[j] = S + p + Block + j
  <2>1. c = m /\ a = Block
    BY <1>10, <1>20, <1>22, <1>b, <1>c
  <2>2. m + 1 \in 1..Block /\ a \in 0..Block /\ f.buf \in [1..Block -> Nat]
    BY <1>10, <1>b, <1>c
  <2>3. PICK w : w = SubSeq(f.buf, m + 1, a) /\ w = g.pend
    BY <1>18, <2>1
  <2>4. /\ w \in Seq(Nat) /\ Len(w) = (IF m + 1 <= a THEN a - (m + 1) + 1 ELSE 0)
        /\ \A j \in 1..(a - (m + 1) + 1) : w[j] = f.buf[m + 1 + j - 1]
    <3>1. PICK lo \in 1..Block : lo = m + 1
      BY <2>2
    <3>2. IsCut(w, f.buf, lo, a)
      BY <2>2, <2>3, <3>1, CutOf
    <3> QED  BY <3>1, <3>2 DEF IsCut
  <2>5. a - (m + 1) + 1 = h /\ m + 1 <= a
    BY <2>1, <1>b, <1>c
  <2>6. ASSUME NEW j \in 1..h PROVE w[j] = S + p + Block + j
    <3>1. w[j] = f.buf[m + j]
      <4>1. m + 1 + j - 1 = m + j
        OBVIOUS
      <4> QED  BY <2>4, <2>5, <4>1
    <3>2. m + j \in 1..a
      BY <2>1, <1>b, <1>c
    <3>3. f.buf[m + j] = D + (m + j)
      BY <1>10, <3>2 DEF HasBytes
    <3> QED  BY <1>e, <1>b, <1>c, <3>1, <3>3
  <2>7. f.fd = S + p + Block + h
    BY <1>10, <1>e, <2>1, <1>c
  <2> QED  BY <2>3, <2>4, <2>5, <2>6, <2>7
<1>23. EndOf(r) = S + L
  <2>1. r.e \in Nat /\ r.e + 1 <= SourceLen /\ r.e + 1 = S + L
    BY <1>2, <1>6, <1>a, IvrAssumption
  <2> QED  BY <2>1, EndOfIs
<1>24. Round(r, g, f)
  <2>0. r.count = p /\ Size(r) = L /\ r.s = S
    BY <1>2, <1>d
  <2>a. r.s + r.count + Final(r, g) = S + p + x /\ Size(r) - r.count = L - p /\ Final(r, g) = x
    BY <1>19, <2>0
  <2>1. g.fill \in 0..Block /\ g.buf \in [1..Block -> Nat] /\ f.eof \in BOOLEAN
    <3>1. h + c \in 0..Block
      BY <1>b, <1>c
    <3>2. g.fill \in 0..Block
      BY <1>18, <3>1
    <3>3. g.buf \in [1..Block -> Nat]
      BY <1>15, <1>18
    <3>4. f.eof \in BOOLEAN
      BY <1>10
    <3> QED  BY <3>2, <3>3, <3>4
  <2>2. \A i \in 1..g.fill : g.buf[i] = r.s + r.count + i
    BY <1>2, <1>16, <1>18, <1>d
  <2>3. /\ r.s + r.count + Final(r, g) <= EndOf(r)
        /\ f.eof \/ g.fill > Size(r) - r.count => r.s + r.count + Final(r, g) = EndOf(r)
    <3>1. S + p + x <= S + L /\ (a < d \/ h + c > L - p => S + p + x = S + L)
      BY <1>21
    <3>2. (f.eof <=> a < d) /\ g.fill = h + c
      BY <1>10, <1>18
    <3> QED  BY <1>23, <2>a, <3>1, <3>2
  <2>4. /\ Final(r, g) < Block => r.s + r.count + Final(r, g) = EndOf(r)
        /\ Final(r, g) < Block /\ ~f.eof => Final(r, g) = Size(r) - r.count
    <3>1. x < Block => S + p + x = S + L /\ x = L - p
      BY <1>21
    <3> QED  BY <1>23, <2>a, <3>1
  <2>5. ASSUME g.fill = Block, ~f.eof, g.fill < Size(r) - r.count
        PROVE  /\ g.pend \in Seq(Nat) /\ Len(g.pend) = Ahead(r)
               /\ \A j \in 1..Ahead(r) : g.pend[j] = r.s + r.count + Block + j
               /\ f.fd = r.s + r.count + Block + Ahead(r)
    <3>1. h + c = Block /\ ~(a < d) /\ h + c < L - p
      BY <1>2, <1>10, <1>18, <2>5
    <3> QED  BY <1>2, <1>3, <1>22, <1>d, <3>1
  <2> QED  BY <2>1, <2>2, <2>3, <2>4, <2>5 DEF Round
<1> QED  BY <1>17, <1>24

\* The reader is opened: if the interval does not begin at a block, its bytes
\* in the first block become pending ones.
LEMMA OpenedReady ==
  ASSUME NEW i, DOMAIN i = Fields, i.s \in Nat, i.e \in Nat, i.s <= i.e, i.s < SourceLen,
         i.kind \in {"local", "imported"}, Readable(i), i.todo \in Nat \ {0}, Remaining(i, <<>>),
         i.count = 0, i.found = {}, i.eof = FALSE, out = <<>>,
         NEW r0, r0 = First(i, 0), NEW r, r = Opened(r0, Fetch(r0, 0))
  PROVE  Ready(r, out) /\ Behind(r) /\ SameInterval(r, i) /\ r.st = i.st /\ r.short = FALSE
<1>1. PICK q \in Nat, m \in 0..(Block - 1) : q = i.s \div Block /\ m = i.s % Block /\ i.s = Block * q + m
  BY QuotRem
<1>a. PICK B \in Nat \ {0} : B = Block
  BY IvrAssumption
<1>b. PICK Y \in Nat : Y = Block * q /\ Y = q * Block
  BY <1>1, <1>a
<1>c. PICK S \in Nat : S = i.s
  OBVIOUS
<1>2. S = i.s /\ Y = Block * q /\ B = Block /\ S = Y + m /\ Y = q * Block
  BY <1>1, <1>a, <1>b, <1>c
<1>3. /\ DOMAIN r0 = Fields /\ SameInterval(r0, i) /\ r0.st = i.st /\ r0.short = FALSE
      /\ r0.todo = i.todo /\ r0.count = 0 /\ r0.found = {} /\ r0.eof = FALSE
      /\ r0.cur = q /\ r0.fd = Y
  <2>1. r0 = [i EXCEPT !.short = FALSE, !.cur = q, !.fd = Y]
    <3>1. (0 > 0) = FALSE
      OBVIOUS
    <3> QED  BY <1>1, <1>2, <3>1 DEF First
  <2> QED  BY <2>1 DEF Fields, SameInterval
<1>4. PICK f : f = Fetch(r0, 0)
  OBVIOUS
<1>5. (Aligned(r0) <=> m = 0) /\ (Aligned(i) <=> m = 0)
  <2>1. r0.s = i.s
    BY <1>3 DEF SameInterval
  <2>2. (i.s % Block = 0) <=> m = 0
    <3>1. m = i.s % Block
      BY <1>1
    <3> QED  BY <3>1, Zenon
  <2> QED  BY <2>1, <2>2 DEF Aligned
<1>6. /\ DOMAIN r = Fields /\ SameInterval(r, i) /\ r.st = i.st /\ r.short = FALSE
      /\ r.todo = i.todo /\ r.count = 0 /\ r.found = {} /\ r.init = TRUE /\ r.cur = q
      /\ m = 0 => r.fd = Y /\ r.eof = FALSE
      /\ m # 0 => r.fd = f.fd /\ r.eof = f.eof /\ r.pend = SubSeq(f.buf, m + 1, Block)
  <2>1. CASE m = 0
    <3>1. r = [r0 EXCEPT !.init = TRUE, !.open = TRUE]
      BY <1>5, <2>1 DEF Opened
    <3> QED  BY <1>3, <2>1, <3>1 DEF Fields, SameInterval
  <2>2. CASE m # 0
    <3>1. r = [r0 EXCEPT !.init = TRUE, !.open = TRUE, !.fd = f.fd, !.eof = f.eof,
                         !.pend = SubSeq(f.buf, (r0.s % Block) + 1, Block)]
      BY <1>4, <1>5, <2>2 DEF Opened
    <3>2. r0.s % Block = m
      BY <1>1, <1>3 DEF SameInterval
    <3> QED  BY <1>3, <2>2, <3>1, <3>2 DEF Fields, SameInterval
  <2> QED  BY <2>1, <2>2
<1>7. r.s = S /\ r.e = i.e /\ r.kind = i.kind /\ (Aligned(r) <=> m = 0)
  BY <1>1, <1>2, <1>6 DEF SameInterval, Aligned
\* The block which is read in advance is full.
<1>8. ASSUME m # 0
      PROVE  f.fd = Y + B /\ f.eof = FALSE /\ f.buf \in [1..Block -> Nat] /\ HasBytes(f.buf, Y, Block)
  <2>1. i.kind = "local" /\ i.e - i.s + 1 >= Block /\ i.e < SourceLen
        /\ i.e < (SourceLen \div Block) * Block + (i.s % Block)
    BY <1>5, <1>8 DEF Readable
  <2>2. PICK F \in Nat : F = SourceLen \div Block /\ Block * F <= SourceLen
    <3>1. SourceLen \in Nat
      BY IvrAssumption
    <3>2. /\ SourceLen \div Block \in Nat /\ SourceLen % Block \in 0..(Block - 1)
          /\ SourceLen = Block * (SourceLen \div Block) + (SourceLen % Block)
      BY <3>1, QuotRem
    <3> QED  BY <3>2, <1>a
  <2>3. PICK Z \in Nat : Z = Block * F /\ Z = F * Block
    BY <1>a
  <2>4. Y < Z
    <3>1. i.e < Z + m
      BY <1>1, <2>1, <2>2, <2>3
    <3> QED  BY <1>2, <3>1
  <2>5. Y + B <= Z /\ Z <= SourceLen
    <3>1. Block * (q + 1) <= Block * F
      BY <1>b, <2>3, <2>4, BlockStep
    <3>2. Block * (q + 1) = Y + B
      BY <1>a, <1>b
    <3> QED  BY <2>2, <2>3, <3>1, <3>2
  <2>6. r0.kind = "local" /\ ~(r0.cur * Block > r0.e) /\ r0.fd = Y /\ Left(r0) = i.e - S + 1
        /\ r0.e - r0.s + 1 - r0.count = Left(r0)
    <3>1. r0.s = S /\ r0.e = i.e /\ r0.kind = i.kind
      BY <1>2, <1>3 DEF SameInterval
    <3>2. r0.cur * Block = Y /\ Y <= S /\ S <= i.e
      BY <1>2, <1>3
    <3> QED  BY <1>3, <2>1, <3>1, <3>2 DEF Left
  <2>7. Left(r0) \in Nat \ {0} /\ Left(r0) >= Block
    BY <1>2, <2>1, <2>6
  <2>8. PICK d, a \in 0..Block : Piece(r0, f, d, a)
    <3>1. r0.fd \in Nat /\ r0.fd <= SourceLen
      BY <2>5, <2>6, IvrAssumption
    <3> QED  BY <1>4, <2>6, <2>7, <3>1, LocalFetch
  <2>9. d = Block
    BY <2>7, <2>8 DEF Piece
  <2>10. a = Block
    <3>1. a = IF SourceLen - Y < d THEN SourceLen - Y ELSE d
      BY <2>6, <2>8 DEF Piece
    <3> QED  BY <1>a, <2>5, <2>9, <3>1, IvrAssumption
  <2> QED  BY <1>a, <2>6, <2>8, <2>9, <2>10 DEF Piece
<1>9. ASSUME m # 0
      PROVE  /\ r.fd = S + Ahead(r) /\ r.pend \in Seq(Nat) /\ Len(r.pend) = Ahead(r)
             /\ \A j \in 1..Ahead(r) : r.pend[j] = S + j
  <2>1. PICK h \in 1..(Block - 1) : h = Ahead(r) /\ h = Block - m
    <3>1. r.s % Block = m
      BY <1>1, <1>6 DEF SameInterval
    <3> QED  BY <1>9, <1>a, <3>1 DEF Ahead
  <2>2. PICK lo \in 1..Block : lo = m + 1
    BY <1>a
  <2>3. PICK w : w = SubSeq(f.buf, lo, Block) /\ w = r.pend
    BY <1>6, <1>9, <2>2
  <2>4. /\ w \in Seq(Nat) /\ Len(w) = (IF lo <= Block THEN Block - lo + 1 ELSE 0)
        /\ \A j \in 1..(Block - lo + 1) : w[j] = f.buf[lo + j - 1]
    <3>1. f.buf \in [1..Block -> Nat]
      BY <1>8, <1>9
    <3>2. PICK hi \in 0..Block : hi = Block
      BY <1>a
    <3>3. PICK v \in [1..Block -> Nat] : v = f.buf
      BY <3>1
    <3>4. w = SubSeq(v, lo, hi)
      BY <2>3, <3>2, <3>3
    <3>5. IsCut(w, v, lo, hi)
      BY <3>4, CutOf
    <3> QED  BY <3>2, <3>3, <3>5 DEF IsCut
  <2>5. Block - lo + 1 = h /\ lo <= Block
    BY <1>a, <2>1, <2>2
  <2>6. ASSUME NEW j \in 1..h PROVE w[j] = S + j
    <3>1. w[j] = f.buf[m + j]
      <4>1. lo + j - 1 = m + j
        BY <2>2
      <4> QED  BY <2>4, <2>5, <4>1
    <3>2. m + j \in 1..Block
      BY <1>a, <2>1
    <3>3. f.buf[m + j] = Y + (m + j)
      BY <1>8, <1>9, <3>2 DEF HasBytes
    <3> QED  BY <1>2, <3>1, <3>3
  <2>7. r.fd = S + h
    <3>1. r.fd = Y + B
      BY <1>6, <1>8, <1>9
    <3>2. S = Y + m /\ B = Block
      BY <1>2
    <3> HIDE <1>b
    <3> QED  BY <2>1, <3>1, <3>2
  <2> QED  BY <2>1, <2>3, <2>4, <2>5, <2>6, <2>7
<1>10. Behind(r)
  BY <1>6, <1>7, <1>9, <1>2 DEF Behind
<1>11. Ready(r, out)
  <2>1. r.s + r.count <= EndOf(r)
    <3>1. EndOf(r) = IF r.e + 1 <= SourceLen THEN r.e + 1 ELSE SourceLen
      BY <1>7, EndOfIs
    <3> QED  BY <1>6, <1>7, <1>c, <3>1, IvrAssumption
  <2>2. r.eof = FALSE
    BY <1>6, <1>8
  <2>3. Remaining(r, out)
    <3>1. Size(r) = Size(i)
      BY <1>7, <1>c DEF Size
    <3> QED  BY <1>6, <3>1 DEF Remaining
  <2>4. out \in Seq([1..Block -> Nat]) /\ Len(out) = 0
    OBVIOUS
  <2>5. r.count = Block * Len(out) /\ r.cur = (r.s \div Block) + Len(out)
    <3>1. Block * 0 = 0
      BY <1>a
    <3>2. r.s \div Block = q
      BY <1>1, <1>6 DEF SameInterval
    <3> QED  BY <1>6, <2>4, <3>1, <3>2
  <2> QED  BY <1>6, <1>7, <1>c, <2>1, <2>2, <2>3, <2>4, <2>5 DEF Ready
<1> QED  BY <1>6, <1>10, <1>11

LEMMA AnyRound ==
  ASSUME NEW r, Ready(r, out), Behind(r), Readable(r), r.kind \in {"local", "imported"},
         NEW f, f = Fetch(r, 0)
  PROVE  Round(r, Fill(r, f), f)
<1>1. CASE r.kind = "imported"
  <2>1. Aligned(r) /\ r.e < SourceLen
    BY <1>1 DEF Readable
  <2> QED  BY <1>1, <2>1, RoundImported
<1>2. CASE r.kind = "local" /\ Aligned(r)
  BY <1>2, RoundAligned
<1>3. CASE r.kind = "local" /\ ~Aligned(r)
  BY <1>3, RoundPending
<1> QED  BY <1>1, <1>2, <1>3

\* What no round changes.
LEMMA DeliverFrame ==
  ASSUME NEW r, NEW g, NEW f, DOMAIN r = Fields, Deliver(r, g, f)
  PROVE  /\ DOMAIN ivr' = Fields /\ SameInterval(ivr', r) /\ ivr'.st = r.st /\ ivr'.short = r.short
         /\ ivr'.init = r.init
<1>1. PICK a, b, c, d, h : ivr' = [r EXCEPT !.pend = g.pend, !.fd = a, !.eof = b, !.count = c,
                                            !.found = d, !.todo = h]
  BY DEF Deliver
<1> QED  BY <1>1 DEF Fields, SameInterval

\* The invariant is about these fields only.
SameReader(r, q) ==
  /\ SameInterval(r, q) /\ r.todo = q.todo /\ r.eof = q.eof /\ r.init = q.init /\ r.count = q.count
  /\ r.found = q.found /\ r.pend = q.pend /\ r.cur = q.cur /\ r.fd = q.fd

LEMMA SameCopy ==
  ASSUME NEW r, NEW q, NEW w, SameReader(r, q), Copy(q, w)
  PROVE  Copy(r, w) /\ Readable(r) = Readable(q)
<1>1. /\ \A k : Expected(r, k) = Expected(q, k)
      /\ Aligned(r) = Aligned(q) /\ Size(r) = Size(q) /\ Ahead(r) = Ahead(q)
      /\ EndOf(r) = EndOf(q) /\ Readable(r) = Readable(q)
  BY SameExpected DEF SameReader
<1>2. Remaining(r, w) = Remaining(q, w)
  BY <1>1 DEF SameReader, Remaining
<1>3. Written(q, w) => Written(r, w)
  BY <1>1 DEF SameReader, SameInterval, Written
<1>4. Positioned(q, w) => Positioned(r, w)
  BY <1>1 DEF SameReader, SameInterval, Positioned, Behind
<1>5. Size(r) = Size(q) /\ r.todo = q.todo /\ r.eof = q.eof /\ r.init = q.init /\ r.count = q.count
      /\ r.found = q.found /\ r.pend = q.pend /\ r.z = q.z
  BY <1>1 DEF SameReader, SameInterval
<1> QED  BY <1>1, <1>2, <1>3, <1>4, <1>5 DEF Copy

LEMMA IvrInvNew ==
  ASSUME IvrInv, NEW kind \in {"local", "imported"}, NEW s \in 0..(SourceLen - 1), NEW n \in 1..SourceLen,
         NEW z \in ZeroKinds, NEW src \in BOOLEAN, NEW ms,
         iso_interval_reader_new(kind, s, s + n - 1, z, src, ms)
  PROVE  IvrInv'
<1>1. ivr = NoReader /\ out = <<>> /\ out' = out
  BY DEF iso_interval_reader_new, IvrInv
<1>2. PICK st, e, t : /\ st = (IF kind = "imported" /\ ~src THEN "failed" ELSE "new") /\ e = s + n - 1
                      /\ t = (e - s + 1 + Block - 1) \div Block
                      /\ ivr' = [NoReader EXCEPT !.st = st, !.kind = kind, !.s = s, !.e = e, !.z = z,
                                                 !.msblock = ms, !.todo = t]
  BY DEF iso_interval_reader_new
<1>3. /\ DOMAIN ivr' = Fields /\ ivr'.st = st /\ ivr'.kind = kind /\ ivr'.s = s /\ ivr'.e = e /\ ivr'.todo = t
      /\ ivr'.init = FALSE /\ ivr'.eof = FALSE /\ ivr'.count = 0 /\ ivr'.found = {} /\ ivr'.pend = <<>>
      /\ ivr'.short = FALSE
  BY <1>2 DEF NoReader, Fields
<1>4. s \in Nat /\ e \in Nat /\ s <= e /\ s < SourceLen /\ st \in {"failed", "new"}
  BY <1>2, IvrAssumption
<1>5. t \in Nat /\ Block * t < n + Block /\ Size(ivr') = n
  <2>1. e - s + 1 = n /\ n \in Nat \ {0} /\ e - s + 1 + Block - 1 = n + Block - 1
    BY <1>2, IvrAssumption
  <2>2. t = (n + Block - 1) \div Block
    BY <1>2, <2>1
  <2> QED  BY <1>3, <2>1, <2>2, BlocksOf DEF Size
<1>6. Copy(ivr', out')
  <2>1. Len(out') = 0 /\ 0 + t = t
    BY <1>1, <1>5
  <2>2. Remaining(ivr', out')
    BY <1>3, <1>5, <2>1 DEF Remaining
  <2>3. ivr'.count \in Nat /\ ivr'.count <= Size(ivr') /\ ivr'.eof \in BOOLEAN /\ ivr'.init \in BOOLEAN
    <3>1. 0 <= n
      OBVIOUS
    <3>2. FALSE \in BOOLEAN /\ 0 \in Nat
      OBVIOUS
    <3> QED  BY <1>3, <1>5, <3>1, <3>2
  <2> QED  BY <1>1, <1>3, <2>2, <2>3 DEF Copy
<1> QED  BY <1>3, <1>4, <1>6 DEF IvrInv

\* Steps that only change the state of the reader.
LEMMA IvrInvMode ==
  ASSUME IvrInv, ivr.st \in {"new", "read"}, UNCHANGED out,
         ivr'.st \in {"read", "failed", "kept", "done"}, DOMAIN ivr' = Fields, SameInterval(ivr', ivr),
         ivr'.short = ivr.short, ivr'.init = ivr.init, ivr'.st # "failed" => SameReader(ivr', ivr)
  PROVE  IvrInv'
<1>2. /\ DOMAIN ivr' = Fields /\ SameInterval(ivr', ivr) /\ ivr'.short = ivr.short
      /\ ivr'.init = ivr.init
      /\ ivr'.st # "failed" => SameReader(ivr', ivr)
  OBVIOUS
<1>3. /\ ivr'.s \in Nat /\ ivr'.e \in Nat /\ ivr'.s <= ivr'.e /\ ivr'.s < SourceLen
      /\ ivr'.kind \in {"local", "imported"}
  BY <1>2 DEF IvrInv, SameInterval
<1>4. ASSUME ivr'.st \in {"new", "read", "done"}, ~ivr'.short, Readable(ivr') PROVE Copy(ivr', out')
  <2>1. SameReader(ivr', ivr) /\ ~ivr.short
    BY <1>2, <1>4
  <2>2. Readable(ivr') = Readable(ivr)
    BY <2>1, SameExpected DEF SameReader
  <2>3. Copy(ivr, out)
    BY <1>4, <2>1, <2>2 DEF IvrInv
  <2> QED  BY <2>1, <2>3, SameCopy
<1> QED  BY <1>2, <1>3, <1>4 DEF IvrInv

\* A block after the end of input.
LEMMA IvrInvPad ==
  ASSUME IvrInv, ivr.st = "read", ivr.todo > 0, ivr.eof,
         ivr' = [ivr EXCEPT !.todo = @ - 1], out' = Append(out, Zeroes(Block))
  PROVE  IvrInv'
<1>1. DOMAIN ivr = Fields
  BY DEF IvrInv
<1>2. /\ DOMAIN ivr' = Fields /\ ivr'.st = ivr.st /\ SameInterval(ivr', ivr) /\ ivr'.short = ivr.short
      /\ ivr'.todo = ivr.todo - 1 /\ ivr'.eof = ivr.eof /\ ivr'.init = ivr.init
      /\ ivr'.count = ivr.count /\ ivr'.found = ivr.found
  BY <1>1 DEF Fields, SameInterval
<1>3. /\ ivr'.s \in Nat /\ ivr'.e \in Nat /\ ivr'.s <= ivr'.e /\ ivr'.s < SourceLen
      /\ ivr'.kind \in {"local", "imported"}
  BY <1>2 DEF IvrInv, SameInterval
<1>4. ASSUME ~ivr'.short, Readable(ivr') PROVE Copy(ivr', out')
  <2>1. /\ \A k : Expected(ivr', k) = Expected(ivr, k)
        /\ Size(ivr') = Size(ivr) /\ EndOf(ivr') = EndOf(ivr) /\ Readable(ivr') = Readable(ivr)
    BY <1>2, SameExpected
  <2>2. Copy(ivr, out)
    BY <1>2, <1>4, <2>1 DEF IvrInv
  <2>3. /\ ivr.init = TRUE /\ Len(out) > 0 /\ Written(ivr, out) /\ ivr.found = ivr.z \intersect {2, 3}
        /\ ivr.count \in Nat /\ ivr.count <= Size(ivr) /\ ivr.todo \in Nat \ {0} /\ Remaining(ivr, out)
        /\ ivr.eof = TRUE
    BY <2>2 DEF Copy, Remaining
  <2>4. PICK n \in Nat : n = Len(out) /\ out \in Seq([1..Block -> Nat])
    BY <2>3 DEF Written
  <2>5. /\ out' \in Seq([1..Block -> Nat]) /\ Len(out') = n + 1
        /\ out'[n + 1] = Zeroes(Block) /\ \A k \in 1..n : out'[k] = out[k]
    <3>1. Zeroes(Block) \in [1..Block -> Nat]
      BY DEF Zeroes
    <3> HIDE DEF Zeroes
    <3> QED  BY <2>4, <3>1
  <2>6. PICK p \in Nat : p = Block * n /\ Block * (n + 1) = p + Block /\ p = n * Block
    BY IvrAssumption
  <2>7. ASSUME NEW i \in 1..Block PROVE Expected(ivr, p + i) = 0
    <3>1. PICK E \in Int, S \in Nat, c \in Nat : E = EndOf(ivr) /\ S = ivr.s /\ c = ivr.count
                                                 /\ S + c = E /\ c <= p
      <4>1. EndOf(ivr) \in Int
        BY <1>2, <1>3, EndOfIs DEF SameInterval
      <4>2. ivr.s \in Nat
        BY DEF IvrInv
      <4> QED  BY <2>3, <2>4, <2>6, <4>1, <4>2 DEF Written
    <3>2. S + (p + i) > E
      BY <3>1
    <3> QED  BY <3>1, <3>2 DEF Expected, EndOf
  <2>8. Written(ivr', out')
    <3>1. ASSUME NEW k \in 1..Len(out'), NEW i \in 1..Block
          PROVE  out'[k][i] = Expected(ivr', (k - 1) * Block + i)
      <4>1. CASE k = n + 1
        <5>1. (k - 1) * Block = p
          BY <2>6, <4>1
        <5>2. Zeroes(Block)[i] = 0
          BY DEF Zeroes
        <5>3. out'[k][i] = 0
          BY <2>5, <4>1, <5>2, Zenon
        <5>4. Expected(ivr', p + i) = 0
          BY <2>1, <2>7, Zenon
        <5> QED  BY <5>1, <5>3, <5>4
      <4>2. CASE k # n + 1
        <5>1. k \in 1..n
          BY <2>5, <4>2
        <5>2. out[k][i] = Expected(ivr, (k - 1) * Block + i)
          BY <2>3, <2>4, <5>1 DEF Written
        <5>3. out'[k] = out[k]
          BY <2>5, <5>1
        <5> QED  BY <2>1, <5>2, <5>3
      <4> QED  BY <4>1, <4>2
    <3>2. ivr'.count <= Block * Len(out')
      BY <1>2, <2>3, <2>4, <2>5, <2>6, IvrAssumption DEF Written
    <3>3. ivr'.s + ivr'.count <= EndOf(ivr') /\ (ivr'.eof => ivr'.s + ivr'.count = EndOf(ivr'))
      BY <1>2, <2>1, <2>3 DEF Written, SameInterval
    <3> QED  BY <2>5, <3>1, <3>2, <3>3 DEF Written
  <2>9. Remaining(ivr', out')
    <3>1. n + 1 + (ivr.todo - 1) = n + ivr.todo /\ ivr.todo - 1 \in Nat
      BY <2>3
    <3> QED  BY <1>2, <2>1, <2>3, <2>4, <2>5, <3>1 DEF Remaining
  <2>10. /\ ivr'.init = TRUE /\ ivr'.eof = TRUE /\ ivr'.found = ivr'.z \intersect {2, 3}
         /\ ivr'.count \in Nat /\ ivr'.count <= Size(ivr') /\ Len(out') > 0
    <3>1. ivr'.z = ivr.z /\ Len(out') > 0
      BY <1>2, <2>4, <2>5 DEF SameInterval
    <3> QED  BY <1>2, <2>1, <2>3, <3>1
  <2> QED  BY <2>8, <2>9, <2>10 DEF Copy
<1> QED  BY <1>2, <1>3, <1>4 DEF IvrInv

\* A block of the interval.
LEMMA IvrInvRound ==
  ASSUME IvrInv, ivr.st = "read", NEW r, NEW f, DOMAIN r = Fields, SameInterval(r, ivr), r.st = ivr.st,
         r.init = TRUE,
         Deliver(r, Fill(r, f), f),
         ~r.short /\ Readable(r) => Ready(r, out) /\ Behind(r) /\ f = Fetch(r, 0)
  PROVE  IvrInv'
<1>1. /\ DOMAIN ivr' = Fields /\ SameInterval(ivr', r) /\ ivr'.st = "read" /\ ivr'.short = r.short
      /\ ivr'.init = TRUE
  BY DeliverFrame
<1>2. r.s = ivr.s /\ r.e = ivr.e /\ r.kind = ivr.kind /\ ivr'.s = r.s /\ ivr'.e = r.e /\ ivr'.kind = r.kind
  BY <1>1 DEF SameInterval
<1>3. /\ ivr'.s \in Nat /\ ivr'.e \in Nat /\ ivr'.s <= ivr'.e /\ ivr'.s < SourceLen
      /\ ivr'.kind \in {"local", "imported"}
  BY <1>2 DEF IvrInv
<1>4. ASSUME ~ivr'.short, Readable(ivr') PROVE Copy(ivr', out')
  <2>1. ~r.short /\ Readable(r)
    BY <1>1, <1>4, SameExpected
  <2>2. Round(r, Fill(r, f), f)
    BY <1>2, <1>3, <2>1, AnyRound
  <2> QED  BY <2>1, <2>2, DeliverCopies
<1> QED  BY <1>1, <1>3, <1>4 DEF IvrInv

LEMMA IvrInvRead ==
  ASSUME IvrInv, NEW cut \in {0, 1}, iso_interval_reader_read(cut)
  PROVE  IvrInv'
<1>0. /\ ivr.st = "read" /\ ivr.todo > 0 /\ DOMAIN ivr = Fields
      /\ ivr.s \in Nat /\ ivr.e \in Nat /\ ivr.s <= ivr.e /\ ivr.s < SourceLen
      /\ ivr.kind \in {"local", "imported"}
  BY DEF iso_interval_reader_read, IvrInv
<1>a. cut > 0 \/ cut = 0
  OBVIOUS
<1>1. CASE ivr.eof
  BY <1>0, <1>1, IvrInvPad DEF iso_interval_reader_read
<1>2. CASE ~ivr.eof /\ ivr.init
  <2>1. PICK r, f : /\ r = [ivr EXCEPT !.cur = @ + 1, !.short = @ \/ cut > 0] /\ f = Fetch(r, cut)
                    /\ Deliver(r, Fill(r, f), f)
    BY <1>2 DEF iso_interval_reader_read
  <2>2. /\ DOMAIN r = Fields /\ SameInterval(r, ivr) /\ r.st = ivr.st /\ r.cur = ivr.cur + 1
        /\ r.count = ivr.count /\ r.todo = ivr.todo /\ r.found = ivr.found /\ r.init = ivr.init
        /\ r.eof = ivr.eof /\ r.pend = ivr.pend /\ r.fd = ivr.fd
    BY <1>0, <2>1 DEF Fields, SameInterval
  <2>3. ~r.short => ~ivr.short /\ cut = 0
    <3>1. PICK b : b = (ivr.short \/ cut > 0)
      OBVIOUS
    <3>2. r.short = b
      BY <1>0, <2>1, <3>1 DEF Fields
    <3>3. ~b => ~ivr.short /\ cut = 0
      BY <1>a, <3>1
    <3> QED  BY <3>2, <3>3
  <2>4. ASSUME ~r.short, Readable(r) PROVE Ready(r, out) /\ Behind(r) /\ f = Fetch(r, 0)
    <3>1. /\ \A k : Expected(r, k) = Expected(ivr, k)
          /\ Aligned(r) = Aligned(ivr) /\ Size(r) = Size(ivr) /\ Ahead(r) = Ahead(ivr)
          /\ EndOf(r) = EndOf(ivr) /\ Readable(r) = Readable(ivr)
      BY <2>2, SameExpected
    <3>2. Copy(ivr, out)
      BY <1>0, <2>3, <2>4, <3>1 DEF IvrInv
    <3>3. /\ Remaining(ivr, out) /\ ivr.todo \in Nat \ {0} /\ Written(ivr, out) /\ Positioned(ivr, out)
          /\ ivr.found = ivr.z \intersect {2, 3} /\ ivr.init = TRUE /\ ivr.eof = FALSE
          /\ Len(out) > 0 /\ ivr.count \in Nat
      BY <1>0, <1>2, <3>2 DEF Copy, Remaining
    <3>4. Behind(r)
      BY <2>2, <3>1, <3>3 DEF Positioned, Behind, SameInterval
    <3>5. r.cur = (r.s \div Block) + Len(out)
      <4>1. PICK q \in Nat : q = ivr.s \div Block
        BY <1>0, QuotRem
      <4>2. Len(out) \in Nat
        BY <3>3 DEF Written
      <4> QED  BY <2>2, <3>3, <4>1, <4>2 DEF Positioned, SameInterval
    <3>6. r.count # 0
      BY <2>2, <3>3, IvrAssumption DEF Positioned, Written
    <3>7. Remaining(r, out)
      BY <2>2, <3>1, <3>3 DEF Remaining
    <3>8. /\ out \in Seq([1..Block -> Nat])
          /\ \A b \in 1..Len(out), i \in 1..Block : out[b][i] = Expected(r, (b - 1) * Block + i)
          /\ r.s + r.count <= EndOf(r) /\ r.count = Block * Len(out)
      BY <2>2, <3>1, <3>3 DEF Written, Positioned, SameInterval
    <3>9. r.s \in Nat /\ r.e \in Nat /\ r.s <= r.e /\ r.found = r.z \intersect {2, 3}
      BY <1>0, <2>2, <3>3 DEF SameInterval
    <3>10. Ready(r, out)
      BY <2>2, <3>3, <3>5, <3>6, <3>7, <3>8, <3>9 DEF Ready
    <3> QED  BY <2>1, <2>3, <2>4, <3>4, <3>10
  <2>5. r.init = TRUE
    BY <1>2, <2>2
  <2> QED  BY <1>0, <2>1, <2>2, <2>4, <2>5, IvrInvRound
<1>3. CASE ~ivr.eof /\ ~ivr.init
  <2>1. PICK r0, r, f : /\ r0 = First(ivr, cut) /\ r = Opened(r0, Fetch(r0, cut)) /\ f = Fetch(r, cut)
                        /\ Deliver(r, Fill(r, f), f)
    BY <1>3 DEF iso_interval_reader_read
  <2>2. DOMAIN r0 = Fields /\ SameInterval(r0, ivr) /\ r0.st = ivr.st /\ (~r0.short => cut = 0)
    <3>1. PICK b : b = (cut > 0)
      OBVIOUS
    <3>2. r0 = [ivr EXCEPT !.short = b, !.cur = ivr.s \div Block, !.fd = (ivr.s \div Block) * Block]
      BY <2>1, <3>1 DEF First
    <3>3. ~b => cut = 0
      BY <1>a, <3>1
    <3> QED  BY <1>0, <3>2, <3>3 DEF Fields, SameInterval
  <2>3. DOMAIN r = Fields /\ SameInterval(r, ivr) /\ r.st = ivr.st /\ r.short = r0.short
    BY <2>1, <2>2 DEF Opened, Fields, SameInterval
  <2>4. ASSUME ~r.short, Readable(r) PROVE Ready(r, out) /\ Behind(r) /\ f = Fetch(r, 0)
    <3>1. cut = 0 /\ Readable(ivr)
      BY <2>2, <2>3, <2>4, SameExpected
    <3>2. Copy(ivr, out)
      BY <1>0, <1>3, <3>1 DEF IvrInv
    <3>3. /\ ivr.todo \in Nat \ {0} /\ Remaining(ivr, <<>>) /\ ivr.count = 0 /\ ivr.found = {}
          /\ ivr.eof = FALSE /\ out = <<>>
      BY <1>0, <1>3, <3>2 DEF Copy, Remaining
    <3>4. r0 = First(ivr, 0) /\ r = Opened(r0, Fetch(r0, 0)) /\ f = Fetch(r, 0)
      BY <2>1, <3>1
    <3> QED  BY <1>0, <3>1, <3>3, <3>4, OpenedReady
  <2>5. r.init = TRUE
    BY <2>1, <2>2 DEF Opened, Fields
  <2> QED  BY <1>0, <2>1, <2>3, <2>4, <2>5, IvrInvRound
<1> QED  BY <1>1, <1>2, <1>3

LEMMA IvrInvInit == IvrInit => IvrInv
  BY DEF IvrInit, IvrInv, NoReader, Fields

LEMMA IvrInvStep == IvrInv /\ [IvrNext]_ivars => IvrInv'
<1> SUFFICES ASSUME IvrInv, [IvrNext]_ivars PROVE IvrInv'
  OBVIOUS
<1>0. DOMAIN ivr = Fields
  BY DEF IvrInv
<1>1. ASSUME NEW kind \in {"local", "imported"}, NEW s \in 0..(SourceLen - 1), NEW n \in 1..SourceLen,
             NEW z \in ZeroKinds, NEW src \in BOOLEAN, NEW ms \in {0, 2, 20},
             iso_interval_reader_new(kind, s, s + n - 1, z, src, ms)
      PROVE  IvrInv'
  BY <1>1, IvrInvNew
<1>2. CASE iso_interval_reader_keep
  <2>1. PICK st \in {"read", "failed", "kept"} : ivr' = [ivr EXCEPT !.st = st]
    BY <1>2 DEF iso_interval_reader_keep
  <2>2. /\ DOMAIN ivr' = Fields /\ ivr'.st = st /\ SameInterval(ivr', ivr) /\ ivr'.short = ivr.short
        /\ ivr'.init = ivr.init /\ SameReader(ivr', ivr)
    BY <1>0, <2>1 DEF Fields, SameInterval, SameReader
  <2>3. ivr.st = "new" /\ UNCHANGED out
    BY <1>2 DEF iso_interval_reader_keep
  <2> QED  BY <2>2, <2>3, IvrInvMode
<1>3. ASSUME NEW cut \in {0, 1}, iso_interval_reader_read(cut) PROVE IvrInv'
  BY <1>3, IvrInvRead
<1>4. CASE IvrOpenFails
  <2>1. ivr' = [ivr EXCEPT !.st = "failed", !.eof = TRUE] /\ ivr.st = "read" /\ UNCHANGED out
    BY <1>4 DEF IvrOpenFails
  <2>2. /\ DOMAIN ivr' = Fields /\ ivr'.st = "failed" /\ SameInterval(ivr', ivr)
        /\ ivr'.short = ivr.short /\ ivr'.init = ivr.init
    BY <1>0, <2>1 DEF Fields, SameInterval
  <2> QED  BY <2>1, <2>2, IvrInvMode
<1>5. CASE iso_interval_reader_destroy
  <2>1. ivr' = [ivr EXCEPT !.st = "done", !.open = FALSE] /\ ivr.st = "read" /\ UNCHANGED out
    BY <1>5 DEF iso_interval_reader_destroy
  <2>2. /\ DOMAIN ivr' = Fields /\ ivr'.st = "done" /\ SameInterval(ivr', ivr)
        /\ ivr'.short = ivr.short /\ ivr'.init = ivr.init /\ SameReader(ivr', ivr)
    BY <1>0, <2>1 DEF Fields, SameInterval, SameReader
  <2> QED  BY <2>1, <2>2, IvrInvMode
<1>6. CASE UNCHANGED ivars
  BY <1>6 DEF ivars, IvrInv
<1> QED  BY <1>1, <1>2, <1>3, <1>4, <1>5, <1>6 DEF IvrNext

\* A partition which the interval reader copied has exactly the bytes of its
\* interval, blanked where the zeroizers demand and padded with zeros.
THEOREM IntervalsCopied == IvrSpec => []IntervalCopied
<1>1. IvrInv => IntervalCopied
  <2> SUFFICES ASSUME IvrInv, ivr.st = "done", ~ivr.short, Readable(ivr)
               PROVE  \A b \in 1..Len(out), i \in 1..Block : out[b][i] = Expected(ivr, (b - 1) * Block + i)
    BY DEF IntervalCopied
  <2>1. Copy(ivr, out)
    BY DEF IvrInv
  <2>2. CASE ivr.init
    BY <2>1, <2>2 DEF Copy, Written
  <2>3. CASE ~ivr.init
    BY <2>1, <2>3 DEF Copy
  <2> QED  BY <2>2, <2>3
<1> QED  BY <1>1, IvrInvInit, IvrInvStep, PTL DEF IvrSpec

-----------------------------------------------------------------------------
(* The boot catalog, written and read back.                                 *)

\* A boot image with its attributes, as the setters may leave it.

Images == [file : DOMAIN Files \union {NoFile}, app : Nat, type : 0..4, ptype : Nat, boot : BOOLEAN,
           seg : Int, size : Int, full : BOOLEAN, plat : Nat, id : Nat, crit : Nat, patch : BOOLEAN]

\* A set of numbers has a least one.
LEMMA LeastOf ==
  ASSUME NEW T, T \subseteq Nat, T # {}
  PROVE  \E x \in T : \A y \in T : x <= y
<1>1. PICK R : R = OpToRel(<, Nat)
  OBVIOUS
<1>2. IsWellFoundedOn(R, Nat)
  BY <1>1, NatLessThanWellFounded
<1>3. PICK x \in T : \A y \in T : ~(<<y, x>> \in R)
  BY <1>2, WFMin
<1>4. \A y \in T : ~(y < x)
  BY <1>1, <1>3 DEF OpToRel
<1> QED  BY <1>4

\* A section reaches from its first image to one of the same kind.
LEMMA SectionEndIs ==
  ASSUME NEW imgs \in Seq(Images), NEW k \in 1 .. Len(imgs)
  PROVE  /\ SectionEnd(imgs, k) \in k .. Len(imgs)
         /\ \A j \in k .. SectionEnd(imgs, k) : SameSection(imgs[k], imgs[j])
<1> DEFINE n == Len(imgs)
           diff == {j \in (k + 1) .. n : ~SameSection(imgs[k], imgs[j])}
<1>1. n \in Nat /\ k \in 1 .. n
  OBVIOUS
<1>2. SameSection(imgs[k], imgs[k])
  BY DEF SameSection
<1>3. SectionEnd(imgs, k) = IF diff = {} THEN n ELSE Min(diff) - 1
  BY DEF SectionEnd
<1>4. CASE diff = {}
  <2>1. \A j \in (k + 1) .. n : SameSection(imgs[k], imgs[j])
    BY <1>4
  <2> QED  BY <1>1, <1>2, <1>3, <1>4, <2>1
<1>5. CASE diff # {}
  <2>1. diff \subseteq Nat
    BY <1>1
  <2>2. \E x \in diff : \A y \in diff : x <= y
    <3> HIDE DEF diff
    <3> QED  BY <1>5, <2>1, LeastOf
  <2>3. Min(diff) \in diff /\ \A y \in diff : Min(diff) <= y
    <3> HIDE DEF diff
    <3> QED  BY <2>2 DEF Min
  <2>4. PICK m : m = Min(diff)
    OBVIOUS
  <2>5. m \in (k + 1) .. n /\ \A y \in diff : m <= y
    BY <2>3, <2>4
  <2>6. \A j \in (k + 1) .. (m - 1) : SameSection(imgs[k], imgs[j])
    <3> TAKE j \in (k + 1) .. (m - 1)
    <3>1. j \in (k + 1) .. n /\ ~(m <= j)
      BY <1>1, <2>5
    <3>2. j \notin diff
      BY <2>5, <3>1
    <3> QED  BY <3>1, <3>2
  <2> QED  BY <1>1, <1>2, <1>3, <1>5, <2>4, <2>5, <2>6
<1> QED  BY <1>4, <1>5

\* Both loops go forward: each of their steps knows the place of the next one.
LoopStep(n, head, go, nxt, f, k) == IF k > n THEN <<>> ELSE head[k] \o (IF go[k] THEN f[nxt[k]] ELSE <<>>)
LEMMA LoopExists ==
  ASSUME NEW n \in Nat, NEW head, NEW go, NEW nxt, \A k \in 1 .. n : nxt[k] \in Nat /\ nxt[k] > k
  PROVE  \E f : f = [k \in Nat \ {0} |-> f[k]] /\ \A k \in Nat \ {0} : f[k] = LoopStep(n, head, go, nxt, f, k)
<1> DEFINE Done(f, m) == /\ f = [k \in Nat \ {0} |-> f[k]]
                         /\ \A k \in Nat \ {0} : k > n - m => f[k] = LoopStep(n, head, go, nxt, f, k)
           T == {m \in 0 .. n : ~\E f : Done(f, m)}
<1>1. SUFFICES ASSUME T # {} PROVE FALSE
  <2>1. n \in 0 .. n /\ \A k \in Nat \ {0} : k > n - n
    OBVIOUS
  <2> SUFFICES ASSUME T = {} PROVE \E f : Done(f, n)
    BY <2>1
  <2> QED  BY <2>1
<1>2. PICK m \in T : \A y \in T : m <= y
  <2>1. T \subseteq Nat
    OBVIOUS
  <2> HIDE DEF T
  <2> QED  BY <1>1, <2>1, LeastOf
<1>3. m \in 0 .. n /\ ~\E f : Done(f, m)
  BY <1>2
<1>4. CASE m = 0
  <2> DEFINE f == [k \in Nat \ {0} |-> <<>>]
  <2>1. \A k \in Nat \ {0} : k > n - 0 => f[k] = LoopStep(n, head, go, nxt, f, k)
    <3> TAKE k \in Nat \ {0}
    <3> HAVE k > n - 0
    <3>1. k > n /\ f[k] = <<>>
      OBVIOUS
    <3> HIDE DEF f
    <3> QED  BY <3>1 DEF LoopStep
  <2> QED  BY <1>3, <1>4, <2>1
<1>5. CASE m # 0
  <2>1. m - 1 \in 0 .. n /\ ~(m <= m - 1)
    BY <1>3, <1>5
  <2>2. m - 1 \notin T
    BY <1>2, <2>1
  <2>3. PICK f : Done(f, m - 1)
    BY <2>1, <2>2
  <2>4. PICK i \in 1 .. n : i = n - m + 1
    BY <1>3, <1>5
  <2> DEFINE g == [k \in Nat \ {0} |-> IF k = i THEN LoopStep(n, head, go, nxt, f, i) ELSE f[k]]
  <2>5. \A k \in Nat \ {0} : k > n - m => g[k] = LoopStep(n, head, go, nxt, f, k)
    <3> TAKE k \in Nat \ {0}
    <3> HAVE k > n - m
    <3>1. k = i \/ k > n - (m - 1)
      BY <1>3, <2>4
    <3> QED  BY <2>3, <3>1
  <2>6. \A k \in Nat \ {0} : k > n - m => LoopStep(n, head, go, nxt, g, k) = LoopStep(n, head, go, nxt, f, k)
    <3> TAKE k \in Nat \ {0}
    <3> HAVE k > n - m
    <3>1. k <= n => nxt[k] \in Nat \ {0} /\ nxt[k] # i
      BY <1>3, <2>4
    <3>2. k <= n => g[nxt[k]] = f[nxt[k]]
      BY <3>1
    <3> HIDE DEF g
    <3> QED  BY <3>2 DEF LoopStep
  <2>7. Done(g, m)
    BY <2>5, <2>6
  <2> QED  BY <1>3, <2>7
<1> QED  BY <1>4, <1>5

-----------------------------------------------------------------------------
(* What catalog_open() writes.                                             *)

CatalogSlotSet(imgs, src) == {write_section_header(imgs, k) : k \in 1 .. Len(imgs)}
                    \union {write_section_entry(imgs[k], src[k]) : k \in 1 .. Len(imgs)}
Writing(imgs, src, f) ==
  f = [k \in Nat \ {0} |-> IF k > Len(imgs) THEN <<>> ELSE Section(imgs, src, k) \o f[SectionEnd(imgs, k) + 1]]
Opening(imgs, src) == <<[k |-> "valid", plat |-> imgs[1].plat, id |-> imgs[1].id],
                        write_section_entry(imgs[1], src[1])>>

\* CatalogSlots is the opening, followed by what the loop makes from image 2 on.
LEMMA SlotsWritten ==
  ASSUME NEW imgs \in Seq(Images), NEW src
  PROVE  \E f : Writing(imgs, src, f) /\ CatalogSlots(imgs, src) = Opening(imgs, src) \o f[2]
<1> DEFINE n == Len(imgs)
           head == [k \in 1 .. n |-> Section(imgs, src, k)]
           go == [k \in 1 .. n |-> TRUE]
           nxt == [k \in 1 .. n |-> SectionEnd(imgs, k) + 1]
<1>1. n \in Nat /\ \A k \in 1 .. n : nxt[k] \in Nat /\ nxt[k] > k
  BY SectionEndIs
<1>2. PICK f : f = [k \in Nat \ {0} |-> f[k]] /\ \A k \in Nat \ {0} : f[k] = LoopStep(n, head, go, nxt, f, k)
  <2> HIDE DEF n, head, go, nxt
  <2> QED  BY <1>1, LoopExists
<1>3. \A k \in Nat \ {0} : f[k] = IF k > n THEN <<>> ELSE Section(imgs, src, k) \o f[SectionEnd(imgs, k) + 1]
  <2> TAKE k \in Nat \ {0}
  <2>1. CASE k > n
    BY <1>2, <2>1 DEF LoopStep
  <2>2. CASE k \in 1 .. n
    <3>1. head[k] = Section(imgs, src, k) /\ go[k] /\ nxt[k] = SectionEnd(imgs, k) + 1
      BY <2>2
    <3>2. k \in Nat \ {0} /\ ~(k > n)
      BY <1>1, <2>2
    <3>3. f[k] = head[k] \o (IF go[k] THEN f[nxt[k]] ELSE <<>>)
      <4> HIDE DEF n, head, go, nxt
      <4> QED  BY <1>2, <3>2 DEF LoopStep
    <3> QED  BY <3>1, <3>2, <3>3
  <2> QED  BY <1>1, <2>1, <2>2
<1>4. \E g : Writing(imgs, src, g)
  BY <1>2, <1>3 DEF Writing
<1>5. PICK c : c = (CHOOSE g : Writing(imgs, src, g))
  OBVIOUS
<1>6. Writing(imgs, src, c)
  BY <1>4, <1>5
<1>7. CatalogSlots(imgs, src) = Opening(imgs, src) \o c[2]
  BY <1>5 DEF CatalogSlots, Opening, Writing
<1> QED  BY <1>6, <1>7

-----------------------------------------------------------------------------
(* What the import makes of it.                                            *)

Entries(q, i) == [j \in 1 .. q[i].n |-> Found(q[i], q[i + j], FALSE)]
Reading(q, f) ==
  f = [i \in Nat \ {0} |->
         IF i > Len(q) \/ q[i].k # "section" THEN <<>>
         ELSE [j \in 1 .. q[i].n |-> Found(q[i], q[i + j], FALSE)]
              \o (IF q[i].last THEN <<>> ELSE f[i + q[i].n + 1])]
WithoutSurplus(all) == SubSeq(all, 1, Min({MaxImages, Len(all)}))

\* Slots as a catalog has them: headers tell a number of entries.
Counted(q) == Len(q) \in Nat /\ \A i \in 1 .. Len(q) : q[i].k = "section" => q[i].n \in Nat

\* ReadSections is the first image, followed by what its loop makes from slot 3 on.
LEMMA SectionsRead ==
  ASSUME NEW q, Counted(q)
  PROVE  \E f : Reading(q, f) /\ ReadSections(q) = WithoutSurplus(<<Found(q[1], q[2], TRUE)>> \o f[3])
<1> DEFINE n == Len(q)
           head == [i \in 1 .. n |-> IF q[i].k = "section" THEN Entries(q, i) ELSE <<>>]
           go == [i \in 1 .. n |-> q[i].k = "section" /\ ~q[i].last]
           nxt == [i \in 1 .. n |-> IF q[i].k = "section" THEN i + q[i].n + 1 ELSE i + 1]
<1>1. n \in Nat /\ \A k \in 1 .. n : nxt[k] \in Nat /\ nxt[k] > k
  BY DEF Counted
<1>2. PICK f : f = [k \in Nat \ {0} |-> f[k]] /\ \A k \in Nat \ {0} : f[k] = LoopStep(n, head, go, nxt, f, k)
  <2> HIDE DEF n, head, go, nxt
  <2> QED  BY <1>1, LoopExists
<1>3. \A i \in Nat \ {0} :
        f[i] = IF i > n \/ q[i].k # "section" THEN <<>>
               ELSE Entries(q, i) \o (IF q[i].last THEN <<>> ELSE f[i + q[i].n + 1])
  <2> TAKE i \in Nat \ {0}
  <2>1. CASE i > n
    <3> HIDE DEF n, head, go, nxt
    <3> QED  BY <1>2, <2>1 DEF LoopStep
  <2>2. CASE i \in 1 .. n
    <3>1. /\ q[i].k = "section" => /\ head[i] = Entries(q, i) /\ go[i] = ~q[i].last
                                   /\ nxt[i] = i + q[i].n + 1
          /\ q[i].k # "section" => head[i] = <<>> /\ ~go[i]
      BY <2>2
    <3>2. ~(i > n)
      BY <1>1, <2>2
    <3>3. f[i] = head[i] \o (IF go[i] THEN f[nxt[i]] ELSE <<>>)
      <4> HIDE DEF n, head, go, nxt
      <4> QED  BY <1>2, <3>2 DEF LoopStep
    <3>4. <<>> \o <<>> = <<>>
      BY ConcatEmptySeq
    <3> HIDE DEF head, go, nxt
    <3>5. CASE q[i].k = "section"
      BY <3>1, <3>2, <3>3, <3>5
    <3>6. CASE q[i].k # "section"
      BY <3>1, <3>3, <3>4, <3>6
    <3> QED  BY <3>5, <3>6
  <2> QED  BY <1>1, <2>1, <2>2
<1>4. \E g : Reading(q, g)
  BY <1>2, <1>3 DEF Reading, Entries
<1>5. PICK c : c = (CHOOSE g : Reading(q, g))
  OBVIOUS
<1>6. Reading(q, c)
  BY <1>4, <1>5
<1>7. ReadSections(q) = WithoutSurplus(<<Found(q[1], q[2], TRUE)>> \o c[3])
  BY <1>5 DEF ReadSections, Reading, WithoutSurplus
<1> QED  BY <1>6, <1>7

-----------------------------------------------------------------------------
(* Boot image k as an import has to find it.                               *)

AsImported(imgs, src, k) ==
  [plat |-> imgs[k].plat, id |-> imgs[k].id, boot |-> imgs[k].boot, type |-> imgs[k].type,
   seg |-> imgs[k].seg, ptype |-> imgs[k].ptype, size |-> write_section_entry(imgs[k], src[k]).size,
   block |-> src[k], crit |-> IF k = 1 THEN 0 ELSE imgs[k].crit]

\* A section in the catalog: its header, and one entry for each image.
LEMMA SectionIs ==
  ASSUME NEW imgs \in Seq(Images), NEW src, NEW k \in 2 .. Len(imgs),
         NEW e, e = SectionEnd(imgs, k), NEW s, s = Section(imgs, src, k)
  PROVE  /\ s \in Seq(CatalogSlotSet(imgs, src)) /\ Len(s) = e - k + 2
         /\ s[1] = write_section_header(imgs, k)
         /\ \A j \in 1 .. e - k + 1 : s[j + 1] = write_section_entry(imgs[k + j - 1], src[k + j - 1])
<1>1. e \in k .. Len(imgs) /\ k \in 1 .. Len(imgs) /\ Len(imgs) \in Nat
  BY SectionEndIs
<1> DEFINE h == <<write_section_header(imgs, k)>>
           t == [j \in 1 .. (e - k + 1) |-> write_section_entry(imgs[k + j - 1], src[k + j - 1])]
<1>2. s = h \o t
  BY DEF Section
<1>3. h \in Seq(CatalogSlotSet(imgs, src)) /\ Len(h) = 1 /\ h[1] = write_section_header(imgs, k)
  <2>1. write_section_header(imgs, k) \in CatalogSlotSet(imgs, src)
    BY <1>1 DEF CatalogSlotSet
  <2> HIDE DEF CatalogSlotSet
  <2> QED  BY <2>1
<1>4. t \in Seq(CatalogSlotSet(imgs, src)) /\ Len(t) = e - k + 1
      /\ \A j \in 1 .. e - k + 1 : t[j] = write_section_entry(imgs[k + j - 1], src[k + j - 1])
  <2>1. \A j \in 1 .. e - k + 1 : write_section_entry(imgs[k + j - 1], src[k + j - 1]) \in CatalogSlotSet(imgs, src)
    <3> TAKE j \in 1 .. e - k + 1
    <3>1. k + j - 1 \in 1 .. Len(imgs)
      BY <1>1
    <3> QED  BY <3>1 DEF CatalogSlotSet
  <2>2. e - k + 1 \in Nat
    BY <1>1
  <2> QED  BY <2>1, <2>2
<1> HIDE DEF h, t
<1>5. /\ h \o t \in Seq(CatalogSlotSet(imgs, src)) /\ Len(h \o t) = Len(h) + Len(t)
      /\ \A i \in 1 .. Len(h) + Len(t) : (h \o t)[i] = IF i <= Len(h) THEN h[i] ELSE t[i - Len(h)]
  BY <1>3, <1>4, ConcatProperties
<1>6. \A j \in 1 .. e - k + 1 : s[j + 1] = t[j]
  <2> TAKE j \in 1 .. e - k + 1
  <2>1. j + 1 \in 1 .. Len(h) + Len(t) /\ ~(j + 1 <= Len(h)) /\ (j + 1) - Len(h) = j
    BY <1>1, <1>3, <1>4
  <2> QED  BY <1>2, <1>5, <2>1
<1>7. s[1] = h[1] /\ Len(s) = e - k + 2
  <2>1. 1 \in 1 .. Len(h) + Len(t) /\ Len(h) + Len(t) = e - k + 2
    BY <1>1, <1>3, <1>4
  <2> QED  BY <1>2, <1>3, <1>5, <2>1
<1> QED  BY <1>2, <1>3, <1>4, <1>5, <1>6, <1>7

\* A set of numbers below a bound has a greatest one.
LEMMA GreatestOf ==
  ASSUME NEW n \in Nat, NEW T, T \subseteq 1 .. n, T # {}
  PROVE  \E x \in T : \A y \in T : y <= x
<1> DEFINE U == {n - y : y \in T}
<1>1. U \subseteq Nat /\ U # {}
  <2>1. \A y \in T : n - y \in Nat
    OBVIOUS
  <2> QED  BY <2>1
<1>2. PICK u \in U : \A v \in U : u <= v
  <2> HIDE DEF U
  <2> QED  BY <1>1, LeastOf
<1>3. PICK x \in T : u = n - x
  BY <1>2
<1>4. \A y \in T : n - x <= n - y
  BY <1>2, <1>3
<1> QED  BY <1>3, <1>4

\* From image k on, the catalog has at most two slots per image.
LEMMA SlotsFrom ==
  ASSUME NEW imgs \in Seq(Images), NEW src, NEW w, Writing(imgs, src, w), NEW k \in 2 .. Len(imgs) + 1
  PROVE  w[k] \in Seq(CatalogSlotSet(imgs, src)) /\ Len(w[k]) <= 2 * (Len(imgs) - k + 1)
<1> DEFINE P(i) == w[i] \in Seq(CatalogSlotSet(imgs, src)) /\ Len(w[i]) <= 2 * (Len(imgs) - i + 1)
           T == {i \in 2 .. Len(imgs) + 1 : ~P(i)}
<1>1. PICK n \in Nat : n = Len(imgs)
  OBVIOUS
<1>2. SUFFICES ASSUME T # {} PROVE FALSE
  OBVIOUS
<1>3. PICK i \in T : \A y \in T : y <= i
  <2>1. T \subseteq 1 .. n + 1 /\ n + 1 \in Nat
    BY <1>1
  <2> HIDE DEF T
  <2> QED  BY <1>2, <2>1, GreatestOf
<1>4. i \in 2 .. n + 1 /\ ~P(i)
  BY <1>1, <1>3
<1>5. \A y \in 2 .. n + 1 : y > i => P(y)
  <2> TAKE y \in 2 .. n + 1
  <2> HAVE y > i
  <2>1. ~(y <= i)
    BY <1>4
  <2>2. y \notin T
    BY <1>3, <2>1
  <2> QED  BY <1>1, <2>2
<1> HIDE DEF P, T
<1>6. CASE i = n + 1
  <2>1. w[i] = <<>>
    BY <1>1, <1>6 DEF Writing
  <2> QED  BY <1>1, <1>4, <1>6, <2>1 DEF P
<1>7. CASE i \in 2 .. n
  <2>1. PICK e : e = SectionEnd(imgs, i)
    OBVIOUS
  <2>2. e \in i .. n
    BY <1>1, <1>7, <2>1, SectionEndIs
  <2>3. w[i] = Section(imgs, src, i) \o w[e + 1]
    <3>1. i \in Nat \ {0} /\ ~(i > Len(imgs))
      BY <1>1, <1>7
    <3> QED  BY <2>1, <3>1 DEF Writing
  <2>4. PICK s : s = Section(imgs, src, i) /\ s \in Seq(CatalogSlotSet(imgs, src)) /\ Len(s) = e - i + 2
    BY <1>1, <1>7, <2>1, SectionIs
  <2>5. e + 1 \in 2 .. n + 1 /\ e + 1 > i
    BY <1>7, <2>2
  <2>6. w[e + 1] \in Seq(CatalogSlotSet(imgs, src)) /\ Len(w[e + 1]) <= 2 * (n - (e + 1) + 1)
    BY <1>1, <1>5, <2>5 DEF P
  <2>7. w[i] \in Seq(CatalogSlotSet(imgs, src)) /\ Len(w[i]) = Len(s) + Len(w[e + 1])
    BY <2>3, <2>4, <2>6, ConcatProperties
  <2>8. Len(w[e + 1]) \in Nat
    BY <2>6
  <2>9. Len(w[i]) <= 2 * (n - i + 1)
    <3>1. PICK l \in Nat : l = Len(w[e + 1])
      BY <2>8
    <3>2. Len(w[i]) = (e - i + 2) + l /\ l <= 2 * (n - (e + 1) + 1)
      BY <2>4, <2>6, <2>7, <3>1
    <3>3. \A x, y \in Int : y <= x => (x - y + 2) + 2 * (n - (x + 1) + 1) <= 2 * (n - y + 1)
      OBVIOUS
    <3>4. e \in Int /\ i \in Int /\ i <= e
      BY <1>7, <2>2
    <3> QED  BY <3>2, <3>3, <3>4
  <2> QED  BY <1>1, <1>4, <2>7, <2>9 DEF P
<1> QED  BY <1>4, <1>6, <1>7

Imported(imgs, src) == {AsImported(imgs, src, k) : k \in 1 .. Len(imgs)}

\* The rest of the slots q, from p on, is w[k].
Rest(q, w, k, p) == Len(q) = p - 1 + Len(w[k]) /\ \A j \in 1 .. Len(w[k]) : q[p - 1 + j] = w[k][j]

\* What the import finds at the slots of image k and the ones behind it.
LEMMA FoundFrom ==
  ASSUME NEW imgs \in Seq(Images), NEW src, NEW w, Writing(imgs, src, w), NEW q, NEW r, Reading(q, r),
         NEW k \in 2 .. Len(imgs) + 1, NEW p \in Nat \ {0}, Rest(q, w, k, p)
  PROVE  /\ r[p] \in Seq(Imported(imgs, src)) /\ Len(r[p]) = Len(imgs) - k + 1
         /\ \A j \in 1 .. Len(imgs) - k + 1 : r[p][j] = AsImported(imgs, src, k + j - 1)
<1> DEFINE Lies(i, a) == Len(q) = a - 1 + Len(w[i]) /\ \A j \in 1 .. Len(w[i]) : q[a - 1 + j] = w[i][j]
           Back(i, a) == /\ r[a] \in Seq(Imported(imgs, src)) /\ Len(r[a]) = Len(imgs) - i + 1
                         /\ \A j \in 1 .. Len(imgs) - i + 1 : r[a][j] = AsImported(imgs, src, i + j - 1)
           P(i) == \A a \in Nat \ {0} : Lies(i, a) => Back(i, a)
           T == {i \in 2 .. Len(imgs) + 1 : ~P(i)}
<1>1. PICK n \in Nat : n = Len(imgs)
  OBVIOUS
<1>2. SUFFICES ASSUME T # {} PROVE FALSE
  <2>1. P(k)
    BY <1>2
  <2>2. Lies(k, p)
    BY DEF Rest
  <2> QED  BY <2>1, <2>2
<1>3. PICK i \in T : \A y \in T : y <= i
  <2>1. T \subseteq 1 .. n + 1 /\ n + 1 \in Nat
    BY <1>1
  <2> HIDE DEF T
  <2> QED  BY <1>2, <2>1, GreatestOf
<1>4. i \in 2 .. n + 1 /\ ~P(i)
  BY <1>1, <1>3
<1>5. \A y \in 2 .. n + 1 : y > i => P(y)
  <2> TAKE y \in 2 .. n + 1
  <2> HAVE y > i
  <2>1. ~(y <= i)
    BY <1>4
  <2>2. y \notin T
    BY <1>3, <2>1
  <2> QED  BY <1>1, <2>2
<1>6. PICK a \in Nat \ {0} : Lies(i, a) /\ ~Back(i, a)
  BY <1>4
<1>7. r[a] = IF a > Len(q) \/ q[a].k # "section" THEN <<>>
             ELSE Entries(q, a) \o (IF q[a].last THEN <<>> ELSE r[a + q[a].n + 1])
  BY DEF Reading, Entries
<1> HIDE DEF P, T
<1>8. CASE i = n + 1
  <2>1. w[i] = <<>>
    BY <1>1, <1>8 DEF Writing
  <2>2. Len(q) = a - 1
    BY <1>6, <2>1
  <2>3. r[a] = <<>>
    BY <1>7, <2>2
  <2> QED  BY <1>1, <1>6, <1>8, <2>3
<1>9. CASE i \in 2 .. n
  <2> HIDE DEF Lies, Back
  <2>1. PICK e : e = SectionEnd(imgs, i)
    OBVIOUS
  <2>2. e \in i .. n /\ \A j \in i .. e : SameSection(imgs[i], imgs[j])
    BY <1>1, <1>9, <2>1, SectionEndIs
  <2>3. w[i] = Section(imgs, src, i) \o w[e + 1]
    <3>1. i \in Nat \ {0} /\ ~(i > Len(imgs))
      BY <1>1, <1>9
    <3> QED  BY <2>1, <3>1 DEF Writing
  <2>4. PICK s : /\ s = Section(imgs, src, i) /\ s \in Seq(CatalogSlotSet(imgs, src)) /\ Len(s) = e - i + 2
                 /\ s[1] = write_section_header(imgs, i)
                 /\ \A j \in 1 .. e - i + 1 : s[j + 1] = write_section_entry(imgs[i + j - 1], src[i + j - 1])
    <3>1. i \in 2 .. Len(imgs)
      BY <1>1, <1>9
    <3>2. PICK s : s = Section(imgs, src, i)
      OBVIOUS
    <3>3. /\ s \in Seq(CatalogSlotSet(imgs, src)) /\ Len(s) = e - i + 2
          /\ s[1] = write_section_header(imgs, i)
          /\ \A j \in 1 .. e - i + 1 : s[j + 1] = write_section_entry(imgs[i + j - 1], src[i + j - 1])
      BY <2>1, <3>1, <3>2, SectionIs
    <3> QED  BY <3>2, <3>3
  <2>5. PICK t : t = w[e + 1] /\ t \in Seq(CatalogSlotSet(imgs, src))
    <3>1. e + 1 \in 2 .. n + 1
      BY <1>9, <2>2
    <3> QED  BY <1>1, <3>1, SlotsFrom
  <2>6. /\ Len(w[i]) = Len(s) + Len(t)
        /\ \A j \in 1 .. Len(s) + Len(t) : w[i][j] = IF j <= Len(s) THEN s[j] ELSE t[j - Len(s)]
    BY <2>3, <2>4, <2>5, ConcatProperties
  <2>7. PICK c \in Nat \ {0} : c = e - i + 1
    BY <1>9, <2>2
  <2>8. Len(s) = c + 1 /\ Len(t) \in Nat /\ Len(q) = a - 1 + c + 1 + Len(t)
    <3>1. Len(s) = c + 1
      BY <1>9, <2>2, <2>4, <2>7
    <3>2. Len(q) = a - 1 + (Len(s) + Len(t))
      BY <1>6, <2>6 DEF Lies
    <3>3. PICK l \in Nat : l = Len(t)
      BY <2>5
    <3> QED  BY <3>1, <3>2, <3>3
  <2>9. \A j \in 1 .. c + 1 : q[a - 1 + j] = s[j]
    <3> TAKE j \in 1 .. c + 1
    <3>1. j \in 1 .. Len(s) + Len(t) /\ j <= Len(s) /\ j \in 1 .. Len(w[i])
      BY <2>6, <2>8
    <3> QED  BY <1>6, <2>6, <3>1 DEF Lies
  <2>10. \A j \in 1 .. Len(t) : q[a + c + j] = t[j]
    <3> TAKE j \in 1 .. Len(t)
    <3>1. /\ j + c + 1 \in 1 .. Len(s) + Len(t) /\ ~(j + c + 1 <= Len(s)) /\ (j + c + 1) - Len(s) = j
          /\ a - 1 + (j + c + 1) = a + c + j
      BY <2>8
    <3>2. w[i][j + c + 1] = t[j]
      BY <2>6, <3>1
    <3> QED  BY <1>6, <2>6, <3>1, <3>2 DEF Lies
  <2>11. q[a] = write_section_header(imgs, i)
    <3>1. 1 \in 1 .. c + 1 /\ a - 1 + 1 = a
      OBVIOUS
    <3> QED  BY <2>4, <2>9, <3>1
  <2>12. /\ q[a].k = "section" /\ q[a].n = c /\ q[a].last = (e = n)
         /\ q[a].plat = imgs[i].plat /\ q[a].id = imgs[i].id
    BY <1>1, <2>1, <2>7, <2>11 DEF write_section_header
  <2>13. \A j \in 1 .. c : q[a + j] = write_section_entry(imgs[i + j - 1], src[i + j - 1])
    <3> TAKE j \in 1 .. c
    <3>1. j + 1 \in 1 .. c + 1 /\ a - 1 + (j + 1) = a + j /\ j \in 1 .. e - i + 1
      BY <2>7
    <3> QED  BY <2>4, <2>9, <3>1
  <2>14. \A j \in 1 .. c : Found(q[a], q[a + j], FALSE) = AsImported(imgs, src, i + j - 1) /\ i + j - 1 \in 1 .. n
    <3> TAKE j \in 1 .. c
    <3>1. i + j - 1 \in i .. e /\ i + j - 1 # 1 /\ i + j - 1 \in 1 .. n
      BY <1>9, <2>2, <2>7
    <3>2. imgs[i].plat = imgs[i + j - 1].plat /\ imgs[i].id = imgs[i + j - 1].id
      BY <2>2, <3>1 DEF SameSection
    <3>3. q[a + j] = write_section_entry(imgs[i + j - 1], src[i + j - 1])
      BY <2>13
    <3> QED  BY <2>12, <3>1, <3>2, <3>3 DEF Found, AsImported, write_section_entry
  <2>15. PICK x : /\ x = Entries(q, a) /\ x \in Seq(Imported(imgs, src)) /\ Len(x) = c
                  /\ \A j \in 1 .. c : x[j] = AsImported(imgs, src, i + j - 1)
    <3>1. Entries(q, a) = [j \in 1 .. c |-> AsImported(imgs, src, i + j - 1)]
      BY <2>12, <2>14 DEF Entries
    <3>2. \A j \in 1 .. c : AsImported(imgs, src, i + j - 1) \in Imported(imgs, src)
      BY <1>1, <2>14 DEF Imported
    <3>3. \A j \in 1 .. c : [v \in 1 .. c |-> AsImported(imgs, src, i + v - 1)][j] = AsImported(imgs, src, i + j - 1)
      OBVIOUS
    <3>4. [j \in 1 .. c |-> AsImported(imgs, src, i + j - 1)] \in Seq(Imported(imgs, src))
      BY <3>2
    <3>5. Len([j \in 1 .. c |-> AsImported(imgs, src, i + j - 1)]) = c
      OBVIOUS
    <3> QED  BY <3>1, <3>3, <3>4, <3>5
  <2>16. ~(a > Len(q))
    BY <2>8
  <2>17. CASE e = n
    <3>1. r[a] = x \o <<>>
      BY <1>7, <2>12, <2>15, <2>16, <2>17
    <3>2. r[a] = x
      BY <2>15, <3>1, ConcatEmptySeq
    <3>3. c = n - i + 1
      BY <2>7, <2>17
    <3> QED  BY <1>1, <1>6, <2>15, <3>2, <3>3 DEF Back
  <2>18. CASE e # n
    <3> DEFINE y == r[a + c + 1]
    <3>1. r[a] = x \o y
      BY <1>7, <2>12, <2>15, <2>16, <2>18
    <3>2. Lies(e + 1, a + c + 1)
      <4>1. Len(q) = (a + c + 1) - 1 + Len(w[e + 1])
        <5>1. PICK l \in Nat : l = Len(t)
          BY <2>8
        <5>2. Len(q) = a - 1 + c + 1 + l
          BY <2>8, <5>1
        <5>3. a - 1 + c + 1 + l = (a + c + 1) - 1 + l
          OBVIOUS
        <5> QED  BY <2>5, <5>1, <5>2, <5>3
      <4>2. \A j \in 1 .. Len(w[e + 1]) : (a + c + 1) - 1 + j = a + c + j
        BY <2>5
      <4> QED  BY <2>5, <2>10, <4>1, <4>2 DEF Lies
    <3>3. e + 1 \in 2 .. n + 1 /\ e + 1 > i /\ a + c + 1 \in Nat \ {0}
      BY <1>9, <2>2
    <3>4. Back(e + 1, a + c + 1)
      BY <1>5, <3>2, <3>3 DEF P
    <3>5. /\ y \in Seq(Imported(imgs, src)) /\ Len(y) = n - e
          /\ \A j \in 1 .. n - e : y[j] = AsImported(imgs, src, (e + 1) + j - 1)
      <4>1. n - (e + 1) + 1 = n - e
        BY <2>2
      <4> QED  BY <1>1, <3>4, <4>1 DEF Back
    <3> HIDE DEF y
    <3>6. /\ r[a] \in Seq(Imported(imgs, src)) /\ Len(r[a]) = c + (n - e)
          /\ \A j \in 1 .. c + (n - e) : r[a][j] = IF j <= c THEN x[j] ELSE y[j - c]
      <4>1. /\ x \o y \in Seq(Imported(imgs, src)) /\ Len(x \o y) = Len(x) + Len(y)
            /\ \A j \in 1 .. Len(x) + Len(y) : (x \o y)[j] = IF j <= Len(x) THEN x[j] ELSE y[j - Len(x)]
        <5>1. x \in Seq(Imported(imgs, src)) /\ y \in Seq(Imported(imgs, src))
          BY <2>15, <3>5
        <5> QED  BY <5>1, ConcatProperties
      <4>2. Len(x) = c /\ Len(y) = n - e
        BY <2>15, <3>5
      <4> QED  BY <3>1, <4>1, <4>2
    <3>7. c + (n - e) = n - i + 1
      BY <1>9, <2>2, <2>7
    <3>8. \A j \in 1 .. n - i + 1 : r[a][j] = AsImported(imgs, src, i + j - 1)
      <4> TAKE j \in 1 .. n - i + 1
      <4>1. CASE j <= c
        BY <2>15, <3>6, <3>7, <4>1
      <4>2. CASE ~(j <= c)
        <5>1. j - c \in 1 .. n - e /\ (e + 1) + (j - c) - 1 = i + j - 1
          <6>1. /\ e \in Int /\ i \in Int /\ j \in Int /\ c \in Int /\ n \in Int /\ c = e - i + 1
                /\ 1 <= j /\ j <= n - i + 1 /\ c < j
            BY <1>9, <2>2, <2>7, <4>2
          <6> QED  BY <6>1
        <5> QED  BY <3>5, <3>6, <3>7, <4>2, <5>1
      <4> QED  BY <4>1, <4>2
    <3> QED  BY <1>1, <1>6, <3>6, <3>7, <3>8 DEF Back
  <2> QED  BY <2>17, <2>18
<1> QED  BY <1>4, <1>8, <1>9

\* The import finds just the images that were written, and the catalog has
\* at most two slots for each.
LEMMA CatalogReadBack ==
  ASSUME NEW imgs \in Seq(Images), imgs # <<>>, Len(imgs) <= MaxImages, NEW src,
         NEW q, q = CatalogSlots(imgs, src), NEW r, r = ReadSections(q)
  PROVE  /\ Len(q) \in Nat /\ Len(q) <= 2 * Len(imgs)
         /\ Len(r) = Len(imgs) /\ \A k \in 1 .. Len(r) : r[k] = AsImported(imgs, src, k)
<1>1. PICK n \in Nat \ {0} : n = Len(imgs)
  BY EmptySeq
<1>2. PICK w : Writing(imgs, src, w) /\ q = Opening(imgs, src) \o w[2]
  BY SlotsWritten
<1>3. w[2] \in Seq(CatalogSlotSet(imgs, src)) /\ Len(w[2]) <= 2 * (n - 2 + 1)
  <2>1. 2 \in 2 .. Len(imgs) + 1
    BY <1>1
  <2> QED  BY <1>1, <1>2, <2>1, SlotsFrom
<1> DEFINE first == Opening(imgs, src)[1]
           S == CatalogSlotSet(imgs, src) \union {first}
<1>4. PICK a : /\ a = Opening(imgs, src) /\ a \in Seq(S) /\ Len(a) = 2
               /\ a[2] = write_section_entry(imgs[1], src[1])
               /\ a[1] = [k |-> "valid", plat |-> imgs[1].plat, id |-> imgs[1].id]
  <2>1. write_section_entry(imgs[1], src[1]) \in CatalogSlotSet(imgs, src)
    <3>1. 1 \in 1 .. Len(imgs)
      BY <1>1
    <3> QED  BY <3>1 DEF CatalogSlotSet
  <2>2. PICK x, y : /\ x = [k |-> "valid", plat |-> imgs[1].plat, id |-> imgs[1].id]
                    /\ y = write_section_entry(imgs[1], src[1])
    OBVIOUS
  <2>3. Opening(imgs, src) = <<x, y>>
    BY <2>2 DEF Opening
  <2>4. first = x
    BY <2>3
  <2>5. x \in S /\ y \in S
    BY <2>1, <2>2, <2>4
  <2> HIDE DEF S, first
  <2>6. <<x, y>> \in Seq(S) /\ Len(<<x, y>>) = 2 /\ <<x, y>>[1] = x /\ <<x, y>>[2] = y
    BY <2>5
  <2> QED  BY <2>2, <2>3, <2>6
<1>5. PICK t : t = w[2] /\ t \in Seq(S) /\ Len(t) <= 2 * (n - 2 + 1) /\ Len(t) \in Nat
  BY <1>3
<1> HIDE DEF S, first
<1>6. /\ q \in Seq(S) /\ Len(q) = 2 + Len(t)
      /\ \A i \in 1 .. 2 + Len(t) : q[i] = IF i <= 2 THEN a[i] ELSE t[i - 2]
  <2>1. /\ a \o t \in Seq(S) /\ Len(a \o t) = Len(a) + Len(t)
        /\ \A i \in 1 .. Len(a) + Len(t) : (a \o t)[i] = IF i <= Len(a) THEN a[i] ELSE t[i - Len(a)]
    <3>1. a \in Seq(S) /\ t \in Seq(S)
      BY <1>4, <1>5
    <3> QED  BY <3>1, ConcatProperties
  <2> QED  BY <1>2, <1>4, <1>5, <2>1
<1>7. q[1] = a[1] /\ q[2] = a[2] /\ \A j \in 1 .. Len(t) : q[2 + j] = t[j]
  <2>1. 1 \in 1 .. 2 + Len(t) /\ 2 \in 1 .. 2 + Len(t)
    BY <1>5
  <2>2. \A j \in 1 .. Len(t) : 2 + j \in 1 .. 2 + Len(t) /\ ~(2 + j <= 2) /\ (2 + j) - 2 = j
    BY <1>5
  <2> QED  BY <1>6, <2>1, <2>2
<1>8. Counted(q)
  <2>1. \A s \in S : s.k = "section" => s.n \in Nat
    <3>1. ASSUME NEW s \in S, s.k = "section"
          PROVE  \E k \in 1 .. Len(imgs) : s = write_section_header(imgs, k)
      <4>1. first.k = "valid"
        BY <1>4 DEF first
      <4>2. \A i, b : write_section_entry(i, b).k = "entry"
        BY DEF write_section_entry
      <4> QED  BY <3>1, <4>1, <4>2 DEF S, CatalogSlotSet
    <3>2. \A k \in 1 .. Len(imgs) : SectionEnd(imgs, k) - k + 1 \in Nat
      BY SectionEndIs
    <3> QED  BY <3>1, <3>2 DEF write_section_header
  <2>2. \A i \in 1 .. Len(q) : q[i] \in S
    BY <1>6
  <2> QED  BY <1>6, <2>1, <2>2 DEF Counted
<1>9. PICK f : Reading(q, f) /\ r = WithoutSurplus(<<Found(q[1], q[2], TRUE)>> \o f[3])
  BY <1>8, SectionsRead
<1>10. /\ f[3] \in Seq(Imported(imgs, src)) /\ Len(f[3]) = n - 1
       /\ \A j \in 1 .. n - 1 : f[3][j] = AsImported(imgs, src, j + 1)
  <2>1. 2 \in 2 .. Len(imgs) + 1 /\ Len(imgs) - 2 + 1 = n - 1
    BY <1>1
  <2>2. PICK p \in Nat \ {0} : p = 3
    OBVIOUS
  <2>5. PICK m : m = 2 /\ m \in 2 .. Len(imgs) + 1
    BY <2>1
  <2>6. Rest(q, w, m, p)
    <3>1. p - 1 = 2
      BY <2>2
    <3> QED  BY <1>5, <1>6, <1>7, <2>5, <3>1 DEF Rest
  <2>3. /\ f[3] \in Seq(Imported(imgs, src)) /\ Len(f[3]) = Len(imgs) - 2 + 1
        /\ \A j \in 1 .. Len(imgs) - 2 + 1 : f[3][j] = AsImported(imgs, src, 2 + j - 1)
    <3>1. /\ f[p] \in Seq(Imported(imgs, src)) /\ Len(f[p]) = Len(imgs) - m + 1
          /\ \A j \in 1 .. Len(imgs) - m + 1 : f[p][j] = AsImported(imgs, src, m + j - 1)
      BY <1>2, <1>9, <2>5, <2>6, FoundFrom
    <3> QED  BY <2>2, <2>5, <3>1
  <2>4. \A j \in 1 .. n - 1 : 2 + j - 1 = j + 1
    OBVIOUS
  <2> QED  BY <2>1, <2>3, <2>4
<1>11. PICK h : /\ h = <<Found(q[1], q[2], TRUE)>> /\ h \in Seq(Imported(imgs, src)) /\ Len(h) = 1
                /\ h[1] = AsImported(imgs, src, 1)
  <2>1. Found(q[1], q[2], TRUE) = AsImported(imgs, src, 1)
    BY <1>4, <1>7 DEF Found, AsImported, write_section_entry
  <2>2. AsImported(imgs, src, 1) \in Imported(imgs, src)
    <3>1. 1 \in 1 .. Len(imgs)
      BY <1>1
    <3> QED  BY <3>1 DEF Imported
  <2>3. PICK x : x = Found(q[1], q[2], TRUE)
    OBVIOUS
  <2>4. x \in Imported(imgs, src)
    BY <2>1, <2>2, <2>3
  <2>5. <<x>> \in Seq(Imported(imgs, src)) /\ Len(<<x>>) = 1 /\ <<x>>[1] = x
    BY <2>4
  <2> QED  BY <2>1, <2>3, <2>5
<1>12. PICK all : /\ all = h \o f[3] /\ all \in Seq(Imported(imgs, src)) /\ Len(all) = n
                  /\ \A k \in 1 .. n : all[k] = AsImported(imgs, src, k)
  <2>1. /\ h \o f[3] \in Seq(Imported(imgs, src)) /\ Len(h \o f[3]) = Len(h) + Len(f[3])
        /\ \A k \in 1 .. Len(h) + Len(f[3]) : (h \o f[3])[k] = IF k <= Len(h) THEN h[k] ELSE f[3][k - Len(h)]
    <3>1. h \in Seq(Imported(imgs, src)) /\ f[3] \in Seq(Imported(imgs, src))
      BY <1>10, <1>11
    <3> QED  BY <3>1, ConcatProperties
  <2>2. Len(h) + Len(f[3]) = n
    BY <1>10, <1>11
  <2>3. \A k \in 1 .. n : (h \o f[3])[k] = AsImported(imgs, src, k)
    <3> TAKE k \in 1 .. n
    <3>1. CASE k = 1
      <4>1. 1 \in 1 .. n /\ 1 <= Len(h)
        BY <1>11
      <4> QED  BY <1>11, <2>1, <2>2, <3>1, <4>1
    <3>2. CASE k # 1
      <4>1. k - 1 \in 1 .. n - 1 /\ (k - 1) + 1 = k /\ ~(k <= 1)
        BY <3>2
      <4> QED  BY <1>10, <1>11, <2>1, <2>2, <4>1
    <3> QED  BY <3>1, <3>2
  <2> QED  BY <2>1, <2>2, <2>3
<1>13. Min({MaxImages, Len(all)}) = n
  <2>1. MaxImages \in Nat /\ n <= MaxImages
    BY <1>1, EltAssumption
  <2>2. \A x \in {MaxImages, n} : n <= x
    BY <2>1
  <2> QED  BY <1>12, <2>1, <2>2 DEF Min
<1>14. r = SubSeq(all, 1, n)
  BY <1>9, <1>11, <1>12, <1>13 DEF WithoutSurplus
<1>15. Len(r) = n /\ \A k \in 1 .. n : r[k] = AsImported(imgs, src, k)
  BY <1>12, <1>14, SubSeqFull
<1>16. Len(q) \in Nat /\ Len(q) <= 2 * n
  BY <1>5, <1>6
<1> QED  BY <1>1, <1>15, <1>16

-----------------------------------------------------------------------------
(* References of the catalog to nodes.                                     *)

\* The places of node p in the catalog.
Holders(imgs, p) == Cardinality({k \in 1 .. Len(imgs) : imgs[k].file = p})

\* One more image: its file has one more place in the catalog.
LEMMA HoldersAppend ==
  ASSUME NEW imgs \in Seq(Images), NEW i \in Images, NEW p
  PROVE  /\ Holders(imgs, p) \in Nat
         /\ Holders(Append(imgs, i), p) = Holders(imgs, p) + (IF i.file = p THEN 1 ELSE 0)
<1> DEFINE H == {k \in 1 .. Len(imgs) : imgs[k].file = p}
           q == Append(imgs, i)
           G == {k \in 1 .. Len(q) : q[k].file = p}
<1>1. PICK n \in Nat : n = Len(imgs)
  OBVIOUS
<1>2. Len(q) = n + 1 /\ q[n + 1] = i /\ \A k \in 1 .. n : q[k] = imgs[k]
  BY <1>1
<1>3. IsFiniteSet(H) /\ Cardinality(H) \in Nat
  <2>1. IsFiniteSet(1 .. n)
    BY FS_Interval
  <2>2. H \subseteq 1 .. n
    BY <1>1
  <2> QED  BY <2>1, <2>2, FS_Subset, FS_CardinalityType
<1>4. G = IF i.file = p THEN H \union {n + 1} ELSE H
  <2>1. 1 .. n + 1 = (1 .. n) \union {n + 1}
    BY <1>1
  <2> QED  BY <1>1, <1>2, <2>1
<1>5. n + 1 \notin H
  BY <1>1
<1>6. Cardinality(H \union {n + 1}) = Cardinality(H) + 1
  <2> HIDE DEF H
  <2> QED  BY <1>3, <1>5, FS_AddElement
<1>7. Holders(imgs, p) = Cardinality(H) /\ Holders(Append(imgs, i), p) = Cardinality(G)
  BY DEF Holders
<1> HIDE DEF H, G
<1>8. CASE i.file = p
  BY <1>3, <1>4, <1>6, <1>7, <1>8
<1>9. CASE i.file # p
  BY <1>3, <1>4, <1>7, <1>9
<1> QED  BY <1>8, <1>9

\* Setters change no file of an image.
LEMMA HoldersSame ==
  ASSUME NEW imgs, NEW q, Len(q) = Len(imgs), \A k \in 1 .. Len(imgs) : q[k].file = imgs[k].file, NEW p
  PROVE  Holders(q, p) = Holders(imgs, p)
<1>1. {k \in 1 .. Len(q) : q[k].file = p} = {k \in 1 .. Len(imgs) : imgs[k].file = p}
  OBVIOUS
<1> QED  BY <1>1 DEF Holders

\* The empty catalog, and the one with its first image.
LEMMA HoldersNone ==
  ASSUME NEW p
  PROVE  Holders(<<>>, p) = 0
<1>1. {k \in 1 .. Len(<<>>) : (<<>>)[k].file = p} = {}
  OBVIOUS
<1> QED  BY <1>1, FS_EmptySet DEF Holders

LEMMA HoldersOne ==
  ASSUME NEW i \in Images, NEW p
  PROVE  Holders(<<i>>, p) = IF i.file = p THEN 1 ELSE 0
<1>1. Append(<<>>, i) = <<i>> /\ <<>> \in Seq(Images)
  OBVIOUS
<1>2. Holders(Append(<<>>, i), p) = Holders(<<>>, p) + (IF i.file = p THEN 1 ELSE 0)
  BY <1>1, HoldersAppend
<1> QED  BY <1>1, <1>2, HoldersNone

\* Images as create_image() makes them.
LEMMA MadeImage ==
  ASSUME NEW p \in DOMAIN Files \union {NoFile}, NEW app \in Nat, NEW m, m.type \in 0 .. 4, m.ptype \in Nat
  PROVE  NewImage(p, app, m) \in Images /\ NewImage(p, app, m).file = p
<1>1. PICK n \in Int : n = IF m.type = 0 THEN 0 ELSE 1
  OBVIOUS
<1>2. PICK a, b : a = m.type /\ b = m.ptype /\ a \in 0 .. 4 /\ b \in Nat
  OBVIOUS
<1>3. NewImage(p, app, m) =
        [file |-> p, app |-> app, type |-> a, ptype |-> b, boot |-> TRUE, seg |-> 0, size |-> n,
         full |-> FALSE, plat |-> 0, id |-> 0, crit |-> 0, patch |-> FALSE]
  BY <1>1, <1>2 DEF NewImage
<1> QED  BY <1>1, <1>2, <1>3 DEF Images

\* Images are made of files which are in the tree, or of partitions.
LEMMA CreatedImages ==
  ASSUME NEW p \in DOMAIN Files \union {NoFile}, NEW app \in Nat, NEW emul \in Emuls,
         NEW i \in create_image(p, app, emul)
  PROVE  i \in Images /\ (i.file \in Paths => i.file \in tree \/ app > 0)
<1>1. CASE app > 0
  <2>1. i = NewImage(NoFile, app, [type |-> 0, ptype |-> 0])
    BY <1>1 DEF create_image
  <2>2. PICK m : m = [type |-> 0, ptype |-> 0]
    OBVIOUS
  <2>3. m.type \in 0 .. 4 /\ m.ptype \in Nat
    BY <2>2
  <2>4. i \in Images
    <3>1. PICK f : f = NoFile /\ f \in DOMAIN Files \union {NoFile}
      OBVIOUS
    <3>2. NewImage(f, app, m) \in Images
      BY <2>3, <3>1, MadeImage
    <3> QED  BY <2>1, <2>2, <3>1, <3>2
  <2> QED  BY <1>1, <2>4
<1>2. CASE ~(app > 0)
  <2>1. p \in tree /\ p \in DOMAIN Files
    BY <1>2 DEF create_image
  <2>2. PICK m \in MediaTypes(p, emul) : i = NewImage(p, 0, m)
    BY <1>2, <2>1 DEF create_image
  <2>3. m.type \in 0 .. 4 /\ m.ptype \in Nat
    <3>1. CASE emul = "none"
      <4>1. MediaTypes(p, emul) = {[type |-> 0, ptype |-> 0]}
        BY <3>1 DEF MediaTypes
      <4> QED  BY <2>2, <4>1
    <3>2. CASE emul = "floppy"
      <4>1. Files[p].size \in 1 .. 3 /\ m = [type |-> Files[p].size, ptype |-> 0]
        <5>1. MediaTypes(p, emul) = IF Files[p].size \in 1 .. 3 THEN {[type |-> Files[p].size, ptype |-> 0]} ELSE {}
          BY <3>2 DEF MediaTypes
        <5> QED  BY <2>2, <5>1
      <4> QED  BY <4>1
    <3>3. CASE emul = "disk"
      <4>1. m = [type |-> 4, ptype |-> 12] \/ m \in [type : {4}, ptype : {0, 255}]
        <5>1. MediaTypes(p, emul) = IF Files[p].mbr = 1 THEN {[type |-> 4, ptype |-> 12]}
                                    ELSE IF Files[p].mbr = 0 THEN [type : {4}, ptype : {0, 255}] ELSE {}
          BY <3>3 DEF MediaTypes
        <5> QED  BY <2>2, <5>1
      <4>2. m \in [type : {4}, ptype : {0, 255}] => m.type = 4 /\ m.ptype \in {0, 255}
        OBVIOUS
      <4> QED  BY <4>1, <4>2
    <3> QED  BY <3>1, <3>2, <3>3 DEF Emuls
  <2>4. i \in Images /\ i.file = p
    BY <2>1, <2>2, <2>3, MadeImage
  <2> QED  BY <2>1, <2>4
<1> QED  BY <1>1, <1>2

\* What setters leave is an image of the same file.
LEMMA ChangedImages ==
  ASSUME NEW i \in Images, NEW j \in Changed(i)
  PROVE  j \in Images /\ j.file = i.file
<1>1. \A v \in LoadSegs : Short(v, 4096) \in Int
  BY EltAssumption DEF Short
<1>2. \A v \in LoadSizes : Short(v, 65536) \in Int
  BY EltAssumption DEF Short
<1>3. CASE j \in {[i EXCEPT !.plat = 239], [i EXCEPT !.boot = FALSE], [i EXCEPT !.id = 1],
                  [i EXCEPT !.crit = 1], [i EXCEPT !.patch = TRUE]}
  <2>1. CASE j = [i EXCEPT !.plat = 239]
    BY <2>1 DEF Images
  <2>2. CASE j = [i EXCEPT !.boot = FALSE]
    BY <2>2 DEF Images
  <2>3. CASE j = [i EXCEPT !.id = 1]
    BY <2>3 DEF Images
  <2>4. CASE j = [i EXCEPT !.crit = 1]
    BY <2>4 DEF Images
  <2>5. CASE j = [i EXCEPT !.patch = TRUE]
    BY <2>5 DEF Images
  <2> QED  BY <1>3, <2>1, <2>2, <2>3, <2>4, <2>5
<1>4. CASE \E v \in LoadSegs : j = el_torito_set_load_seg(i, v)
  <2>1. PICK v \in LoadSegs : j = el_torito_set_load_seg(i, v)
    BY <1>4
  <2>2. PICK x \in Int : x = Short(v, 4096)
    BY <1>1
  <2>3. j = i \/ j = [i EXCEPT !.seg = x]
    BY <2>1, <2>2 DEF el_torito_set_load_seg, NoEmul
  <2> QED  BY <2>3 DEF Images
<1>5. CASE \E v \in LoadSizes : j = el_torito_set_load_size(i, v)
  <2>1. PICK v \in LoadSizes : j = el_torito_set_load_size(i, v)
    BY <1>5
  <2>2. PICK x \in Int : x = Short(v, 65536)
    BY <1>2
  <2>3. j = i \/ j = [i EXCEPT !.size = x]
    BY <2>1, <2>2 DEF el_torito_set_load_size, NoEmul
  <2> QED  BY <2>3 DEF Images
<1>6. CASE j = el_torito_set_full_load(i)
  BY <1>6 DEF Images, el_torito_set_full_load, NoEmul
<1> QED  BY <1>3, <1>4, <1>5, <1>6 DEF Changed

-----------------------------------------------------------------------------
(* The invariant of the boot catalog.                                      *)

\* Each reference has an owner: the tree, the catalog for its own node, its images.
RefsCounted(c, tr, rf) ==
  \A p \in Paths : rf[p] = (IF p \in tr THEN 1 ELSE 0) + (IF p = CatPath /\ c.node THEN 1 ELSE 0) + Holders(c.imgs, p)
CatGood ==
  /\ cat \in [have : BOOLEAN, imgs : Seq(Images), node : BOOLEAN, sets : Nat]
  /\ cat.node = cat.have /\ (cat.have <=> cat.imgs # <<>>) /\ Len(cat.imgs) <= MaxImages
NodesGood == tree \subseteq Paths /\ refs \in [Paths -> Int] /\ RefsCounted(cat, tree, refs)
\* A run works on the catalog, and its slots are the ones of the present images.
RunGood ==
  /\ DOMAIN tgt = {"st", "src", "slots", "efi", "patched"}
  /\ tgt.st # "none" => cat.have
  /\ tgt.slots = IF tgt.st = "written" THEN CatalogSlots(cat.imgs, tgt.src) ELSE <<>>
  /\ got # <<>> => tgt.st = "written" /\ got = ReadSections(tgt.slots)
EltInv == CatGood /\ NodesGood /\ RunGood

\* The program starts without a catalog.
LEMMA EltInvInit == EltInit => EltInv
<1> SUFFICES ASSUME EltInit PROVE EltInv
  OBVIOUS
<1> USE DEF EltInit
<1>1. CatGood
  <2>1. cat = NoCat
    OBVIOUS
  <2>2. <<>> \in Seq(Images) /\ Len(<<>>) = 0 /\ MaxImages \in Nat
    BY EltAssumption
  <2> QED  BY <2>1, <2>2 DEF CatGood, NoCat
<1>2. NodesGood
  <2>1. \A p \in Paths : Holders(cat.imgs, p) = 0
    BY HoldersNone DEF NoCat
  <2>2. tree \subseteq Paths /\ refs \in [Paths -> Int]
    BY DEF Paths
  <2>3. \A p \in Paths : refs[p] = (IF p \in tree THEN 1 ELSE 0) /\ ~cat.node
    BY DEF NoCat
  <2>4. RefsCounted(cat, tree, refs)
    BY <2>1, <2>3 DEF RefsCounted
  <2> QED  BY <2>2, <2>4 DEF NodesGood
<1>3. RunGood
  BY DEF RunGood, NoTgt
<1> QED  BY <1>1, <1>2, <1>3 DEF EltInv

\* The run is not concerned by what the application does before it.
LEMMA RunIdle ==
  ASSUME RunGood, tgt.st = "none", tgt' = tgt, got' = got
  PROVE  RunGood'
<1>1. tgt'.st = "none" /\ tgt.slots = <<>> /\ got = <<>>
  BY DEF RunGood
<1> QED  BY <1>1 DEF RunGood

\* Attaching an image: its file gets one more reference.
LEMMA RefIs ==
  ASSUME NEW r \in [Paths -> Int], NEW p
  PROVE  Ref(r, p, 1) \in [Paths -> Int] /\ \A q \in Paths : Ref(r, p, 1)[q] = r[q] + (IF p = q THEN 1 ELSE 0)
BY DEF Ref

\* iso_image_set_boot_image(): the first image and the node of the catalog.
LEMMA SetBootImage ==
  ASSUME EltInv, NEW p \in DOMAIN Files \union {NoFile}, NEW app \in Nat, NEW emul \in Emuls,
         iso_image_set_boot_image(p, app, emul)
  PROVE  EltInv'
<1>1. CASE UNCHANGED evars
  BY <1>1 DEF EltInv, CatGood, NodesGood, RunGood, RefsCounted, evars
<1>2. CASE \E i \in create_image(p, app, emul) :
             /\ cat' = [NoCat EXCEPT !.have = TRUE, !.imgs = <<i>>, !.node = TRUE]
             /\ tree' = tree \union {CatPath}
             /\ refs' = Ref([refs EXCEPT ![CatPath] = 2], i.file, 1)
             /\ UNCHANGED <<tgt, got>>
  <2>1. PICK i \in create_image(p, app, emul) :
             /\ cat' = [NoCat EXCEPT !.have = TRUE, !.imgs = <<i>>, !.node = TRUE]
             /\ tree' = tree \union {CatPath}
             /\ refs' = Ref([refs EXCEPT ![CatPath] = 2], i.file, 1)
             /\ UNCHANGED <<tgt, got>>
    BY <1>2
  <2>2. i \in Images
    BY CreatedImages
  <2>3. tgt.st = "none" /\ ~cat.have /\ CatPath \notin tree
    BY DEF iso_image_set_boot_image
  <2>4. cat' = [have |-> TRUE, imgs |-> <<i>>, node |-> TRUE, sets |-> 0]
    BY <2>1 DEF NoCat
  <2>5. CatGood'
    <3>1. <<i>> \in Seq(Images) /\ Len(<<i>>) = 1 /\ <<i>> # <<>> /\ 1 <= MaxImages
      BY <2>2, EltAssumption
    <3> QED  BY <2>4, <3>1 DEF CatGood
  <2>6. cat.imgs = <<>> /\ ~cat.node
    BY <2>3 DEF EltInv, CatGood
  <2>7. \A q \in Paths : refs[q] = IF q \in tree THEN 1 ELSE 0
    <3>1. \A q \in Paths : Holders(cat.imgs, q) = 0
      BY <2>6, HoldersNone
    <3> QED  BY <2>6, <3>1 DEF EltInv, NodesGood, RefsCounted
  <2>8. PICK r : r = [refs EXCEPT ![CatPath] = 2]
    OBVIOUS
  <2>9. r \in [Paths -> Int] /\ \A q \in Paths : r[q] = IF q = CatPath THEN 2 ELSE IF q \in tree THEN 1 ELSE 0
    <3>1. CatPath \in Paths /\ refs \in [Paths -> Int] /\ 2 \in Int
      BY DEF EltInv, NodesGood, Paths
    <3>2. r \in [Paths -> Int] /\ \A q \in Paths : r[q] = IF q = CatPath THEN 2 ELSE refs[q]
      BY <2>8, <3>1
    <3> QED  BY <2>7, <3>2
  <2>10. refs' \in [Paths -> Int] /\ \A q \in Paths : refs'[q] = r[q] + (IF i.file = q THEN 1 ELSE 0)
    BY <2>1, <2>8, <2>9, RefIs
  <2>11. RefsCounted(cat', tree', refs')
    <3>1. \A q \in Paths : Holders(cat'.imgs, q) = IF i.file = q THEN 1 ELSE 0
      BY <2>2, <2>4, HoldersOne
    <3>2. cat'.node
      BY <2>4
    <3>3. \A q \in Paths : r[q] = (IF q \in tree' THEN 1 ELSE 0) + (IF q = CatPath THEN 1 ELSE 0)
      BY <2>1, <2>3, <2>9
    <3>4. \A q \in Paths : refs'[q] = (IF q \in tree' THEN 1 ELSE 0) + (IF q = CatPath THEN 1 ELSE 0)
                                      + (IF i.file = q THEN 1 ELSE 0)
      BY <2>10, <3>3
    <3> QED  BY <3>1, <3>2, <3>4 DEF RefsCounted
  <2>12. tree' \subseteq Paths
    BY <2>1 DEF EltInv, NodesGood, Paths
  <2>13. NodesGood'
    BY <2>10, <2>11, <2>12 DEF NodesGood
  <2>14. RunGood'
    BY <2>1, <2>3, RunIdle DEF EltInv
  <2> QED  BY <2>5, <2>13, <2>14 DEF EltInv
<1> QED  BY <1>1, <1>2 DEF iso_image_set_boot_image

\* iso_image_add_boot_image(): one more image, unless there are MaxImages.
LEMMA AddBootImage ==
  ASSUME EltInv, NEW p \in DOMAIN Files \union {NoFile}, NEW app \in Nat, NEW emul \in Emuls,
         iso_image_add_boot_image(p, app, emul)
  PROVE  EltInv'
<1>1. PICK i \in create_image(p, app, emul) :
        /\ cat' = [cat EXCEPT !.imgs = Append(@, i)]
        /\ refs' = Ref(refs, i.file, 1)
  BY DEF iso_image_add_boot_image
<1>2. tgt.st = "none" /\ cat.have /\ Len(cat.imgs) < MaxImages /\ UNCHANGED <<tree, tgt, got>>
  BY DEF iso_image_add_boot_image
<1>3. i \in Images
  BY CreatedImages
<1>4. /\ cat \in [have : BOOLEAN, imgs : Seq(Images), node : BOOLEAN, sets : Nat]
      /\ cat.node = cat.have
  BY DEF EltInv, CatGood
<1>5. PICK a : a = Append(cat.imgs, i) /\ a \in Seq(Images) /\ a # <<>> /\ Len(a) <= MaxImages
  <2>1. MaxImages \in Nat
    BY EltAssumption
  <2>2. PICK s \in Seq(Images) : s = cat.imgs /\ Len(s) < MaxImages
    BY <1>2, <1>4
  <2>3. Len(s) \in Nat
    OBVIOUS
  <2>4. PICK a : a = Append(s, i)
    OBVIOUS
  <2>5. a \in Seq(Images) /\ Len(a) = Len(s) + 1
    BY <1>3, <2>4
  <2>6. a # <<>> /\ Len(a) <= MaxImages
    BY <2>1, <2>2, <2>3, <2>5
  <2> QED  BY <2>2, <2>4, <2>5, <2>6
<1>6. /\ cat' \in [have : BOOLEAN, imgs : Seq(Images), node : BOOLEAN, sets : Nat]
      /\ cat'.imgs = a /\ cat'.have = cat.have /\ cat'.node = cat.node
  BY <1>1, <1>4, <1>5
<1>7. CatGood'
  BY <1>2, <1>4, <1>5, <1>6 DEF CatGood
<1>8. \A q \in Paths : /\ Holders(cat.imgs, q) \in Nat
                       /\ Holders(cat'.imgs, q) = Holders(cat.imgs, q) + (IF i.file = q THEN 1 ELSE 0)
  BY <1>3, <1>4, <1>5, <1>6, HoldersAppend
<1>9. refs' \in [Paths -> Int] /\ \A q \in Paths : refs'[q] = refs[q] + (IF i.file = q THEN 1 ELSE 0)
  <2>1. refs \in [Paths -> Int]
    BY DEF EltInv, NodesGood
  <2> QED  BY <1>1, <2>1, RefIs
<1>10. RefsCounted(cat', tree', refs')
  <2> SUFFICES ASSUME NEW q \in Paths
               PROVE  refs'[q] = (IF q \in tree' THEN 1 ELSE 0) + (IF q = CatPath /\ cat'.node THEN 1 ELSE 0)
                                 + Holders(cat'.imgs, q)
    BY DEF RefsCounted
  <2>1. refs[q] = (IF q \in tree THEN 1 ELSE 0) + (IF q = CatPath /\ cat.node THEN 1 ELSE 0)
                  + Holders(cat.imgs, q)
    BY DEF EltInv, NodesGood, RefsCounted
  <2>2. PICK h \in Nat : h = Holders(cat.imgs, q)
    BY <1>8
  <2>3. Holders(cat'.imgs, q) = h + (IF i.file = q THEN 1 ELSE 0)
    BY <1>8, <2>2
  <2>4. tree' = tree /\ cat'.node = cat.node /\ refs'[q] = refs[q] + (IF i.file = q THEN 1 ELSE 0)
    BY <1>2, <1>6, <1>9
  <2> QED  BY <2>1, <2>2, <2>3, <2>4
<1>11. NodesGood'
  BY <1>2, <1>9, <1>10 DEF EltInv, NodesGood
<1>12. RunGood'
  BY <1>2, RunIdle DEF EltInv
<1> QED  BY <1>7, <1>11, <1>12 DEF EltInv

\* The places of a node are counted by a number.
LEMMA HoldersNat ==
  ASSUME NEW imgs \in Seq(Images), NEW p
  PROVE  Holders(imgs, p) \in Nat
<1>1. PICK n \in Nat : n = Len(imgs)
  OBVIOUS
<1>2. IsFiniteSet(1 .. n)
  BY FS_Interval
<1>3. {k \in 1 .. n : imgs[k].file = p} \subseteq 1 .. n
  OBVIOUS
<1> QED  BY <1>1, <1>2, <1>3, FS_Subset, FS_CardinalityType DEF Holders

\* Removal of the catalog gives back all references of it.
LEMMA RemoveBootImage ==
  ASSUME EltInv, iso_image_remove_boot_image
  PROVE  EltInv'
<1>1. /\ tgt.st = "none" /\ cat' = NoCat /\ tree' = tree \ {CatPath} /\ UNCHANGED <<tgt, got>>
      /\ refs' = el_torito_boot_catalog_free(IF CatPath \in tree THEN [refs EXCEPT ![CatPath] = @ - 1] ELSE refs)
  BY DEF iso_image_remove_boot_image
<1>2. CatGood'
  <2>1. <<>> \in Seq(Images) /\ Len(<<>>) = 0 /\ MaxImages \in Nat
    BY EltAssumption
  <2> QED  BY <1>1, <2>1 DEF CatGood, NoCat
<1>3. PICK r : r = IF CatPath \in tree THEN [refs EXCEPT ![CatPath] = @ - 1] ELSE refs
  OBVIOUS
<1>4. \A q \in Paths : r[q] \in Int /\ r[q] = refs[q] - (IF q = CatPath /\ q \in tree THEN 1 ELSE 0)
  <2>1. refs \in [Paths -> Int] /\ CatPath \in Paths
    BY DEF EltInv, NodesGood, Paths
  <2> QED  BY <1>3, <2>1
<1>5. refs' = [q \in Paths |-> r[q] - (IF q = CatPath /\ cat.node THEN 1 ELSE 0) - Holders(cat.imgs, q)]
  BY <1>1, <1>3 DEF el_torito_boot_catalog_free, Holders
<1>6. \A q \in Paths : refs'[q] = IF q \in tree' THEN 1 ELSE 0
  <2> TAKE q \in Paths
  <2>1. refs[q] = (IF q \in tree THEN 1 ELSE 0) + (IF q = CatPath /\ cat.node THEN 1 ELSE 0)
                  + Holders(cat.imgs, q)
    BY DEF EltInv, NodesGood, RefsCounted
  <2>2. Holders(cat.imgs, q) \in Nat
    BY HoldersNat DEF EltInv, CatGood
  <2>3. refs'[q] = r[q] - (IF q = CatPath /\ cat.node THEN 1 ELSE 0) - Holders(cat.imgs, q)
    BY <1>5
  <2>4. r[q] = refs[q] - (IF q = CatPath /\ q \in tree THEN 1 ELSE 0)
    BY <1>4
  <2>5. q \in tree' <=> q \in tree /\ q # CatPath
    BY <1>1
  <2>6. PICK h \in Nat : h = Holders(cat.imgs, q)
    BY <2>2
  <2> QED  BY <2>1, <2>3, <2>4, <2>5, <2>6
<1>7. refs' \in [Paths -> Int]
  <2>1. \A q \in Paths : refs'[q] \in Int
    BY <1>6
  <2> QED  BY <1>5, <2>1
<1>8. RefsCounted(cat', tree', refs')
  <2>1. \A q \in Paths : Holders(cat'.imgs, q) = 0
    BY <1>1, HoldersNone DEF NoCat
  <2>2. ~cat'.node
    BY <1>1 DEF NoCat
  <2> QED  BY <1>6, <2>1, <2>2 DEF RefsCounted
<1>9. NodesGood'
  <2>1. tree' \subseteq Paths
    BY <1>1 DEF EltInv, NodesGood
  <2> QED  BY <1>7, <1>8, <2>1 DEF NodesGood
<1>10. RunGood'
  BY <1>1, RunIdle DEF EltInv
<1> QED  BY <1>2, <1>9, <1>10 DEF EltInv

\* A node which leaves the tree may still be held by the catalog.
LEMMA RemoveTreeNode ==
  ASSUME EltInv, NEW p \in Paths, RemoveNode(p)
  PROVE  EltInv'
<1>1. /\ tgt.st = "none" /\ p \in tree /\ tree' = tree \ {p} /\ refs' = [refs EXCEPT ![p] = @ - 1]
      /\ UNCHANGED <<cat, tgt, got>>
  BY DEF RemoveNode
<1>2. CatGood'
  BY <1>1 DEF EltInv, CatGood
<1>3. refs \in [Paths -> Int]
  BY DEF EltInv, NodesGood
<1>4. refs' \in [Paths -> Int] /\ \A q \in Paths : refs'[q] = IF q = p THEN refs[q] - 1 ELSE refs[q]
  BY <1>1, <1>3
<1>5. RefsCounted(cat', tree', refs')
  <2> SUFFICES ASSUME NEW q \in Paths
               PROVE  refs'[q] = (IF q \in tree' THEN 1 ELSE 0) + (IF q = CatPath /\ cat.node THEN 1 ELSE 0)
                                 + Holders(cat.imgs, q)
    BY <1>1 DEF RefsCounted
  <2>1. PICK a \in Int : a = IF q = CatPath /\ cat.node THEN 1 ELSE 0
    OBVIOUS
  <2>2. PICK h : h = Holders(cat.imgs, q)
    OBVIOUS
  <2>3. refs[q] = (IF q \in tree THEN 1 ELSE 0) + a + h
    BY <2>1, <2>2 DEF EltInv, NodesGood, RefsCounted
  <2>4. h \in Nat
    BY <2>2, HoldersNat DEF EltInv, CatGood
  <2>5. CASE q = p
    <3>1. q \in tree /\ q \notin tree' /\ refs'[q] = refs[q] - 1
      BY <1>1, <1>4, <2>5
    <3> QED  BY <2>1, <2>2, <2>3, <2>4, <3>1
  <2>6. CASE q # p
    BY <1>1, <1>4, <2>1, <2>2, <2>3, <2>6
  <2> QED  BY <2>5, <2>6
<1>6. NodesGood'
  <2>1. tree' \subseteq Paths
    BY <1>1 DEF EltInv, NodesGood
  <2> QED  BY <1>4, <1>5, <2>1 DEF NodesGood
<1>7. RunGood'
  BY <1>1, RunIdle DEF EltInv
<1> QED  BY <1>2, <1>6, <1>7 DEF EltInv

\* A setter of the last image.
LEMMA SetterCall ==
  ASSUME EltInv, SetImage
  PROVE  EltInv'
<1>1. tgt.st = "none" /\ cat.have /\ UNCHANGED <<tree, refs, tgt, got>>
  BY DEF SetImage
<1>2. PICK k : k = Len(cat.imgs)
  OBVIOUS
<1>3. PICK i \in Changed(cat.imgs[k]) : cat' = [cat EXCEPT !.imgs[k] = i, !.sets = @ + 1]
  BY <1>2 DEF SetImage
<1>4. /\ cat \in [have : BOOLEAN, imgs : Seq(Images), node : BOOLEAN, sets : Nat]
      /\ cat.node = cat.have /\ cat.imgs # <<>> /\ Len(cat.imgs) <= MaxImages
  BY <1>1 DEF EltInv, CatGood
<1>5. PICK s \in Seq(Images) : s = cat.imgs /\ s # <<>> /\ k \in 1 .. Len(s)
  <2>1. PICK s \in Seq(Images) : s = cat.imgs /\ s # <<>>
    BY <1>4
  <2>2. Len(s) \in Nat /\ Len(s) # 0
    BY <2>1, EmptySeq
  <2> QED  BY <1>2, <2>1, <2>2
<1>6. i \in Images /\ i.file = s[k].file
  <2>1. s[k] \in Images
    BY <1>5
  <2> QED  BY <1>3, <1>5, <2>1, ChangedImages
<1>7. PICK q : q = [s EXCEPT ![k] = i]
  OBVIOUS
<1>8. /\ q \in Seq(Images) /\ Len(q) = Len(s) /\ q # <<>>
      /\ \A j \in 1 .. Len(s) : q[j].file = s[j].file
  <2>1. /\ q \in Seq(Images) /\ Len(q) = Len(s)
        /\ \A j \in 1 .. Len(s) : q[j] = IF j = k THEN i ELSE s[j]
    BY <1>5, <1>6, <1>7, ExceptSeq
  <2>2. q # <<>>
    BY <1>5, <2>1
  <2> QED  BY <1>6, <2>1, <2>2
<1>9. /\ cat' \in [have : BOOLEAN, imgs : Seq(Images), node : BOOLEAN, sets : Nat]
      /\ cat'.imgs = q /\ cat'.have = cat.have /\ cat'.node = cat.node
  <2>1. cat' = [cat EXCEPT !.imgs = q, !.sets = @ + 1]
    BY <1>3, <1>5, <1>7
  <2>2. cat.sets + 1 \in Nat
    BY <1>4
  <2> QED  BY <1>4, <1>8, <2>1, <2>2
<1>10. CatGood'
  BY <1>1, <1>4, <1>5, <1>8, <1>9 DEF CatGood
<1>11. \A p : Holders(cat'.imgs, p) = Holders(cat.imgs, p)
  BY <1>5, <1>8, <1>9, HoldersSame
<1>12. NodesGood'
  BY <1>1, <1>9, <1>11 DEF EltInv, NodesGood, RefsCounted
<1>13. RunGood'
  BY <1>1, RunIdle DEF EltInv
<1> QED  BY <1>10, <1>12, <1>13 DEF EltInv

-----------------------------------------------------------------------------
(* The steps of a write run and of the import.                             *)

LEMMA RunSteps ==
  ASSUME EltInv,
         \/ \E app \in {0, 500}, efi \in BOOLEAN : eltorito_writer_create(app, efi)
         \/ iso_patch_eltoritos \/ catalog_open \/ read_el_torito_boot_catalog \/ EndRun
  PROVE  EltInv'
<1>1. UNCHANGED <<cat, tree, refs>>
  BY DEF eltorito_writer_create, iso_patch_eltoritos, catalog_open, read_el_torito_boot_catalog, EndRun
<1>2. CatGood' /\ NodesGood'
  BY <1>1 DEF EltInv, CatGood, NodesGood, RefsCounted
<1>3. RunGood'
  <2> USE DEF RunGood
  <2>1. RunGood
    BY DEF EltInv
  <2>2. ASSUME NEW app \in {0, 500}, NEW efi \in BOOLEAN, eltorito_writer_create(app, efi)
        PROVE  RunGood'
    <3>1. tgt.st = "none" /\ cat.have /\ got' = got
      BY <2>2 DEF eltorito_writer_create
    <3>2. PICK a, b, c : /\ tgt' = [NoTgt EXCEPT !.st = a, !.efi = b, !.src = c]
                         /\ a \in {"failed", "created"}
      <4> DEFINE mine == {k \in 1..Len(cat.imgs) : cat.imgs[k].app = 0 /\ cat.imgs[k].plat = 239}
                 st == IF efi /\ mine = {} THEN "failed" ELSE "created"
                 ef == IF efi /\ mine # {} THEN Min(mine) ELSE 0
                 bl == [k \in 1..Len(cat.imgs) |->
                          IF cat.imgs[k].app > 0 THEN app ELSE BlockOf(cat.imgs[k].file)]
      <4>1. tgt' = [NoTgt EXCEPT !.st = st, !.efi = ef, !.src = bl]
        BY <2>2 DEF eltorito_writer_create
      <4>2. st \in {"failed", "created"}
        OBVIOUS
      <4> HIDE DEF st, ef, bl
      <4> QED  BY <4>1, <4>2
    <3>3. tgt'.st = a /\ tgt'.slots = <<>> /\ DOMAIN tgt' = {"st", "src", "slots", "efi", "patched"}
      BY <3>2 DEF NoTgt
    <3>4. got = <<>>
      BY <2>1, <3>1
    <3> QED  BY <1>1, <3>1, <3>2, <3>3, <3>4
  <2>3. CASE iso_patch_eltoritos
    <3>1. tgt.st = "created" /\ got' = got
      BY <2>3 DEF iso_patch_eltoritos
    <3>2. tgt' = [tgt EXCEPT !.st = "failed"] \/ \E b : tgt' = [tgt EXCEPT !.st = "patched", !.patched = b]
      BY <2>3 DEF iso_patch_eltoritos
    <3>3. /\ tgt'.st \in {"failed", "patched"} /\ tgt'.slots = tgt.slots /\ DOMAIN tgt' = DOMAIN tgt
      BY <2>1, <3>2
    <3> QED  BY <1>1, <2>1, <3>1, <3>3
  <2>4. CASE catalog_open
    <3>1. tgt.st = "patched" /\ got' = got /\ got = <<>> /\ tgt.slots = <<>> /\ cat.have
      BY <2>1, <2>4 DEF catalog_open
    <3>2. \/ tgt' = [tgt EXCEPT !.st = "failed"]
          \/ tgt' = [tgt EXCEPT !.st = "written", !.slots = CatalogSlots(cat.imgs, tgt.src)]
      BY <2>4 DEF catalog_open
    <3>3. \/ tgt'.st = "failed" /\ tgt'.slots = <<>> /\ DOMAIN tgt' = DOMAIN tgt
          \/ /\ tgt'.st = "written" /\ tgt'.slots = CatalogSlots(cat.imgs, tgt.src)
             /\ tgt'.src = tgt.src /\ DOMAIN tgt' = DOMAIN tgt
      BY <2>1, <3>1, <3>2
    <3> QED  BY <1>1, <2>1, <3>1, <3>3
  <2>5. CASE read_el_torito_boot_catalog
    BY <1>1, <2>1, <2>5 DEF read_el_torito_boot_catalog
  <2>6. CASE EndRun
    BY <1>1, <2>6 DEF EndRun, NoTgt
  <2> QED  BY <2>2, <2>3, <2>4, <2>5, <2>6
<1> QED  BY <1>2, <1>3 DEF EltInv

\* Each step of the program, of a write run and of the import keeps EltInv.
LEMMA EltInvNext ==
  ASSUME EltInv, [EltNext]_evars
  PROVE  EltInv'
<1>1. CASE UNCHANGED evars
  BY <1>1 DEF EltInv, CatGood, NodesGood, RunGood, RefsCounted, evars
<1>2. ASSUME NEW p \in DOMAIN Files, NEW emul \in Emuls,
             iso_image_set_boot_image(p, 0, emul) \/ iso_image_add_boot_image(p, 0, emul)
      PROVE  EltInv'
  <2>1. p \in DOMAIN Files \union {NoFile} /\ 0 \in Nat
    OBVIOUS
  <2> QED  BY <1>2, <2>1, SetBootImage, AddBootImage
<1>3. ASSUME NEW emul \in Emuls,
             iso_image_set_boot_image(NoFile, 2, emul) \/ iso_image_add_boot_image(NoFile, 2, emul)
      PROVE  EltInv'
  <2>1. NoFile \in DOMAIN Files \union {NoFile} /\ 2 \in Nat
    OBVIOUS
  <2> QED  BY <1>3, <2>1, SetBootImage, AddBootImage
<1>4. CASE iso_image_remove_boot_image
  BY <1>4, RemoveBootImage
<1>5. CASE SetImage
  BY <1>5, SetterCall
<1>6. ASSUME NEW p \in Paths, RemoveNode(p)
      PROVE  EltInv'
  BY <1>6, RemoveTreeNode
<1> QED  BY <1>1, <1>2, <1>3, <1>4, <1>5, <1>6, RunSteps DEF EltNext

\* For any images, calls of setters, removals and write runs: the references
\* of catalog and tree are counted exactly, the catalog fits into its block,
\* and an import finds in it just the images that were attached.
THEOREM CatalogKept == EltSpec => []CatalogSound
<1>1. EltInv => CatalogSound
  <2> SUFFICES ASSUME EltInv PROVE CatalogSound
    OBVIOUS
  <2>1. CatalogReferences
    BY DEF EltInv, NodesGood, RefsCounted, CatalogReferences, Holders
  <2>2. ASSUME tgt.st = "written"
        PROVE  /\ Len(tgt.slots) \in Nat /\ Len(tgt.slots) <= 2 * Len(cat.imgs)
               /\ Len(ReadSections(tgt.slots)) = Len(cat.imgs)
               /\ \A k \in 1 .. Len(ReadSections(tgt.slots)) :
                    ReadSections(tgt.slots)[k] = AsImported(cat.imgs, tgt.src, k)
    <3>1. /\ cat.imgs \in Seq(Images) /\ cat.imgs # <<>> /\ Len(cat.imgs) <= MaxImages
          /\ tgt.slots = CatalogSlots(cat.imgs, tgt.src)
      BY <2>2 DEF EltInv, CatGood, RunGood
    <3> QED  BY <3>1, CatalogReadBack
  <2>3. CatalogFits
    <3>1. Len(cat.imgs) \in Nat /\ Len(cat.imgs) <= MaxImages /\ MaxImages \in Nat
      BY EltAssumption DEF EltInv, CatGood
    <3>2. CASE tgt.st = "written"
      <4>1. PICK l : l = Len(tgt.slots) /\ l <= 2 * Len(cat.imgs) /\ l \in Nat
        BY <2>2, <3>2
      <4> QED  BY <3>1, <4>1 DEF CatalogFits
    <3>3. CASE tgt.st # "written"
      <4>1. Len(tgt.slots) = 0
        BY <3>3 DEF EltInv, RunGood
      <4> QED  BY <3>1, <4>1 DEF CatalogFits
    <3> QED  BY <3>2, <3>3
  <2>4. CatalogRoundTrip
    <3>1. SUFFICES ASSUME got # <<>>
                   PROVE  /\ Len(got) = Len(cat.imgs)
                          /\ \A k \in 1 .. Len(got) : got[k] = AsImported(cat.imgs, tgt.src, k)
      BY DEF CatalogRoundTrip, AsImported
    <3>2. tgt.st = "written" /\ got = ReadSections(tgt.slots)
      BY <3>1 DEF EltInv, RunGood
    <3> QED  BY <2>2, <3>2
  <2> QED  BY <2>1, <2>3, <2>4 DEF CatalogSound
<1>2. EltSpec => []EltInv
  BY EltInvInit, EltInvNext, PTL DEF EltSpec
<1> QED  BY <1>1, <1>2, PTL
=============================================================================

------------------------------ MODULE RingBuffer ------------------------------
(***************************************************************************)
(* libisofs/buffer.c: the fifo between the image generator thread, which   *)
(* writes, and the thread of the burn program, which reads.                *)
(*                                                                         *)
(* Every access to the shared struct happens between pthread_mutex_lock    *)
(* and pthread_mutex_unlock or pthread_cond_wait, so one pass through such *)
(* a section is one action.  A thread that waits on a condition variable   *)
(* is in state "wait" until it is signalled or wakes up spuriously; then   *)
(* it competes for the mutex again ("run").                                *)
(*                                                                         *)
(* The payload is abstracted: byte number i of the image is the number i.  *)
(***************************************************************************)
EXTENDS Integers, Sequences

CONSTANTS
  FifoSize,      \* blocks demanded by iso_write_opts_set_fifo_size()
  MinBlocks,     \* least number of blocks of a buffer, 32 in the code
  BlockSize,     \* BLOCK_SIZE, 2048 in the code
  ImageSize,     \* bytes which the generator has to write
  WriteCounts,   \* values of parameter count of iso_ring_buffer_write()
  ReadCounts     \* values of parameter count of iso_ring_buffer_read()

ASSUME SizeAssumption ==
  /\ FifoSize \in Nat
  /\ MinBlocks \in Nat \ {0}
  /\ BlockSize \in Nat \ {0}
  /\ ImageSize \in Nat

ASSUME CountAssumption == WriteCounts \subseteq Nat /\ ReadCounts \subseteq Nat

VARIABLES
  buf, size, rpos, wpos, rend, wend,   \* struct iso_ring_buffer
  wpc,        \* writer: "idle" = between calls, "run", "wait" = on full
  wleft,      \* writer: count - bytes_write of the current call
  wfail,      \* writer: a call has returned 0, the reader is gone
  rpc,        \* reader: "idle" = between calls, "run", "wait" = on empty
  rleft,      \* reader: count - bytes_read of the current call
  eof,        \* reader: a call has returned 0
  sent,       \* bytes of the image which were copied into the buffer
  delivered   \* bytes which were copied out of the buffer, in this order

ring   == <<buf, size, rpos, wpos>>
writer == <<wpc, wleft, wfail, sent>>
reader == <<rpc, rleft, eof, delivered>>
vars   == <<ring, rend, wend, writer, reader>>

Min2(a, b) == IF a < b THEN a ELSE b

\* iso_ring_buffer_new(): a demand for less than MinBlocks blocks is ignored.
Cap == (IF FifoSize > MinBlocks THEN FifoSize ELSE MinBlocks) * BlockSize

Slots == 0 .. Cap - 1

Init ==
  /\ buf = [k \in Slots |-> 0]
  /\ size = 0 /\ rpos = 0 /\ wpos = 0
  /\ rend = 0 /\ wend = 0
  /\ wpc = "idle" /\ wleft = 0 /\ wfail = FALSE /\ sent = 0
  /\ rpc = "idle" /\ rleft = 0 /\ eof = FALSE /\ delivered = <<>>

-----------------------------------------------------------------------------
(* pthread_cond_signal(): at most one thread waits on either condition.    *)

SignalEmpty == rpc' = IF rpc = "wait" THEN "run" ELSE rpc
SignalFull  == wpc' = IF wpc = "wait" THEN "run" ELSE wpc

SpuriousWakeup ==
  /\ \/ wpc = "wait" /\ wpc' = "run" /\ UNCHANGED rpc
     \/ rpc = "wait" /\ rpc' = "run" /\ UNCHANGED wpc
  /\ UNCHANGED <<ring, rend, wend, wleft, wfail, sent, rleft, eof, delivered>>

-----------------------------------------------------------------------------
(* The writer: iso_ring_buffer_write(), iso_ring_buffer_writer_close().    *)

\* iso_write() hands over the next count bytes.  The generator makes no such
\* call after one was answered by 0 or after it closed the buffer.
WriteCall(count) ==
  /\ wpc = "idle" /\ wend = 0 /\ ~wfail
  /\ count =< ImageSize - sent
  /\ wleft' = count
  /\ wpc' = IF count > 0 THEN "run" ELSE "idle"
  /\ UNCHANGED <<ring, rend, wend, wfail, sent, reader>>

\* Mutant: the end of the memory region is not respected.
WriteLenNoClip == Min2(wleft, Cap - size)

\* Mutant: the fill level is not respected.
WriteLenNoLimit == Min2(wleft, Cap - wpos)

\* The length of the next memcpy(): bounded by the free space and by the end
\* of the memory region.
WriteLen ==
  LET len == Min2(wleft, Cap - size)
  IN  IF wpos + len > Cap THEN Cap - wpos ELSE len

WriteCopy ==
  /\ wpc = "run" /\ size # Cap
  /\ buf' = [k \in Slots |-> IF wpos =< k /\ k < wpos + WriteLen
                             THEN sent + (k - wpos) + 1 ELSE buf[k]]
  /\ wpos' = (wpos + WriteLen) % Cap
  /\ size' = size + WriteLen
  /\ sent' = sent + WriteLen
  /\ wleft' = wleft - WriteLen
  /\ wpc' = IF wleft' > 0 THEN "run" ELSE "idle"
  /\ SignalEmpty
  /\ UNCHANGED <<rpos, rend, wend, wfail, rleft, eof, delivered>>

\* Buffer full and the reader has gone: the call returns 0.
WriteAbandoned ==
  /\ wpc = "run" /\ size = Cap /\ rend # 0
  /\ wpc' = "idle" /\ wfail' = TRUE
  /\ UNCHANGED <<ring, rend, wend, wleft, sent, reader>>

\* Buffer full: pthread_cond_wait(&buf->full).
WriteWait ==
  /\ wpc = "run" /\ size = Cap /\ rend = 0
  /\ wpc' = "wait"
  /\ UNCHANGED <<ring, rend, wend, wleft, wfail, sent, reader>>

\* Mutant: the waiting reader is not woken.
WriterCloseNoSignal(error) ==
  /\ wpc = "idle"
  /\ \/ wend = 0 /\ (~error => sent = ImageSize /\ ~wfail)
     \/ wend = 1 /\ error
  /\ wend' = IF error THEN 2 ELSE 1
  /\ UNCHANGED <<ring, rend, writer, rpc, rleft, eof, delivered>>

\* write_function() closes with success when all is written, with error from
\* label write_error; the latter can follow the former if libjte fails at its
\* end.
WriterClose(error) ==
  /\ wpc = "idle"
  /\ \/ wend = 0 /\ (~error => sent = ImageSize /\ ~wfail)
     \/ wend = 1 /\ error
  /\ wend' = IF error THEN 2 ELSE 1
  /\ SignalEmpty
  /\ UNCHANGED <<ring, rend, writer, rleft, eof, delivered>>

-----------------------------------------------------------------------------
(* The reader: iso_ring_buffer_read(), iso_ring_buffer_reader_close().     *)

ReadCall(count) ==
  /\ rpc = "idle"
  /\ rleft' = count
  /\ rpc' = IF count > 0 THEN "run" ELSE "idle"
  /\ UNCHANGED <<ring, rend, wend, writer, eof, delivered>>

ReadLen ==
  LET len == Min2(rleft, size)
  IN  IF rpos + len > Cap THEN Cap - rpos ELSE len

ReadCopy ==
  /\ rpc = "run" /\ size # 0
  /\ delivered' = delivered \o [i \in 1 .. ReadLen |-> buf[rpos + i - 1]]
  /\ rpos' = (rpos + ReadLen) % Cap
  /\ size' = size - ReadLen
  /\ rleft' = rleft - ReadLen
  /\ rpc' = IF rleft' > 0 THEN "run" ELSE "idle"
  /\ SignalFull
  /\ UNCHANGED <<buf, wpos, rend, wend, wleft, wfail, sent, eof>>

\* Mutant: the end of the writer counts more than the bytes still in store.
ReadEOFEarly ==
  /\ rpc = "run" /\ wend # 0
  /\ rpc' = "idle" /\ eof' = TRUE
  /\ UNCHANGED <<ring, rend, wend, writer, rleft, delivered>>

\* Buffer empty and the writer has ended: the call returns 0.
ReadEOF ==
  /\ rpc = "run" /\ size = 0 /\ wend # 0
  /\ rpc' = "idle" /\ eof' = TRUE
  /\ UNCHANGED <<ring, rend, wend, writer, rleft, delivered>>

\* Buffer empty: pthread_cond_wait(&buf->empty).
ReadWait ==
  /\ rpc = "run" /\ size = 0 /\ wend = 0
  /\ rpc' = "wait"
  /\ UNCHANGED <<ring, rend, wend, writer, rleft, eof, delivered>>

\* Mutant: the waiting writer is not woken.
ReaderCloseNoSignal(error) ==
  /\ rend = 0
  /\ rend' = IF error THEN 2 ELSE 1
  /\ UNCHANGED <<ring, wend, writer, reader>>

\* Mutant: a second close overwrites the result of the first.
ReaderCloseTwice(error) ==
  /\ rend' = IF error THEN 2 ELSE 1
  /\ SignalFull
  /\ UNCHANGED <<ring, wend, wleft, wfail, sent, reader>>

\* Called by bs_cancel() and bs_free_data(), in any thread and at any time,
\* even while another thread of the burn program waits in a read call.
ReaderClose(error) ==
  /\ rend = 0
  /\ rend' = IF error THEN 2 ELSE 1
  /\ SignalFull
  /\ UNCHANGED <<ring, wend, wleft, wfail, sent, reader>>

\* iso_ring_buffer_get_buf_status(): 1 active, 2 ending, 3 failing,
\* 5 abandoned, 6 ended, 7 aborted.
BufStatus == (IF rend # 0 THEN 4 ELSE 0) + (wend + 1)

-----------------------------------------------------------------------------
WriterStep == \/ WriteCopy \/ WriteAbandoned \/ WriteWait
              \/ \E count \in WriteCounts : WriteCall(count)
              \/ \E error \in BOOLEAN : WriterClose(error)

ReaderStep == ReadCopy \/ ReadEOF \/ ReadWait

Next == \/ WriterStep
        \/ ReaderStep
        \/ \E count \in ReadCounts : ReadCall(count)
        \/ \E error \in BOOLEAN : ReaderClose(error)
        \/ SpuriousWakeup

\* The operating system schedules a thread that can run.  The generator makes
\* the calls it needs and finally closes the buffer.  Nothing forces the burn
\* program to make another read call or to close its end.
GeneratorProgress ==
  \/ WriteCopy \/ WriteAbandoned \/ WriteWait
  \/ \E count \in WriteCounts : count > 0 /\ WriteCall(count)
  \/ wend = 0 /\ \E error \in BOOLEAN : WriterClose(error)

Spec == /\ Init /\ [][Next]_vars
        /\ WF_vars(GeneratorProgress)
        /\ WF_vars(ReaderStep)

-----------------------------------------------------------------------------
(* Properties.                                                             *)

\* The fields of struct iso_ring_buffer keep their types: size stays within
\* cap, both positions within the buffer, and a thread within a call still has
\* bytes to transfer.
TypeOK ==
  /\ buf \in [Slots -> Nat]
  /\ size \in 0 .. Cap /\ rpos \in Slots /\ wpos \in Slots
  /\ rend \in 0 .. 2 /\ wend \in 0 .. 2
  /\ wpc \in {"idle", "run", "wait"} /\ rpc \in {"idle", "run", "wait"}
  /\ wleft \in Nat /\ rleft \in Nat
  /\ (wpc # "idle" => wleft > 0) /\ (rpc # "idle" => rleft > 0)
  /\ wfail \in BOOLEAN /\ eof \in BOOLEAN
  /\ sent \in Nat /\ delivered \in Seq(Nat)

\* A thread sleeps in pthread_cond_wait() only while the condition it waits
\* for is absent: a full buffer with a present reader, an empty buffer with a
\* present writer.  One pthread_cond_signal() per change is enough.
NoLostWakeup ==
  /\ wpc = "wait" => size = Cap /\ rend = 0
  /\ rpc = "wait" => size = 0 /\ wend = 0

\* The ring holds exactly the bytes sent and not yet delivered, from rpos
\* up to wpos, across the wrap-around at the end of the memory region.
RingContent ==
  /\ wpos = (rpos + size) % Cap
  /\ sent = Len(delivered) + size
  /\ \A i \in 0 .. size - 1 :
        buf[(rpos + i) % Cap] = Len(delivered) + i + 1

\* The reader gets the image bytes in order, none twice, none left out.
StreamInOrder == \A i \in 1 .. Len(delivered) : delivered[i] = i

\* A call in progress never asks for bytes beyond the image, and the writer
\* is idle once it has closed the buffer.
WriterProtocol == /\ sent + (IF wpc = "idle" THEN 0 ELSE wleft) =< ImageSize
                  /\ wend # 0 => wpc = "idle"
                  /\ wend = 1 => sent = ImageSize

\* End of file with a sound writer end means that the whole image came
\* through: a late or early EOF cannot truncate a track silently.
EofMeansComplete == eof /\ wend = 1 => Len(delivered) = ImageSize

\* The reader is told EOF only after the writer has ended and the ring was
\* drained; nothing enters the ring any more.
EofSound == eof => wend # 0 /\ size = 0

\* A cancelled generation ends, which is what the pthread_join() of
\* bs_cancel() and bs_free_data() relies on.
CancelEndsGenerator == (rend # 0) ~> (wend # 0)

\* Every read call returns, with data or with EOF.
ReadReturns == (rpc # "idle") ~> (rpc = "idle")

\* No call at the fifo lasts for ever: neither the write of a generator whose
\* reader has left nor a read, whatever the other side does (the waiting loops
\* of iso_ring_buffer_write() and iso_ring_buffer_read()).
CallsEnd == CancelEndsGenerator /\ ReadReturns

\* The inductive invariant behind the safety properties.
IndInv == /\ TypeOK /\ NoLostWakeup /\ WriterProtocol /\ RingContent
          /\ StreamInOrder /\ EofSound

\* The ring buffer implements the abstract channel.
Channel == INSTANCE ByteChannel WITH
  Capacity <- Cap,
  Length   <- ImageSize,
  transit  <- [i \in 1 .. size |-> buf[(rpos + i - 1) % Cap]],
  received <- delivered,
  sendEnd  <- wend,
  recvEnd  <- rend

ImplementsChannel == Channel!Spec
=============================================================================

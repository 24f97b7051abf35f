----------------------------- MODULE ByteChannel -----------------------------
(***************************************************************************)
(* What the image consumer may rely on: the abstract promise of the fifo   *)
(* between the image generator and the burn program.                       *)
(*                                                                         *)
(* The generator pushes the image byte by byte, in stream order; the       *)
(* consumer pulls the very same stream.  Either side may close its end.    *)
(* No ring, no positions, no condition variables: byte number i of the     *)
(* image is simply the number i.                                           *)
(***************************************************************************)
EXTENDS Integers, Sequences

CONSTANTS Capacity,   \* how many bytes may be in transit
          Length      \* size of the image in bytes

VARIABLES transit,    \* bytes sent and not yet received
          received,   \* bytes the consumer got, oldest first
          sendEnd,    \* 0 = open, 1 = image complete, 2 = failed
          recvEnd     \* 0 = open, 1 or 2 = the consumer has left

cvars == <<transit, received, sendEnd, recvEnd>>

Init == /\ transit = <<>>
        /\ received = <<>>
        /\ sendEnd = 0
        /\ recvEnd = 0

\* The generator sends the next n bytes of the image.
Send(n) ==
  LET sent == Len(received) + Len(transit) IN
  /\ sendEnd = 0
  /\ Len(transit) + n =< Capacity
  /\ sent + n =< Length
  /\ transit' = [i \in 1 .. Len(transit) + n |-> Len(received) + i]
  /\ UNCHANGED <<received, sendEnd, recvEnd>>

\* The consumer receives the n oldest bytes in transit.
Receive(n) ==
  /\ n =< Len(transit)
  /\ received' = [i \in 1 .. Len(received) + n |-> i]
  /\ transit' = [i \in 1 .. Len(transit) - n |-> Len(received) + n + i]
  /\ UNCHANGED <<sendEnd, recvEnd>>

\* The generator ends.  Success is reported only for the complete image, and
\* a reported failure is never taken back.
CloseSend(e) ==
  /\ e = 1 => sendEnd # 2 /\ Len(received) + Len(transit) = Length
  /\ sendEnd' = e
  /\ UNCHANGED <<transit, received, recvEnd>>

CloseReceive(e) ==
  /\ recvEnd = 0
  /\ recvEnd' = e
  /\ UNCHANGED <<transit, received, sendEnd>>

Next == \/ \E n \in 1 .. Capacity : Send(n) \/ Receive(n)
        \/ \E e \in 1 .. 2 : CloseSend(e) \/ CloseReceive(e)

Spec == Init /\ [][Next]_cvars
=============================================================================

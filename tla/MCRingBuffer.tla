---------------------------- MODULE MCRingBuffer ----------------------------
(* Instance for TLC: a ring of Cap = 4 bytes and an image of 7 bytes, so   *)
(* that positions wrap around, with write calls larger than the ring.      *)
EXTENDS RingBuffer

MCWriteCounts == {0, 1, 2, 5}
MCReadCounts  == {0, 1, 3}
=============================================================================

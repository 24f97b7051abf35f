---------------------------- MODULE MCBurnSource ----------------------------
(* Two successive generations of one image.  The head of the image takes 1 *)
(* block, its partition copy 2 more, so that a minimal fifo of 1 block     *)
(* would be too small for an overwrite buffer.  The image fills the        *)
(* minimal fifo, so that the generator has to wait for the consumer.       *)
EXTENDS BurnSource

Opt(f, o, w) == [fifoSize |-> f, overwrite |-> o, willCancel |-> w]

MCOptions == {Opt(1, FALSE, FALSE), Opt(1, TRUE, FALSE), Opt(3, TRUE, FALSE),
              Opt(1, FALSE, TRUE)}
MCTrueSize == {2}
=============================================================================

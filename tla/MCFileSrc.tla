------------------------------- MODULE MCFileSrc -------------------------------
(***************************************************************************)
(* Small instances of FileSrc: blocks of 2 bytes, extents of 2 blocks.     *)
(***************************************************************************)
EXTENDS FileSrc, TLC

CONSTANTS f1, f2

MCSources == {f1, f2}
MCSizes == {0, 5, 6, 10}
MCWeight == (f1 :> 0) @@ (f2 :> 1)
MCMaxSection == ExtentSize + BlockSize - 1
=============================================================================

------------------------- MODULE MCFileTransaction -------------------------
(* Small instances of FileTransaction for TLC.                              *)
EXTENDS FileTransaction

CONSTANTS c1, c2, c3

ThreeContents == {c1, c2, c3}
=============================================================================

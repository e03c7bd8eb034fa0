----------------------------- MODULE MCDiskLink -----------------------------
(***************************************************************************)
(* DiskLink for TLC: blocks of three units in chunks of two, so that a     *)
(* block takes two chunks and the second is short; two blocks that neither *)
(* cylinder nor sector alone tells apart.                                  *)
(***************************************************************************)
EXTENDS DiskLink

TwoBlocks == {<<0, 1>>, <<1, 0>>}
=============================================================================

------------------------------ MODULE MCAlloc ------------------------------
(***************************************************************************)
(* Alloc on a disk small enough for TLC: more blocks in one cache group    *)
(* than its two ways, so that it overflows, and, as in the code, a bitmap  *)
(* with bits for fewer zones than get_free_id looks at; a kill can cut it  *)
(* after the bits of id 1.                                                 *)
(***************************************************************************)
EXTENDS Alloc
=============================================================================

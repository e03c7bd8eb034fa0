----------------------------- MODULE MCFileData -----------------------------
(***************************************************************************)
(* FileData for TLC: zones of two characters, inodes of one direct pointer *)
(* and two of either other kind, index zones of two.  One file can grow to *)
(* its end and past it.  Between its appends there are up to Turns other   *)
(* commands: the small file comes, grows and goes and its zones are taken  *)
(* over, the big one is written afresh or removed.                         *)
(***************************************************************************)
EXTENDS FileData

CONSTANT Turns
VARIABLE turns  \* commands other than appends to the big file, so far

LimitOfFile == [f \in File |-> IF f = "big" THEN DataZones * (ZONESIZE - 1) + 1 ELSE 3]

MCInit == Init /\ turns = 0

Turn ==
  /\ turns < Turns /\ turns' = turns + 1
  /\ \E f \in File : touch(f) \/ rm(f) \/ write(f) \/ (f # "big" /\ Append_(f))

MCNext ==
  \/ Turn
  \/ Append_("big") /\ UNCHANGED turns
  \/ (Put \/ Reply \/ Crash) /\ UNCHANGED turns

MCSpec == MCInit /\ [][MCNext]_<<vars, turns>>
=============================================================================

------------------------------ MODULE MCShell ------------------------------
(***************************************************************************)
(* Shell for TLC.                                                          *)
(*   MCShellTalk.cfg  directories of one zone and files whose lines are    *)
(*                    counted right, up to the first index zone of the     *)
(*                    second level; commands longer than the server's      *)
(*                    buffer; shells that are killed.                      *)
(*   MCShellCat.cfg   a file of 43 data zones.                             *)
(* With a directory of five entries in DirSizes Complete fails, and with   *)
(* Odd = {TRUE} InStep does.                                               *)
(***************************************************************************)
EXTENDS Shell

FourEntries == 0 .. 4
GoodSizes == (0 .. 42) \cup (53 .. 84) \cup {116}
=============================================================================

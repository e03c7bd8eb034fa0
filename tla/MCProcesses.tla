---------------------------- MODULE MCProcesses ----------------------------
(***************************************************************************)
(* Processes for TLC: two servers and two shells, a disk manager the user  *)
(* starts and the one format starts, all of them on one port for the disk. *)
(***************************************************************************)
EXTENDS Processes

CONSTANTS m, s, t, c

OneDiskPort == [l \in Listener |-> IF l \in Manager THEN 10086 ELSE 10357]
ToOneDisk == [p \in Owner \cup Client |-> IF p \in Client THEN 10357 ELSE 10086]
=============================================================================

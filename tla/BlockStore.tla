----------------------------- MODULE BlockStore -----------------------------
(***************************************************************************)
(* What read_block and write_block (src/src/utils.c) promise their caller: *)
(* an array of blocks on disk, read and written as a whole, one at a time. *)
(* A write is not one step: until it has ended any part of the block may   *)
(* be new, and if the caller or the disk manager is lost on the way that   *)
(* is how the block stays.  No other block is touched.  There is no        *)
(* connection, no chunk and no manager here; DiskLink implements this.     *)
(***************************************************************************)
EXTENDS Integers

CONSTANTS
  Addr,    \* block addresses
  Unit,    \* positions in a block
  Value,   \* what a position can hold
  Zero,    \* what it holds on a new disk
  Stale,   \* no value: the place in memory has not been filled
  NONE     \* no operation

VARIABLES
  disk,    \* the blocks
  op,      \* the operation that was begun and has not ended, or NONE
  block,   \* the block written, or read last
  linked   \* the caller and the disk are connected

vars == <<disk, op, block, linked>>

Block == [Unit -> Value]
StaleBlock == [u \in Unit |-> Stale]

Init ==
  /\ disk = [a \in Addr |-> [u \in Unit |-> Zero]]
  /\ op = NONE
  /\ block = StaleBlock
  /\ linked = TRUE

Read(a) ==
  /\ op = NONE
  /\ op' = [cmd |-> "R", at |-> a]
  /\ block' = StaleBlock
  /\ UNCHANGED <<disk, linked>>

Write(a, src) ==
  /\ op = NONE
  /\ op' = [cmd |-> "W", at |-> a]
  /\ block' = src
  /\ UNCHANGED <<disk, linked>>

\* Some of the block arrives.
Land ==
  /\ op # NONE /\ op.cmd = "W"
  /\ \E part \in SUBSET Unit :
       disk' = [disk EXCEPT ![op.at] = [u \in Unit |-> IF u \in part THEN block[u] ELSE @[u]]]
  /\ UNCHANGED <<op, block, linked>>

\* A read ends with what the disk holds, a write with all of it on disk.
EndRead ==
  /\ op # NONE /\ op.cmd = "R"
  /\ block' = disk[op.at]
  /\ op' = NONE
  /\ UNCHANGED <<disk, linked>>

EndWrite ==
  /\ op # NONE /\ op.cmd = "W" /\ disk[op.at] = block
  /\ op' = NONE
  /\ UNCHANGED <<disk, block, linked>>

\* The connection is lost.  What is under way may go on for a while, and is
\* given up when there is another connection, not before.
Lose ==
  /\ linked /\ linked' = FALSE
  /\ UNCHANGED <<disk, op, block>>

Restart ==
  /\ ~linked /\ linked' = TRUE
  /\ op' = NONE
  /\ block' = StaleBlock
  /\ UNCHANGED disk

Next ==
  \/ \E a \in Addr : Read(a) \/ \E src \in Block : Write(a, src)
  \/ Land \/ EndRead \/ EndWrite \/ Lose \/ Restart

Spec == Init /\ [][Next]_vars
=============================================================================

------------------------------ MODULE DiskLink ------------------------------
(***************************************************************************)
(* The transfer of blocks between the program that owns the disk (server,  *)
(* format or disk_test: read_block and write_block in src/src/utils.c, the *)
(* end of alloc_final in src/src/alloc.c) and the disk manager             *)
(* (src/src/disk_mgr.c), over one TCP connection.                          *)
(*                                                                         *)
(* A block is BLOCKSIZE units and goes in chunks of up to BUFFER_SIZE of   *)
(* them, each asked for with an EXPECT.  The connection is two streams of  *)
(* units: one is a string with its end, or a unit of data.  A read takes   *)
(* what has arrived, up to the length asked for.                           *)
(*                                                                         *)
(* A definition named X_... just before X is X with a fault the properties *)
(* must notice; nothing else uses it.                                      *)
(***************************************************************************)
EXTENDS Integers, Sequences

CONSTANTS
  BLOCKSIZE,    \* units in a block
  BUFFER_SIZE,  \* units in a chunk
  CYLINDERS, SECTORS,
  Asked,        \* block addresses <<c, s>> the owner uses
  Value,        \* what a unit can hold
  Zero,         \* what it holds in a new file
  Stale,        \* no value: memory not filled, or bytes of a string
  Split,        \* a write may arrive in parts (not so on the local host)
  NONE          \* no operation

Unit == 1 .. BLOCKSIZE
Sector == 0 .. CYLINDERS * SECTORS - 1

ASSUME SizeAssumption ==
  /\ BLOCKSIZE \in Nat \ {0} /\ BUFFER_SIZE \in Nat \ {0}
  /\ CYLINDERS \in Nat \ {0} /\ SECTORS \in Nat \ {0}
  /\ Asked \subseteq Nat \X Nat
  /\ Zero \in Value /\ Stale \notin Value
  /\ Split \in BOOLEAN
  /\ NONE \notin [cmd : {"R", "W"}, at : Asked]

VARIABLES
  file,       \* DISK_FILE, by the number of the block
  owner,      \* "idle"; what it waits for: "follow", "data", "expect", "over",
              \* "bye"; "done" after alloc_final; "dead"
  op,         \* the read or write the owner is in, or was in when it died
  block,      \* its block in memory
  pos,        \* units of it that have been moved
  manager,    \* "serve", "read", "write", "ended"
  at,         \* number of the block the manager works on
  off,        \* units of it that have been moved
  n,          \* chunks write_disk has yet to get
  toManager, toOwner   \* units on their way

ownerVars == <<owner, op, block, pos>>
managerVars == <<manager, at, off, n>>
vars == <<file, ownerVars, managerVars, toManager, toOwner>>

OwnerGone == owner \in {"done", "dead"}

StaleBlock == [u \in Unit |-> Stale]

-----------------------------------------------------------------------------
(* The connection: send_msg, get_msg, send_data, get_data. *)

Msg(text) == [kind |-> text]
Command(cmd, a, chunks) == [kind |-> cmd, at |-> a, n |-> chunks]
Follow(num) == [kind |-> "FOLLOW", num |-> num]
Data(values) == [i \in DOMAIN values |-> [kind |-> "data", val |-> values[i]]]

Least(a, b) == IF a < b THEN a ELSE b

\* How many units one read can return.
Reads(stream, most) ==
  IF Split THEN 1 .. Least(most, Len(stream))
  ELSE {Least(most, Len(stream))} \ {0}

Rest(stream, k) == SubSeq(stream, k + 1, Len(stream))

\* The string read in k units, NULL if they do not end with one.
get_msg(stream, k) == IF stream[k].kind = "data" THEN Msg("NULL") ELSE stream[1]

\* The value of a unit read as data.
Val(unit) == IF unit.kind = "data" THEN unit.val ELSE Stale

\* Units from + 1 .. from + k of a block, up to its end.
chunk_whole(b, from) == [i \in 1 .. BUFFER_SIZE |-> b[Least(from + i, BLOCKSIZE)]]
chunk(b, from) == [i \in 1 .. Least(BUFFER_SIZE, BLOCKSIZE - from) |-> b[from + i]]

Filled(b, from, units) ==
  [u \in Unit |-> IF u - from \in DOMAIN units THEN Val(units[u - from]) ELSE b[u]]

-----------------------------------------------------------------------------
\* A new file, stretched to its size, reads as zeros.
Init ==
  /\ file = [i \in Sector |-> [u \in Unit |-> Zero]]
  /\ owner = "idle" /\ op = NONE /\ block = StaleBlock /\ pos = 0
  /\ manager = "serve" /\ at = 0 /\ off = 0 /\ n = 0
  /\ toManager = <<>> /\ toOwner = <<>>

(* utils.c *)

read_block(a) ==
  /\ owner = "idle"
  /\ owner' = "follow"
  /\ op' = [cmd |-> "R", at |-> a]
  /\ block' = StaleBlock /\ pos' = 0
  /\ toManager' = Append(toManager, Command("R", a, 0))
  /\ UNCHANGED <<file, managerVars, toOwner>>

get_follow_unchecked ==
  /\ owner = "follow"
  /\ \E k \in Reads(toOwner, Len(toOwner)) : toOwner' = Rest(toOwner, k)
  /\ owner' = "idle" /\ op' = NONE
  /\ UNCHANGED <<toManager, file, block, pos, managerVars>>

\* A reply other than the size of a block leaves the block as it was; NULL
\* kills the program (strncmp).
get_follow ==
  /\ owner = "follow"
  /\ \E k \in Reads(toOwner, Len(toOwner)) :
       LET msg == get_msg(toOwner, k) IN
       /\ toOwner' = Rest(toOwner, k)
       /\ IF msg = Follow(BLOCKSIZE)
          THEN owner' = "data" /\ toManager' = Append(toManager, Msg("EXPECT"))
          ELSE owner' = (IF msg = Msg("NULL") THEN "dead" ELSE "idle") /\ UNCHANGED toManager
  /\ op' = IF owner' = "idle" THEN NONE ELSE op
  /\ UNCHANGED <<file, block, pos, managerVars>>

get_data_more ==
  /\ owner = "data"
  /\ \E k \in Reads(toOwner, Least(BUFFER_SIZE, BLOCKSIZE - pos)) :
       /\ block' = Filled(block, pos, SubSeq(toOwner, 1, k))
       /\ pos' = pos + k
       /\ toOwner' = Rest(toOwner, k)
  /\ toManager' = Append(toManager, Msg("EXPECT"))
  /\ IF pos' = BLOCKSIZE THEN owner' = "idle" /\ op' = NONE ELSE UNCHANGED <<owner, op>>
  /\ UNCHANGED <<file, managerVars>>

\* A chunk; the next is asked for until the block is complete.
get_data ==
  /\ owner = "data"
  /\ \E k \in Reads(toOwner, Least(BUFFER_SIZE, BLOCKSIZE - pos)) :
       /\ block' = Filled(block, pos, SubSeq(toOwner, 1, k))
       /\ pos' = pos + k
       /\ toOwner' = Rest(toOwner, k)
  /\ IF pos' = BLOCKSIZE
     THEN owner' = "idle" /\ op' = NONE /\ UNCHANGED toManager
     ELSE toManager' = Append(toManager, Msg("EXPECT")) /\ UNCHANGED <<owner, op>>
  /\ UNCHANGED <<file, managerVars>>

Chunks_down == BLOCKSIZE \div BUFFER_SIZE
Chunks == (BLOCKSIZE - 1) \div BUFFER_SIZE + 1

write_block(a, src) ==
  /\ owner = "idle"
  /\ owner' = "expect"
  /\ op' = [cmd |-> "W", at |-> a]
  /\ block' = src /\ pos' = 0
  /\ toManager' = Append(toManager, Command("W", a, Chunks))
  /\ UNCHANGED <<file, managerVars, toOwner>>

\* The next chunk, if it is asked for.
send_data ==
  /\ owner = "expect"
  /\ \E k \in Reads(toOwner, Len(toOwner)) :
       LET msg == get_msg(toOwner, k)
           part == chunk(block, pos)
       IN
       /\ toOwner' = Rest(toOwner, k)
       /\ IF msg = Msg("EXPECT")
          THEN /\ toManager' = toManager \o Data(part)
               /\ pos' = pos + Len(part)
               /\ owner' = IF pos' = BLOCKSIZE THEN "over" ELSE owner
          ELSE /\ owner' = IF msg = Msg("NULL") THEN "dead" ELSE owner
               /\ UNCHANGED <<toManager, pos>>
  /\ UNCHANGED <<file, op, block, managerVars>>

\* The end of write_block, whatever the reply says.
get_over ==
  /\ owner = "over"
  /\ \E k \in Reads(toOwner, Len(toOwner)) :
       /\ toOwner' = Rest(toOwner, k)
       /\ owner' = IF get_msg(toOwner, k) = Msg("NULL") THEN "dead" ELSE "idle"
  /\ op' = IF owner' = "idle" THEN NONE ELSE op
  /\ UNCHANGED <<file, block, pos, managerVars, toManager>>

\* alloc_final: the manager is told to end, again if it answers otherwise.
send_end ==
  /\ owner = "idle"
  /\ owner' = "bye"
  /\ toManager' = Append(toManager, Msg("E"))
  /\ UNCHANGED <<file, op, block, pos, managerVars, toOwner>>

get_bye ==
  /\ owner = "bye"
  /\ \E k \in Reads(toOwner, Len(toOwner)) :
       LET msg == get_msg(toOwner, k) IN
       /\ toOwner' = Rest(toOwner, k)
       /\ owner' = CASE msg = Msg("BYE") -> "done" [] msg = Msg("NULL") -> "dead" [] OTHER -> owner
       /\ toManager' = IF owner' = owner THEN Append(toManager, Msg("E")) ELSE toManager
  /\ UNCHANGED <<file, op, block, pos, managerVars>>

\* disk_test closes the connection without a word, and any program can be
\* killed.  What it had sent may still arrive.
owner_leaves ==
  /\ ~OwnerGone
  /\ owner' = "dead"
  /\ toOwner' = <<>> /\ toManager' \in {toManager, <<>>}
  /\ UNCHANGED <<file, op, block, pos, managerVars>>

\* The manager is gone: the owner passes NULL to strcmp, or a write kills it.
owner_fails ==
  /\ owner \in {"follow", "data", "expect", "over", "bye"}
  /\ toOwner = <<>> /\ manager = "ended"
  /\ owner' = "dead"
  /\ UNCHANGED <<file, op, block, pos, managerVars, toManager, toOwner>>

(* disk_mgr.c *)

get_offset_sum(a) == a[1] + a[2]
get_offset(a) == a[1] * SECTORS + a[2]
OnDisk(a) == a[1] < CYLINDERS /\ a[2] < SECTORS

\* serv_loop up to the first message of read_disk or write_disk.
serve ==
  /\ manager = "serve"
  /\ \E k \in Reads(toManager, Len(toManager)) :
       LET req == get_msg(toManager, k)
           transfer == req.kind \in {"R", "W"}
           found == transfer /\ OnDisk(req.at)
       IN
       /\ toManager' = Rest(toManager, k)
       /\ manager' = CASE req.kind = "R" /\ found -> "read"
                       [] req.kind = "W" /\ found -> "write"
                       [] req.kind \in {"E", "NULL"} -> "ended"
                       [] OTHER -> manager
       /\ toOwner' = CASE req.kind = "R"    -> Append(toOwner, Follow(IF found THEN BLOCKSIZE ELSE 0))
                       [] req.kind = "W"    -> Append(toOwner, Msg(IF found THEN "EXPECT" ELSE "OVER"))
                       [] req.kind = "E"    -> Append(toOwner, Msg("BYE"))
                       [] req.kind = "NULL" -> toOwner
                       [] OTHER             -> Append(toOwner, Msg("INVALID COMMAND"))
       /\ IF found THEN at' = get_offset(req.at) /\ off' = 0 /\ n' = req.n
          ELSE UNCHANGED <<at, off, n>>
  /\ UNCHANGED <<file, ownerVars>>

\* read_disk sends a chunk whatever it was told.
read_disk ==
  /\ manager = "read"
  /\ \E k \in Reads(toManager, Len(toManager)) : toManager' = Rest(toManager, k)
  /\ LET part == chunk(file[at], off) IN
     /\ toOwner' = toOwner \o Data(part)
     /\ off' = off + Len(part)
  /\ manager' = IF off' = BLOCKSIZE THEN "serve" ELSE manager
  /\ UNCHANGED <<file, ownerVars, at, n>>

write_disk_over ==
  /\ manager = "write"
  /\ \E k \in Reads(toManager, BUFFER_SIZE) :
       /\ file' = [file EXCEPT ![at] = Filled(@, 0, SubSeq(toManager, 1, k))]
       /\ off' = off + Least(k, BLOCKSIZE - off)
       /\ toManager' = Rest(toManager, k)
  /\ n' = n - 1
  /\ manager' = IF n' = 0 THEN "serve" ELSE manager
  /\ toOwner' = Append(toOwner, Msg(IF n' = 0 THEN "OVER" ELSE "EXPECT"))
  /\ UNCHANGED <<ownerVars, at>>

\* write_disk counts chunks as they arrive; none goes past the block's end.
write_disk ==
  /\ manager = "write"
  /\ \E k \in Reads(toManager, BUFFER_SIZE) :
       /\ file' = [file EXCEPT ![at] = Filled(@, off, SubSeq(toManager, 1, k))]
       /\ off' = off + Least(k, BLOCKSIZE - off)
       /\ toManager' = Rest(toManager, k)
  /\ n' = n - 1
  /\ manager' = IF n' = 0 THEN "serve" ELSE manager
  /\ toOwner' = Append(toOwner, Msg(IF n' = 0 THEN "OVER" ELSE "EXPECT"))
  /\ UNCHANGED <<ownerVars, at>>

end_of_input_serve ==
  /\ toManager = <<>> /\ OwnerGone
  /\ manager = "serve" /\ manager' = "ended"
  /\ UNCHANGED <<file, ownerVars, at, off, n, toManager, toOwner>>

\* The owner is gone: serv_loop ends, and a transfer runs on without data
\* until a write to the connection kills the manager or it gets to serv_loop.
end_of_input ==
  /\ toManager = <<>> /\ OwnerGone
  /\ manager # "ended" /\ manager' = "ended"
  /\ UNCHANGED <<file, ownerVars, at, off, n, toManager, toOwner>>

manager_killed ==
  /\ manager # "ended"
  /\ manager' = "ended"
  /\ toManager' = <<>> /\ toOwner' \in {toOwner, <<>>}
  /\ UNCHANGED <<file, ownerVars, at, off, n>>

\* Both are gone and are started again, on the same file.
restart ==
  /\ OwnerGone /\ manager = "ended"
  /\ owner' = "idle" /\ op' = NONE /\ block' = StaleBlock /\ pos' = 0
  /\ manager' = "serve" /\ at' = 0 /\ off' = 0 /\ n' = 0
  /\ toManager' = <<>> /\ toOwner' = <<>>
  /\ UNCHANGED file

-----------------------------------------------------------------------------
OwnerStep == get_follow \/ get_data \/ send_data \/ get_over \/ get_bye \/ owner_fails
ManagerStep == serve \/ read_disk \/ write_disk \/ end_of_input

Next ==
  \/ \E a \in Asked : read_block(a) \/ \E src \in [Unit -> Value] : write_block(a, src)
  \/ send_end \/ owner_leaves \/ manager_killed \/ restart
  \/ OwnerStep
  \/ ManagerStep

\* Both programs block in read and run on when something arrives.
Spec == Init /\ [][Next]_vars /\ WF_vars(OwnerStep) /\ WF_vars(ManagerStep)

-----------------------------------------------------------------------------
TypeOK ==
  /\ file \in [Sector -> [Unit -> Value]]
  /\ owner \in {"idle", "follow", "data", "expect", "over", "bye", "done", "dead"}
  /\ op \in [cmd : {"R", "W"}, at : Asked] \cup {NONE}
  /\ block \in [Unit -> Value \cup {Stale}]
  /\ pos \in 0 .. BLOCKSIZE
  /\ manager \in {"serve", "read", "write", "ended"}
  /\ at \in Sector /\ off \in 0 .. BLOCKSIZE /\ n \in 0 .. Chunks
  /\ \A i \in DOMAIN toManager \cup DOMAIN toOwner :
       /\ i \in DOMAIN toManager => toManager[i].kind \in {"R", "W", "E", "EXPECT", "data"}
       /\ i \in DOMAIN toOwner => toOwner[i].kind \in {"FOLLOW", "EXPECT", "OVER", "BYE", "data"}

DataIn(stream) == IF stream # <<>> /\ stream[1].kind = "data" THEN Len(stream) ELSE 0

\* While both run, one write at most is on its way, the next read of a program
\* gets what it is meant for, and every unit is in memory, on its way or on
\* disk: no EXPECT, chunk or OVER too many or too few.
InStep ==
  ~OwnerGone /\ manager # "ended" =>
    /\ toManager = <<>> \/ toOwner = <<>>
    /\ \A s \in {toManager, toOwner} : s # <<>> => DataIn(s) \in 1 .. BUFFER_SIZE \/ Len(s) = 1
    /\ owner = "idle" => manager = "serve" /\ toManager = <<>> /\ toOwner = <<>>
    /\ owner = "data" => /\ off = pos + DataIn(toOwner)
                         /\ toManager # <<>> => manager = "read"
    /\ owner \in {"expect", "over"} /\ manager = "write" =>
         /\ pos = off + DataIn(toManager)
         /\ (n - 1) * BUFFER_SIZE < BLOCKSIZE - off /\ BLOCKSIZE - off <= n * BUFFER_SIZE
    /\ manager = "serve" /\ owner \in {"over", "data"} => off = BLOCKSIZE

\* The owner is never left waiting: every read, write and goodbye comes to its
\* end, or the owner sees that the manager is gone.
Answered == owner \notin {"idle", "done", "dead"} ~> owner = "idle" \/ OwnerGone

\* A manager whose owner is gone does not stay: its port can be used again.
EndsAfterOwner == OwnerGone ~> manager = "ended"

-----------------------------------------------------------------------------
\* disk_test.c:97-103 writes a block, reads it back and compares, "Failure!" if
\* they differ: the transfer implements BlockStore.  A read ends with exactly
\* what the disk holds and a write with the block on disk, whole; only when one
\* of the programs is lost does part of a block stay old.
BS == INSTANCE BlockStore WITH
  Addr   <- Asked,
  disk   <- [a \in Asked |-> file[get_offset(a)]],
  block  <- IF op # NONE /\ op.cmd = "R" THEN StaleBlock ELSE block,
  linked <- ~OwnerGone /\ manager # "ended"

Implements == BS!Spec
=============================================================================

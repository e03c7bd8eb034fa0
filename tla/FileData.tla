------------------------------ MODULE FileData ------------------------------
(***************************************************************************)
(* The text of files: add_data, wrt_idx, wrt_data, update_size, rm_inode   *)
(* and cat_file of src/src/fs_lib.c under touch, rm, append and write of   *)
(* src/src/server.c, for files of one directory.  An inode points to data  *)
(* zones, then to index zones of data zones, then to index zones of index  *)
(* zones.                                                                  *)
(*                                                                         *)
(* As in Fs, a command computes on memory and queues its writes in todo;   *)
(* each Put is one write_zone, and the server can die between two of them. *)
(* The zones above room belong to others, so that a small room runs out    *)
(* anywhere in a command.                                                  *)
(*                                                                         *)
(* wrt_idx calls itself once, for index zones of index zones, and add_data *)
(* once for every new pointer: here the former is two operators, the       *)
(* latter a loop, like the one in wrt_idx.                                 *)
(*                                                                         *)
(* A definition named X_... just before X is X with a fault the properties *)
(* must notice; nothing else uses it.                                      *)
(***************************************************************************)
EXTENDS Integers, Sequences, FiniteSets, SequencesExt

CONSTANTS
  File,
  MAX_ID,    \* the largest zone id
  ZONESIZE,  \* bytes of a zone: 64 in the code
  DIRECT,    \* pointers to data zones in an inode: 20 in the code
  SINGLE,    \* pointers to index zones of data zones: 2 in the code
  DOUBLE,    \* pointers to index zones of index zones: 2 in the code
  IDX,       \* pointers in an index zone: 32 in the code
  Room,      \* last zone that is not taken by others, of each run
  Lengths,   \* lengths of the text of a command
  Limit,     \* bound on the text asked for in a file
  NONE       \* no file, no command

UNOCCUPIED == 0
D_OCCUPIED == 1
F_OCCUPIED == 2
I_OCCUPIED == 3

Root == 4
Id == Root .. MAX_ID
Pointers == DIRECT + SINGLE + DOUBLE

\* A command has a text of one character at least: it is a token of the line.
ASSUME SizeAssumption ==
  /\ {MAX_ID, DIRECT, SINGLE, DOUBLE} \subseteq Nat /\ MAX_ID >= Root
  /\ {ZONESIZE, IDX, Pointers} \subseteq Nat \ {0}
  /\ Room \subseteq Id
  /\ Lengths \subseteq Nat \ {0}

\* Zones by what was last stored in them; pointers in use are a run from the
\* first, so a zone of pointers is the sequence of those.
Blank == [type |-> "blank"]
Data(t) == [type |-> "data", text |-> t]
Idx(zones) == [type |-> "idx", zones |-> zones]
Inode(ptrs, size) == [type |-> "inode", ptrs |-> ptrs, size |-> size]
Dentry(subs) == [type |-> "dentry", subs |-> subs]

TextOf(z) == IF z.type = "data" THEN z.text ELSE <<>>
ZonesOf(z) == IF z.type = "idx" THEN z.zones ELSE <<>>

\* The pointers of any zone; those of a dentry are 0 where there is no file.
Refs(z) ==
  CASE z.type = "dentry" -> z.subs
    [] z.type = "inode"  -> z.ptrs
    [] z.type = "idx"    -> z.zones
    [] OTHER             -> <<>>

VARIABLES
  up,    \* "on", or "dead" after a crash
  disk,  \* the zones on disk
  map,   \* allocation states in memory
  room,  \* last zone that is not taken by others
  short, \* in what the disk was found full so far: "file", "index"
  todo,  \* writes the current command has yet to make, in order
  req    \* the command being worked on, or NONE

vars == <<up, disk, map, room, short, todo, req>>

Memory == [zone |-> disk, st |-> map, short |-> short, writes |-> <<>>]

write_zone(m, id, z) ==
  LET n == [m EXCEPT !.zone[id] = z] IN [n EXCEPT !.writes = Append(@, <<id, z>>)]

get_free_id(m) ==
  LET free == {id \in Id : m.st[id] = UNOCCUPIED} IN
  IF free = {} THEN -1 ELSE CHOOSE id \in free : \A j \in free : id <= j

set_free_id(m, ids) ==
  [m EXCEPT !.st = [id \in Id |-> IF id \in ids THEN UNOCCUPIED ELSE m.st[id]]]

TakenAs(m, id, state) == [m EXCEPT !.st[id] = state]

new_zone_dirty(m, id) == TakenAs(m, id, F_OCCUPIED)

new_zone_untaken(m, id) == write_zone(m, id, Blank)

\* A zone for text or pointers is taken and cleared.
new_zone(m, id) == write_zone(TakenAs(m, id, F_OCCUPIED), id, Blank)

Short(m, where) == [m EXCEPT !.short = @ \cup {where}]

-----------------------------------------------------------------------------
(* fs_lib.c: what add_data and those below it return is the memory after   *)
(* and the text left.                                                      *)

wrt_data_whole(m, id, str) ==
  IF id < Root THEN [m |-> m, str |-> str]
  ELSE LET t == TextOf(m.zone[id])
           n == IF Len(t) + Len(str) + 1 <= ZONESIZE + 1 THEN Len(str) ELSE ZONESIZE - Len(t)
       IN  [m |-> write_zone(m, id, Data(t \o SubSeq(str, 1, n))),
            str |-> SubSeq(str, n + 1, Len(str))]

\* A data zone keeps a '\0' behind its text.
wrt_data(m, id, str) ==
  IF id < Root THEN [m |-> m, str |-> str]
  ELSE LET t == TextOf(m.zone[id])
           n == IF Len(t) + Len(str) + 1 <= ZONESIZE THEN Len(str) ELSE ZONESIZE - 1 - Len(t)
       IN  [m |-> write_zone(m, id, Data(t \o SubSeq(str, 1, n))),
            str |-> SubSeq(str, n + 1, Len(str))]

LastOr0(zones) == IF zones = <<>> THEN 0 ELSE Last(zones)

\* wrt_idx and add_data fill a copy of an index zone or inode: they write
\* behind the last pointer of the copy, and while text is left and there is a
\* pointer to use and a zone for it, behind a new one.
First(m, zones, str) ==
  LET new == get_free_id(m)
      fresh == zones = <<>> /\ str # <<>> /\ new >= Root
  IN  [m     |-> IF fresh THEN new_zone(m, new) ELSE m,
       zones |-> IF fresh THEN <<new>> ELSE zones,
       str   |-> str,
       at    |-> "on"]

Further(s, r, most) ==
  LET new == get_free_id(r.m) IN
  IF s.at # "on" THEN s
  ELSE IF r.str = <<>> \/ Len(s.zones) >= most
  THEN [m |-> r.m, zones |-> s.zones, str |-> r.str, at |-> "end"]
  ELSE IF new < Root
  THEN [m |-> r.m, zones |-> s.zones, str |-> r.str, at |-> "short"]
  ELSE [m |-> new_zone(r.m, new), zones |-> Append(s.zones, new), str |-> r.str, at |-> "on"]

\* Where no zone is to be had wrt_idx returns before it has written its index
\* zone: the zones taken for it so far stay taken.
Filled(s, id) ==
  [m   |-> IF s.at = "short" THEN Short(s.m, "index") ELSE write_zone(s.m, id, Idx(s.zones)),
   str |-> s.str]

\* wrt_idx of no zone ends without a return statement: what its caller takes
\* for the length written is undefined, and with it whether text is left.
Undefined(m, str, undef) == [m |-> m, str |-> IF undef THEN <<>> ELSE str]

\* wrt_idx with flag 0, for an index zone of data zones, and with flag 1, for
\* one of index zones.  Every round but the first has one more pointer, so
\* there is an end to them.
wrt_idx_data(m, id, str, undef) ==
  LET round[k \in 0 .. IDX + 1] ==
        IF k = 0 THEN First(m, ZonesOf(m.zone[id]), str)
        ELSE LET s == round[k - 1] IN
             Further(s, wrt_data(s.m, LastOr0(s.zones), s.str), IDX)
  IN  IF id < Root THEN Undefined(m, str, undef) ELSE Filled(round[IDX + 1], id)

wrt_idx_idx(m, id, str, undef) ==
  LET round[k \in 0 .. IDX + 1] ==
        IF k = 0 THEN First(m, ZonesOf(m.zone[id]), str)
        ELSE LET s == round[k - 1] IN
             Further(s, wrt_idx_data(s.m, LastOr0(s.zones), s.str, undef), IDX)
  IN  IF id < Root THEN Undefined(m, str, undef) ELSE Filled(round[IDX + 1], id)

update_size_idx(m, id, flag) ==
  LET zones == ZonesOf(m.zone[id])
      sub[i \in 0 .. Len(zones)] ==
        IF i = 0 THEN 1
        ELSE sub[i - 1] + IF flag THEN 1 + Len(ZonesOf(m.zone[zones[i]])) ELSE 1
  IN  sub[Len(zones)]

update_size_flat(m, ptrs) ==
  LET n == Len(ptrs) IN
  IF n <= DIRECT THEN 1 + n
  ELSE 1 + DIRECT + (n - DIRECT - 1) * (1 + IDX) + update_size_idx(m, Last(ptrs), n > DIRECT + SINGLE)

\* The zones of a file: the full ones before its last index zone are not
\* counted but taken as the constants 21, 54, 87 and 1144 of the code.
update_size(m, ptrs) ==
  LET n == Len(ptrs) IN
  IF n <= DIRECT THEN 1 + n
  ELSE IF n <= DIRECT + SINGLE
  THEN 1 + DIRECT + (n - DIRECT - 1) * (1 + IDX) + update_size_idx(m, Last(ptrs), FALSE)
  ELSE 1 + DIRECT + SINGLE * (1 + IDX) + (n - DIRECT - SINGLE - 1) * (1 + IDX * (1 + IDX))
         + update_size_idx(m, Last(ptrs), TRUE)

Level(i) == IF i <= DIRECT THEN 0 ELSE IF i <= DIRECT + SINGLE THEN 1 ELSE 2

\* Text goes behind the last pointer in use.
wrt_ptr(m, ptrs, str, undef) ==
  LET id == LastOr0(ptrs) IN
  IF Level(Len(ptrs)) = 0 THEN wrt_data(m, id, str)
  ELSE IF Level(Len(ptrs)) = 1 THEN wrt_idx_data(m, id, str, undef)
  ELSE wrt_idx_idx(m, id, str, undef)

\* What is left of it goes behind a new pointer, while there is one, or else is
\* dropped.
add_data(m, inode, str, undef) ==
  LET round[k \in 0 .. Pointers + 1] ==
        IF k = 0 THEN First(m, inode.ptrs, str)
        ELSE LET s == round[k - 1] IN
             Further(s, wrt_ptr(s.m, s.zones, s.str, undef), Pointers)
      end == round[Pointers + 1]
  IN
  IF end.at = "short"
  THEN [m |-> Short(end.m, "file"), inode |-> Inode(end.zones, inode.size)]
  ELSE [m |-> end.m, inode |-> Inode(end.zones, update_size(end.m, end.zones))]

\* The zones rm_inode and rm_idx_zone come by.
rm_idx_zone(zone, id, flag) ==
  LET zones == Range(ZonesOf(zone[id])) IN
  {id} \cup zones \cup IF flag THEN UNION {Range(ZonesOf(zone[z])) : z \in zones} ELSE {}

ZonesOfFile(zone, id) ==
  LET Zones(i) == LET z == zone[id].ptrs[i] IN
                  IF Level(i) = 0 THEN {z} ELSE rm_idx_zone(zone, z, Level(i) = 2)
  IN  {id} \cup UNION {Zones(i) : i \in DOMAIN zone[id].ptrs}

rm_inode_shallow(m, id) == set_free_id(m, {id} \cup Range(m.zone[id].ptrs))
rm_inode(m, id) == set_free_id(m, ZonesOfFile(m.zone, id))

\* cat_file, cat_idx and cat_data: the text of the data zones, in order.
cat_data(zones) == FoldLeft(LAMBDA text, z : text \o TextOf(disk[z]), <<>>, zones)

cat_idx(id, flag) ==
  LET zones == ZonesOf(disk[id]) IN
  IF flag THEN FoldLeft(LAMBDA text, z : text \o cat_data(ZonesOf(disk[z])), <<>>, zones)
  ELSE cat_data(zones)

cat_file(id) ==
  LET Part(i) == LET z == disk[id].ptrs[i] IN
                 IF Level(i) = 0 THEN cat_data(<<z>>) ELSE cat_idx(z, Level(i) = 2)
  IN  FlattenSeq([i \in DOMAIN disk[id].ptrs |-> Part(i)])

-----------------------------------------------------------------------------
(* server.c: what the commands do to memory, for the names of one directory *)

Find(m, f) == m.zone[Root].subs[f]
Linked(m, f, id) == write_zone(m, Root, Dentry([m.zone[Root].subs EXCEPT ![f] = id]))

mk_file(m, f) ==
  LET id == get_free_id(m) IN
  IF Find(m, f) # 0 \/ id < Root THEN m
  ELSE Linked(write_zone(TakenAs(m, id, I_OCCUPIED), id, Inode(<<>>, 1)), f, id)

rm_file(m, f) ==
  IF Find(m, f) = 0 THEN m ELSE Linked(rm_inode(m, Find(m, f)), f, 0)

append(m, f, str, undef) ==
  LET id == Find(m, f)
      r == add_data(m, m.zone[id], str, undef)
  IN  IF id = 0 THEN m ELSE write_zone(r.m, id, r.inode)

wrt(m, f, str, undef) == append(mk_file(rm_file(m, f), f), f, str, undef)

Init ==
  /\ up = "on"
  /\ disk = [id \in Id |-> IF id = Root THEN Dentry([f \in File |-> 0]) ELSE Blank]
  /\ room \in Room
  /\ map = [id \in Id |-> IF id = Root THEN D_OCCUPIED
                          ELSE IF id > room THEN F_OCCUPIED ELSE UNOCCUPIED]
  /\ short = {}
  /\ todo = <<>>
  /\ req = NONE

\* The text of a file on disk, and the one a command is to leave: characters
\* are told apart by the file and the place they were meant for.
Exists(f) == Find(Memory, f) # 0
Text(f) == IF Exists(f) THEN cat_file(Find(Memory, f)) ELSE NONE
Chars(f, from, n) == [j \in 1 .. n |-> <<f, from + j>>]

Idle == up = "on" /\ req = NONE /\ todo = <<>>

Run(op, f, goal, m) ==
  /\ req' = [op |-> op, file |-> f, goal |-> goal]
  /\ map' = m.st /\ short' = m.short /\ todo' = m.writes
  /\ UNCHANGED <<up, disk, room>>

\* Commands that are refused change nothing and are left out.
touch(f) ==
  /\ Idle
  /\ mk_file(Memory, f) # Memory
  /\ Run("touch", f, <<>>, mk_file(Memory, f))

rm(f) == Idle /\ Exists(f) /\ Run("rm", f, NONE, rm_file(Memory, f))

Append_(f) ==
  /\ Idle /\ Exists(f)
  /\ \E n \in Lengths, undef \in BOOLEAN :
       LET t == Text(f)
           str == Chars(f, Len(t), n)
       IN  /\ Len(t) + n <= Limit[f]
           /\ Run("append", f, t \o str, append(Memory, f, str, undef))

write(f) ==
  /\ Idle
  /\ Exists(f) \/ mk_file(Memory, f) # Memory
  /\ \E n \in Lengths, undef \in BOOLEAN :
       n <= Limit[f] /\ Run("write", f, Chars(f, 0, n), wrt(Memory, f, Chars(f, 0, n), undef))

\* One write_zone of the current command; then the answer.
Put ==
  /\ up = "on" /\ todo # <<>>
  /\ disk' = [disk EXCEPT ![Head(todo)[1]] = Head(todo)[2]]
  /\ todo' = Tail(todo)
  /\ UNCHANGED <<up, map, room, short, req>>

Reply ==
  /\ up = "on" /\ todo = <<>> /\ req # NONE
  /\ req' = NONE
  /\ UNCHANGED <<up, disk, map, room, short, todo>>

\* The server dies: what it had not yet written is lost.
Crash ==
  /\ up = "on" /\ req # NONE
  /\ up' = "dead" /\ todo' = <<>> /\ req' = NONE
  /\ UNCHANGED <<disk, map, room, short>>

Next ==
  \/ \E f \in File : touch(f) \/ rm(f) \/ Append_(f) \/ write(f)
  \/ Put \/ Reply \/ Crash

Spec == Init /\ [][Next]_vars

-----------------------------------------------------------------------------
Files == {f \in File : Exists(f)}
ZonesInUse == {Root} \cup UNION {ZonesOfFile(disk, Find(Memory, f)) : f \in Files}
Occupied == {id \in Root .. room : map[id] # UNOCCUPIED}

\* Zones hold what their type says and no more than fits.
IsZone(z) ==
  \/ z = Blank
  \/ z.type = "data" /\ Len(z.text) < ZONESIZE
  \/ z.type = "idx" /\ Len(z.zones) <= IDX /\ Range(z.zones) \subseteq Id
  \/ z.type = "inode" /\ Len(z.ptrs) <= Pointers /\ Range(z.ptrs) \subseteq Id
  \/ z.type = "dentry" /\ Range(z.subs) \subseteq {0} \cup Id

TypeOK ==
  /\ up \in {"on", "dead"} /\ room \in Room /\ short \subseteq {"file", "index"}
  /\ map \in [Id -> UNOCCUPIED .. I_OCCUPIED]
  /\ \A id \in Id : IsZone(disk[id])

\* Nothing in use has two pointers to it, whenever the server may die: two
\* files never share a zone, and none is linked twice.
NothingShared ==
  LET From(z) == {i \in DOMAIN Refs(disk[z]) : Refs(disk[z])[i] # 0}
      To(p) == Refs(disk[p[1]])[p[2]]
      Pointer == UNION {{<<z, i>> : i \in From(z)} : z \in ZonesInUse}
  IN  \A p, q \in Pointer : To(p) # Root /\ (To(p) = To(q) => p = q)

\* Between commands the zones taken are those in use, but for the zones that
\* an index ran out of room for (wrt_idx returns without writing it).
UsageExact ==
  Idle => /\ ZonesInUse \subseteq Occupied
            /\ "index" \notin short => Occupied = ZonesInUse

\* The size of a file, which ls shows and cat announces, counts its zones, but
\* for a file whose text was cut.
SizeRight ==
  Idle /\ short = {} =>
    \A f \in Files :
      LET id == Find(Memory, f) IN disk[id].size = Cardinality(ZonesOfFile(disk, id))

DataZones == DIRECT + SINGLE * IDX + DOUBLE * IDX * IDX

TF == INSTANCE TextFile WITH
  String  <- {Chars(f, i, n) : f \in File, i \in 0 .. DataZones * (ZONESIZE - 1), n \in Lengths},
  MaxText <- DataZones * (ZONESIZE - 1),
  text    <- [f \in File |-> Text(f)],
  full    <- Occupied = Root .. room

\* The files hold the text the commands ask for, in order, through every
\* kind of pointer; a kill leaves a first part of it; text is cut only when
\* the disk or the file is full.
Implements == TF!Spec
=============================================================================

--------------------------------- MODULE Fs ---------------------------------
(***************************************************************************)
(* The directory layer of the server: path resolution (src/src/path.c),    *)
(* the directory part of src/src/fs_lib.c and the commands touch, mkdir,   *)
(* rm, rmdir, append, write, cd and exit of src/src/server.c, on the zone  *)
(* array that ZoneStore promises.  The text of a file is FileData's: here  *)
(* a file is the data zones its inode points to, of which an append takes  *)
(* some more.                                                              *)
(*                                                                         *)
(* A command computes on memory and on what it reads, and writes zones     *)
(* through to disk one at a time.  Its step here does the former and       *)
(* queues the writes in todo; each Put is one write_zone.  The server is   *)
(* the only writer, so nothing it read can change in between, but it can   *)
(* die at any point of the queue.                                          *)
(*                                                                         *)
(* Zones are records that say what was last stored in them.  Where the     *)
(* code reads a zone through another struct the overlay is written out     *)
(* (rm_inode of a dentry, rm_dentry of an inode).  A zone that a reference *)
(* of some other type leads to is beyond this module: see Typed.           *)
(*                                                                         *)
(* A definition named X_... just before X is X with a fault the properties *)
(* must notice; nothing else uses it.                                      *)
(***************************************************************************)
EXTENDS Integers, Sequences, FiniteSets, SequencesExt

CONSTANTS
  MAX_ID,             \* the largest zone id
  NUM_OF_DENTRY_SUBS, \* entries in a dentry
  NUM_OF_DZONE_SUBS,  \* entries in a dir_zone
  Path,               \* paths of requests, as [abs : BOOLEAN, comps : Seq(STRING)]
  MAX_PTRS,           \* bound on data zones of a file, below the index zones
  NewZones,           \* how many zones more the text of an append can need
  NameWord,           \* name -> its first two bytes read as a zone id
  Leftover,           \* what rm_tail_sub may return when it falls off its end
  NONE                \* no path, no request

UNOCCUPIED == 0
D_OCCUPIED == 1
F_OCCUPIED == 2
I_OCCUPIED == 3

Root == 4
Id == Root .. MAX_ID

Entry(id, name) == [id |-> id, name |-> name]
NoEntry == Entry(0, "")
NoEntries(n) == [i \in 1 .. n |-> NoEntry]

Blank == [type |-> "blank"]
Data == [type |-> "data"]
Inode(parent) == [type |-> "inode", parent |-> parent, size |-> 1, ptrs |-> <<>>]
Dentry(parent) ==
  [type |-> "dentry", parent |-> parent, subs |-> NoEntries(NUM_OF_DENTRY_SUBS), next |-> 0]
Dzone(parent, first) ==
  [type |-> "dzone", parent |-> parent, next |-> 0,
   subs |-> [NoEntries(NUM_OF_DZONE_SUBS) EXCEPT ![1] = first]]

ASSUME LimitsAssumption ==
  /\ MAX_ID \in Nat /\ Root <= MAX_ID
  /\ NUM_OF_DENTRY_SUBS \in Nat \ {0} /\ NUM_OF_DZONE_SUBS \in Nat \ {0}
  /\ MAX_PTRS \in Nat /\ NewZones \subseteq Nat
ASSUME RequestAssumption ==
  /\ Path \subseteq [abs : BOOLEAN, comps : Seq(STRING \ {NoEntry.name})]
  /\ NONE \notin Int /\ NONE \notin Seq(Int)
  /\ NONE \notin Seq(STRING)
  /\ LET Ops == {"touch", "mkdir", "rm", "rmdir", "append", "write"} IN
     NONE \notin [op : Ops, path : Path, ans : {"0", "4"}] \cup [op : Ops, path : Path]

VARIABLES
  up,    \* "on", "off" after exit, "dead" after a crash
  disk,  \* the zones on disk
  map,   \* allocation states in memory
  saved, \* allocation states on disk
  pwd,   \* ids from the root to the working directory
  todo,  \* writes the current command has yet to make, in order
  req,   \* the command being worked on, or NONE
  ans    \* the last answer sent

vars == <<up, disk, map, saved, pwd, todo, req, ans>>

get_state(st, id) ==
  IF id < Root THEN F_OCCUPIED ELSE st[id]

(***************************************************************************)
(* A command works on a record m: the zones as it would read them, the     *)
(* states, and the writes made so far.                                     *)
(***************************************************************************)
Memory == [zone |-> disk, st |-> map, writes |-> <<>>]

write_zone(m, id, z) ==
  IF id < Root THEN m
  ELSE LET n == [m EXCEPT !.zone[id] = z] IN [n EXCEPT !.writes = Append(@, <<id, z>>)]

get_free_id(m) ==
  LET free == {id \in Id : m.st[id] = UNOCCUPIED} IN
  IF free = {} THEN -1 ELSE CHOOSE id \in free : \A j \in free : id <= j

Taken(m, id, s) == IF id < Root THEN m ELSE [m EXCEPT !.st[id] = s]

set_free_id(m, ids) ==
  [m EXCEPT !.st = [id \in Id |-> IF id \in ids THEN UNOCCUPIED ELSE m.st[id]]]

-----------------------------------------------------------------------------
(* path.c *)

\* get_sub_path compares the names of the dentry itself, in order.  It goes
\* on past them to ten, over bytes that hold no name, and never to next.
get_sub_path(m, dir, name) ==
  LET hits == {i \in 1 .. NUM_OF_DENTRY_SUBS : m.zone[dir].subs[i].name = name} IN
  IF hits = {} THEN NONE
  ELSE m.zone[dir].subs[CHOOSE i \in hits : \A j \in hits : i <= j].id

\* get_path_from_root and get_path_from_pwd, one component at a time.  at is
\* the list of ids so far; cut is where the first '/' was overwritten.
PathStep(m, acc, comp, more, pos) ==
  LET top == Last(acc.at) IN
  IF acc.at = NONE \/ comp = "." THEN acc
  ELSE IF comp = ".."
  THEN [acc EXCEPT !.at = IF Len(@) = 1 THEN NONE ELSE Front(@)]
  ELSE IF get_state(m.st, top) # D_OCCUPIED THEN [acc EXCEPT !.at = NONE]
  ELSE LET id == get_sub_path(m, top, comp) IN
       [at |-> IF id = NONE THEN NONE ELSE Append(acc.at, id),
        cut |-> IF acc.cut = 0 /\ more THEN pos ELSE acc.cut]

\* The ids a path leads through, and the components left of it: what follows
\* a '/' that get_path_from_root overwrote is lost to the caller.
get_path(m, p) ==
  LET n == Len(p.comps)
      f[i \in 0 .. n] ==
        IF i = 0 THEN [at |-> IF p.abs THEN <<Root>> ELSE pwd, cut |-> 0]
        ELSE PathStep(m, f[i - 1], p.comps[i], i < n, i)
  IN  [at |-> f[n].at,
       left |-> IF f[n].cut = 0 THEN p
                ELSE [p EXCEPT !.comps = SubSeq(p.comps, 1, f[n].cut)]]

rm_name_here(p) ==
  [dir |-> [abs |-> FALSE, comps |-> <<>>], name |-> Last(p.comps)]

\* rm_name splits at the last '/', but not at one in front.
rm_name(p) ==
  IF Len(p.comps) > 1
  THEN [dir |-> [p EXCEPT !.comps = Front(p.comps)], name |-> Last(p.comps)]
  ELSE [dir |-> [abs |-> FALSE, comps |-> <<>>],
        name |-> IF p.abs THEN "/" \o p.comps[1] ELSE p.comps[1]]

-----------------------------------------------------------------------------
(* fs_lib.c: a directory is a dentry and the dir_zones its next leads to. *)

NextOf(z) == IF z.type \in {"dentry", "dzone"} THEN z.next ELSE 0

\* The end of the chain that starts at p, where add_sub_cont and rm_tail_sub
\* arrive; an id below Root if a next is no zone.
End(m, p) ==
  LET f[id \in -1 .. MAX_ID] ==
        IF id < Root \/ NextOf(m.zone[id]) = 0 THEN id ELSE f[NextOf(m.zone[id])]
  IN  f[p]

\* Entries in use, by the id, as the loops of fs_lib.c test them.
Used(z) == {i \in DOMAIN z.subs : z.subs[i].id # 0}
LastUsed(z) == CHOOSE i \in Used(z) : \A j \in Used(z) : j <= i

add_sub_untaken(m, p_id, id, name) ==
  LET p == End(m, p_id)
      z == m.zone[p]
      next == get_free_id(m)
      i == IF Used(z) = {} THEN 1 ELSE LastUsed(z) + 1
  IN
  IF z.subs[Len(z.subs)].id # 0
  THEN write_zone(write_zone(m, p, [z EXCEPT !.next = next]),
                  next, Dzone(z.parent, Entry(id, name)))
  ELSE write_zone(m, p, [z EXCEPT !.subs[i] = Entry(id, name)])

add_sub(m, p_id, id, name) ==
  LET p == End(m, p_id)
      z == m.zone[p]
      n == Len(z.subs)
      next == get_free_id(m)
  IN
  IF p < Root THEN m
  ELSE IF z.subs[n].id # 0
  THEN write_zone(write_zone(Taken(m, next, F_OCCUPIED), p, [z EXCEPT !.next = next]),
                  next, Dzone(z.parent, Entry(id, name)))
  ELSE LET i == IF Used(z) = {} THEN 1 ELSE LastUsed(z) + 1 IN
       write_zone(m, p, [z EXCEPT !.subs[i] = Entry(id, name)])

\* The entry rm_tail_sub takes off the end of the chain, and the memory
\* after.  It has no return statement where it took one.
rm_tail_sub(m, p_id, old, lost) ==
  LET p == End(m, p_id)
      z == m.zone[p]
  IN
  IF p < Root THEN [m |-> m, entry |-> Entry(lost, old.name)]
  ELSE IF Used(z) = {} THEN [m |-> m, entry |-> Entry(-1, old.name)]
  ELSE [m |-> write_zone(m, p, [z EXCEPT !.subs[LastUsed(z)] = NoEntry]),
        entry |-> Entry(lost, z.subs[LastUsed(z)].name)]

\* Where rm_sub and rm_sub_cont find id in one zone: they stop at a gap.
SlotOf(z, id) ==
  {i \in Used(z) : z.subs[i].id = id /\ \A j \in 1 .. i - 1 : z.subs[j].id \notin {0, id}}

rm_sub_gap(m, p_id, id, lost) ==
  LET z == m.zone[p_id] IN
  IF p_id < Root \/ SlotOf(z, id) = {} THEN m
  ELSE write_zone(m, p_id, [z EXCEPT !.subs[CHOOSE k \in SlotOf(z, id) : TRUE] = NoEntry])

rm_sub_twice(m, p_id, id, lost) ==
  LET z == m.zone[p_id]
      i == CHOOSE k \in SlotOf(z, id) : TRUE
      k == LastUsed(z)
      moved == [z EXCEPT !.subs = [@ EXCEPT ![i] = z.subs[k]]]
  IN
  IF p_id < Root \/ SlotOf(z, id) = {} THEN m
  ELSE write_zone(write_zone(m, p_id, moved), p_id, [moved EXCEPT !.subs[k] = NoEntry])

\* The last zone of a directory: the entry at i is filled with the last one
\* before the next gap.
Closed(z, i) ==
  LET run == {k \in i .. Len(z.subs) : \A j \in i .. k : z.subs[j].id # 0}
      k == CHOOSE j \in run : \A l \in run : l <= j
  IN  [z EXCEPT !.subs = [@ EXCEPT ![i] = z.subs[k], ![k] = NoEntry]]

\* Where rm_sub stops on its way along the chain: at the entry or the end.
Holder(m, p_id, id) ==
  LET f[p \in -1 .. MAX_ID] ==
        IF p < Root \/ SlotOf(m.zone[p], id) # {} \/ NextOf(m.zone[p]) = 0
        THEN p ELSE f[NextOf(m.zone[p])]
  IN  f[p_id]

\* In any other it is filled with the last of the chain.
rm_sub(m, p_id, id, lost) ==
  LET p == Holder(m, p_id, id)
      z == m.zone[p]
      i == CHOOSE k \in SlotOf(z, id) : TRUE
      tail == rm_tail_sub(m, z.next, z.subs[i], lost)
  IN
  IF p < Root \/ SlotOf(z, id) = {} THEN m
  ELSE IF z.next = 0
  THEN write_zone(m, p, Closed(z, i))
  ELSE write_zone(tail.m, p, [z EXCEPT !.subs[i] = tail.entry])

\* The ids rm_dentry and rm_dir_zone free for a zone and what follows it: the
\* entries up to a gap, not what they lead to; the chain only past full zones.
Entries(z) == {z.subs[i].id : i \in {k \in Used(z) : \A j \in 1 .. k : z.subs[j].id # 0}}

rm_dentry(m, id) ==
  LET z == m.zone[id]
      freed[p \in -1 .. MAX_ID] ==
        IF p < Root THEN {}
        ELSE {p} \cup Entries(m.zone[p]) \cup
             IF Cardinality(Used(m.zone[p])) = Len(m.zone[p].subs)
             THEN freed[NextOf(m.zone[p])] ELSE {}
  IN  IF z.type = "inode"
      THEN set_free_id(m, {id, z.size})   \* subs[0].id lies on size
      ELSE set_free_id(m, freed[id])

rm_inode_only(m, id) == set_free_id(m, {id})

rm_inode(m, id) ==
  LET z == m.zone[id] IN
  IF z.type = "dentry"
  THEN set_free_id(m, {id} \cup IF z.subs[1].name = "" THEN {}
                                ELSE {NameWord[z.subs[1].name]})  \* ptrs[0]
  ELSE set_free_id(m, {id} \cup Range(z.ptrs))

\* One zone more for the inode of a: cleared and linked, if there is one.
add_zone(a) ==
  LET new == get_free_id(a.m) IN
  IF a.full \/ new < 0 THEN [m |-> a.m, inode |-> a.inode, full |-> TRUE]
  ELSE [m     |-> write_zone(Taken(a.m, new, F_OCCUPIED), new, Data),
        inode |-> [a.inode EXCEPT !.ptrs = Append(@, new)],
        full  |-> FALSE]

\* add_data takes k zones; the first that is not to be had ends it, before the
\* size is brought up to date.
add_data(m, id, k) ==
  LET f[i \in 0 .. k] ==
        IF i = 0 THEN [m |-> m, inode |-> m.zone[id], full |-> FALSE] ELSE add_zone(f[i - 1])
      z == f[k].inode
  IN  write_zone(f[k].m, id, IF f[k].full THEN z ELSE [z EXCEPT !.size = 1 + Len(z.ptrs)])

\* Zones with entries: the ones get_size is called for.
IsDirZone(id) == disk[id].type \in {"dentry", "dzone"}
DirZones == {id \in Id : IsDirZone(id)}

get_size_flat ==
  LET of(sub) == IF disk[sub].type = "inode" THEN disk[sub].size ELSE 1
      f[id \in DirZones] ==
        1 + FoldFunction(+, 0, [i \in Used(disk[id]) |-> of(disk[id].subs[i].id)])
  IN  f

get_size_first ==
  LET of(f, sub) == IF map[sub] = I_OCCUPIED THEN disk[sub].size ELSE f[sub]
      f[id \in DirZones] ==
        1 + FoldFunction(+, 0, [i \in Used(disk[id]) |-> of(f, disk[id].subs[i].id)])
  IN  f

\* get_size and get_size_cont, the size ls shows of a directory, by the zone
\* they are given: 0 as soon as an entry is neither file nor directory.
get_size ==
  LET Counted(z) == {i \in Used(z) : \A j \in 1 .. i : j \in Used(z)}
      of(f, sub) == IF get_state(map, sub) = I_OCCUPIED THEN disk[sub].size ELSE f[sub]
      f[id \in DirZones] ==
        LET z == disk[id] IN
        IF \E i \in Counted(z) : get_state(map, z.subs[i].id) \notin {I_OCCUPIED, D_OCCUPIED}
        THEN 0
        ELSE 1 + FoldFunction(+, 0, [i \in Counted(z) |-> of(f, z.subs[i].id)])
               + IF z.next # 0 /\ Counted(z) = DOMAIN z.subs THEN f[z.next] ELSE 0
  IN  f

-----------------------------------------------------------------------------
(* server.c: what each command does to memory, and what it answers *)

Refused(m) == [m |-> m, ans |-> "4"]
Done(m) == [m |-> m, ans |-> "0"]

make_linked(m, p, state) ==
  LET split == rm_name(get_path(m, p).left)
      at == get_path(m, split.dir).at
      id == get_free_id(m)
      z == IF state = I_OCCUPIED THEN Inode(Last(at)) ELSE Dentry(Last(at))
  IN  IF \/ get_path(m, p).at # NONE
         \/ at = NONE
         \/ get_state(m.st, Last(at)) # D_OCCUPIED
         \/ id < 0
      THEN Refused(m)
      ELSE Done(write_zone(add_sub(Taken(m, id, state), Last(at), id, split.name), id, z))

\* mk_file and mk_dir.
make(m, p, state) ==
  LET split == rm_name(get_path(m, p).left)
      at == get_path(m, split.dir).at
      id == get_free_id(m)
      z == IF state = I_OCCUPIED THEN Inode(Last(at)) ELSE Dentry(Last(at))
  IN  IF \/ get_path(m, p).at # NONE
         \/ at = NONE
         \/ get_state(m.st, Last(at)) # D_OCCUPIED
         \/ id < 0
      THEN Refused(m)
      ELSE Done(add_sub(write_zone(Taken(m, id, state), id, z), Last(at), id, split.name))

mk_file(m, p) == make(m, p, I_OCCUPIED)
mk_dir(m, p) == make(m, p, D_OCCUPIED)

\* rm_file and rm_dir: neither asks what the path leads to.
rm_file(m, p, lost) ==
  LET at == get_path(m, p).at IN
  IF at = NONE \/ Last(at) < Root THEN Refused(m)
  ELSE Done(rm_sub(rm_inode(m, Last(at)), m.zone[Last(at)].parent, Last(at), lost))

rm_dir(m, p, lost) ==
  LET at == get_path(m, p).at IN
  IF at = NONE \/ Last(at) < Root THEN Refused(m)
  ELSE Done(rm_sub(rm_dentry(m, Last(at)), m.zone[Last(at)].parent, Last(at), lost))

append(m, p, k) ==
  LET at == get_path(m, p).at IN
  IF at = NONE \/ get_state(m.st, Last(at)) # I_OCCUPIED THEN Refused(m)
  ELSE Done(add_data(m, Last(at), k))

wrt_kept(m, p, k, lost) ==
  LET found == get_path(m, p) IN
  IF found.at # NONE /\ get_state(m.st, Last(found.at)) # I_OCCUPIED THEN Refused(m)
  ELSE IF found.at # NONE THEN Done(rm_file(m, found.left, lost).m)
  ELSE append(mk_file(m, p).m, p, k)

\* wrt: the file is removed and made again.  mk_file is given a copy of the
\* path; rm_file and append get what is left of it.
wrt(m, p, k, lost) ==
  LET found == get_path(m, p)
      gone == IF found.at = NONE THEN m ELSE rm_file(m, found.left, lost).m
      made == mk_file(gone, p)
  IN  IF found.at # NONE /\ get_state(m.st, Last(found.at)) # I_OCCUPIED THEN Refused(m)
      ELSE IF made.ans = "4" THEN made
      ELSE append(made.m, found.left, k)

\* Every zone is what the references to it take it for: a directory's is a
\* dentry, a next leads to a dir_zone, and what a path or a parent leads to is
\* a file or a directory.  Where this is false the code reads one struct
\* through another; no command of this module is taken there.
Typed ==
  /\ \A id \in Id :
       /\ map[id] = D_OCCUPIED => disk[id].type = "dentry"
       /\ map[id] = I_OCCUPIED => disk[id].type = "inode"
       /\ disk[id].type \in {"dentry", "dzone"} /\ map[id] # UNOCCUPIED =>
            /\ disk[id].next >= Root => disk[disk[id].next].type = "dzone"
            /\ \A i \in Used(disk[id]) :
                 LET sub == disk[id].subs[i].id IN
                 sub >= Root => /\ disk[sub].type \in {"dentry", "inode"}
                                /\ disk[sub].parent >= Root =>
                                     disk[disk[sub].parent].type = "dentry"
  /\ disk[Last(pwd)].type = "dentry"

-----------------------------------------------------------------------------
Init ==
  /\ up = "off"
  /\ disk = [id \in Id |-> IF id = Root THEN Dentry(0) ELSE Blank]
  /\ map = [id \in Id |-> IF id = Root THEN D_OCCUPIED ELSE UNOCCUPIED]
  /\ saved = map
  /\ pwd = <<Root>>
  /\ todo = <<>>
  /\ req = NONE
  /\ ans = "0"

Ready == up = "on" /\ req = NONE /\ Typed

\* A command whose effect is r: refused at once, or under way.
Perform(op, p, r) ==
  /\ Ready
  /\ map' = r.m.st
  /\ todo' = r.m.writes
  /\ req' = IF r.m.writes = <<>> THEN NONE ELSE [op |-> op, path |-> p, ans |-> r.ans]
  /\ ans' = IF r.m.writes = <<>> THEN r.ans ELSE ans
  /\ UNCHANGED <<up, disk, saved, pwd>>

touch(p) == Perform("touch", p, mk_file(Memory, p))
mkdir(p) == Perform("mkdir", p, mk_dir(Memory, p))
rm(p) == \E lost \in Leftover : Perform("rm", p, rm_file(Memory, p, lost))
rmdir(p) == \E lost \in Leftover : Perform("rmdir", p, rm_dir(Memory, p, lost))

\* A first append to a file takes a zone whatever the text.
Append_(p) ==
  \E k \in NewZones :
    /\ Ready
    /\ LET at == get_path(Memory, p).at IN
       at # NONE /\ get_state(map, Last(at)) = I_OCCUPIED =>
         Len(disk[Last(at)].ptrs) + k \in 1 .. MAX_PTRS
    /\ Perform("append", p, append(Memory, p, k))

write(p) ==
  \E k \in NewZones \cap 1 .. MAX_PTRS, lost \in Leftover :
    Perform("write", p, wrt(Memory, p, k, lost))

Put_early ==
  /\ up = "on" /\ todo # <<>>
  /\ disk' = [disk EXCEPT ![Head(todo)[1]] = Head(todo)[2]]
  /\ todo' = Tail(todo)
  /\ req' = NONE /\ ans' = "0"
  /\ UNCHANGED <<up, map, saved, pwd>>

\* One write_zone; the answer follows the last.
Put ==
  /\ up = "on" /\ todo # <<>>
  /\ disk' = [disk EXCEPT ![Head(todo)[1]] = Head(todo)[2]]
  /\ todo' = Tail(todo)
  /\ IF Tail(todo) = <<>> THEN req' = NONE /\ ans' = req.ans ELSE UNCHANGED <<req, ans>>
  /\ UNCHANGED <<up, map, saved, pwd>>

cd_unchecked(p) ==
  /\ up = "on" /\ req = NONE
  /\ LET at == get_path(Memory, p).at IN
     IF at # NONE THEN pwd' = at /\ ans' = "0" ELSE ans' = "4" /\ UNCHANGED pwd
  /\ UNCHANGED <<up, disk, map, saved, todo, req>>

\* change
cd(p) ==
  /\ Ready
  /\ LET at == get_path(Memory, p).at IN
     IF at # NONE /\ get_state(map, Last(at)) = D_OCCUPIED
     THEN pwd' = at /\ ans' = "0"
     ELSE ans' = "4" /\ UNCHANGED pwd
  /\ UNCHANGED <<up, disk, map, saved, todo, req>>

exit_unsaved ==
  /\ up = "on" /\ req = NONE
  /\ up' = "off"
  /\ pwd' = <<Root>>
  /\ UNCHANGED <<disk, map, saved, todo, req, ans>>

\* interpret ends, on "exit" or because the client is gone; then alloc_final.
exit ==
  /\ up = "on" /\ req = NONE
  /\ up' = "off"
  /\ saved' = map
  /\ pwd' = <<Root>>
  /\ UNCHANGED <<disk, map, todo, req, ans>>

\* alloc_init and path_init.
start ==
  /\ up # "on"
  /\ up' = "on"
  /\ map' = saved
  /\ UNCHANGED <<disk, saved, pwd, todo, req, ans>>

\* The server is killed: what it had not written is lost, the states with it.
Crash ==
  /\ up = "on"
  /\ up' = "dead"
  /\ todo' = <<>>
  /\ req' = NONE
  /\ pwd' = <<Root>>
  /\ UNCHANGED <<disk, map, saved, ans>>

Next ==
  \/ \E p \in Path : touch(p) \/ mkdir(p) \/ rm(p) \/ rmdir(p) \/ Append_(p) \/ write(p) \/ cd(p)
  \/ Put \/ exit \/ start \/ Crash

Spec == Init /\ [][Next]_vars

-----------------------------------------------------------------------------
(* What is on disk, as seen from the root. *)

\* The zones of a directory: its dentry and what the next of each leads to.
Chain(dir) ==
  LET f[id \in -1 .. MAX_ID] ==
        IF id < Root THEN {}
        ELSE {id} \cup f[NextOf(disk[id])]
  IN  f[dir]

EntriesOf(dir) ==
  UNION {{disk[z].subs[i] : i \in Used(disk[z])} : z \in {y \in Chain(dir) : IsDirZone(y)}}

\* What a directory has below it: nothing unless it is one.
Below(x) ==
  IF x.id \notin Id \/ disk[x.id].type # "dentry" THEN {}
  ELSE {[at |-> Append(x.at, e.name), id |-> e.id] : e \in EntriesOf(x.id)}

\* Files and directories, each with the names that lead to it.
Nodes ==
  LET f[n \in 0 .. MAX_ID - Root] ==
        IF n = 0 THEN {[at |-> <<>>, id |-> Root]}
        ELSE UNION {Below(x) : x \in f[n - 1]}
  IN  UNION {f[n] : n \in DOMAIN f}

Zones(id) ==
  CASE disk[id].type = "dentry" -> Chain(id)
    [] disk[id].type = "inode"  -> {id} \cup Range(disk[id].ptrs)
    [] OTHER                    -> {}

TypeOK ==
  /\ up \in {"on", "off", "dead"}
  /\ \A id \in Id : disk[id].type \in {"blank", "data", "dentry", "dzone", "inode"}
  /\ map \in [Id -> UNOCCUPIED .. I_OCCUPIED]
  /\ saved \in [Id -> UNOCCUPIED .. I_OCCUPIED]
  /\ \A i \in 1 .. Len(pwd) : pwd[i] \in Id
  /\ (req # NONE) <=> (todo # <<>>)
  /\ \A i \in 1 .. Len(todo) : todo[i][1] \in Id

\* README.md:33 "which forms a tree structure", at every moment, between two
\* writes of a command and after a crash too: every entry leads to a zone that
\* was written as a file or directory of that parent, no zone belongs to two of
\* them, and a directory has no two entries of one name.
DiskIsTree ==
  /\ \A x \in Nodes :
       /\ x.id \in Id
       /\ disk[x.id].type \in {"dentry", "inode"}
       /\ x.at # <<>> => [at |-> Front(x.at), id |-> disk[x.id].parent] \in Nodes
       /\ \A z \in Zones(x.id) \ {x.id} : disk[z].type \in {"data", "dzone"}
  /\ \A x, y \in Nodes :
       x # y => x.at # y.at /\ Zones(x.id) \cap Zones(y.id) = {}

\* README.md:45 "keep track of the usage of all the disk zones": between two
\* commands the bitmap in memory says of every zone what the tree on disk says.
\* Nothing in the tree is free to be taken, nothing outside it is lost.
Describes(st) ==
  \A id \in Id :
    st[id] = CASE \E x \in Nodes : x.id = id /\ disk[id].type = "dentry" -> D_OCCUPIED
               [] \E x \in Nodes : x.id = id /\ disk[id].type = "inode"  -> I_OCCUPIED
               [] \E x \in Nodes : id \in Zones(x.id) \ {x.id}           -> F_OCCUPIED
               [] OTHER                                                  -> UNOCCUPIED

UsageExact == up = "on" /\ req = NONE => Describes(map)

\* The size ls shows of a directory is that of all there is below it: for the
\* root, all zones taken, if every file's size is right.
ListedSize ==
  up = "on" /\ req = NONE =>
    \/ get_size[Root] = Cardinality({id \in Id : map[id] # UNOCCUPIED})
    \/ \E x \in Nodes : disk[x.id].type = "inode" /\ disk[x.id].size # 1 + Len(disk[x.id].ptrs)

\* The loops of fs_lib.c stop at the first entry without an id: no entry, and
\* no dir_zone, may lie behind one.
NoGaps ==
  \A x \in Nodes : disk[x.id].type = "dentry" =>
    \A z \in {y \in Chain(x.id) : IsDirZone(y)} :
      /\ \A i \in Used(disk[z]) : \A j \in 1 .. i : j \in Used(disk[z])
      /\ disk[z].next # 0 => Used(disk[z]) = DOMAIN disk[z].subs

\* The working directory of a session stays a directory of the tree, reached
\* by the way it was entered.
CwdInTree ==
  req = NONE =>
    /\ pwd[1] = Root
    /\ \A i \in 2 .. Len(pwd) : \E e \in EntriesOf(pwd[i - 1]) : e.id = pwd[i]
    /\ disk[Last(pwd)].type = "dentry"

\* README.md:35 "storing pointers to sub-dentries or inodes": every entry of a
\* directory, in its dentry or its dir_zones, keeps a zone with its name.
EntriesLead ==
  \A x \in Nodes : disk[x.id].type = "dentry" =>
    \A z \in {y \in Chain(x.id) : IsDirZone(y)} : \A i \in DOMAIN disk[z].subs :
      disk[z].subs[i].name # "" => disk[z].subs[i].id \in Id

\* README.md:35 "the extension of a dentry": an entry in a dir_zone is found by
\* its name like one in the dentry.
FoundByName ==
  \A x \in Nodes : x.id \in Id /\ disk[x.id].type = "dentry" =>
    \A e \in EntriesOf(x.id) : get_sub_path(Memory, x.id, e.name) = e.id
=============================================================================

------------------------------ MODULE FsLemmas ------------------------------
(*************************************************************************)
(* What the theorems of FsProofs rest on: zones and what they point to,  *)
(* trees of zones on a disk, ways through them, how a directory gains    *)
(* and loses an entry, how paths are resolved and what each command does *)
(* to a sound disk; then the names along ways, and what a write shows of *)
(* the tree of names; last, what hangs below a directory, and sums.      *)
(*************************************************************************)
EXTENDS MCFs, Basics, FiniteSetTheorems

\* The hypothesis: sessions that end in order or by a kill, and requests of
\* none of the kinds that break the directory layer.
Session == Uses \subseteq {"exit", "crash"}

Subs == 1 .. NUM_OF_DENTRY_SUBS
DentryOf(p, s) == [type |-> "dentry", parent |-> p, subs |-> s, next |-> 0]
InodeOf(p, n, s) == [type |-> "inode", parent |-> p, size |-> n, ptrs |-> s]

\* Entries are a run from the first, and no two have one name.
IsSubs(s) ==
  /\ s = [i \in Subs |-> s[i]]
  /\ \A i \in Subs : s[i].id \in {0} \cup Id /\ (s[i].id # 0 => s[i].name \in STRING)
  /\ \A i \in Subs : s[i].id = 0 => s[i] = NoEntry
  /\ \A i, j \in Subs : i <= j /\ s[j].id # 0 => s[i].id # 0
  /\ \A i, j \in Subs : s[i].name = s[j].name /\ s[i].id # 0 /\ s[j].id # 0 => i = j

\* They change: one more, and one taken out for which the last is put in.
Entered(s, i, e) == [s EXCEPT ![i] = e]
Moved(s, i, k) == [s EXCEPT ![i] = s[k], ![k] = NoEntry]

\* The entry rm_sub puts in place of the one at i, and that it is the last.
Reach(z, i, k) ==
  /\ k \in Subs /\ i <= k
  /\ \A j \in Subs : z.subs[j].id # 0 <=> j <= k
RunEnd(z, i, k) ==
  k = CHOOSE j \in {l \in i .. Len(z.subs) : \A o \in i .. l : z.subs[o].id # 0} :
        \A l \in {l \in i .. Len(z.subs) : \A o \in i .. l : z.subs[o].id # 0} : l <= j

\* What a zone is when it is written: a directory has no dir_zones.
Formed(z) ==
  \/ z = Blank \/ z = Data
  \/ \E p, n, s : p \in Id /\ s \in Seq(Id) /\ z = InodeOf(p, n, s)
  \/ \E p, s : p \in {0} \cup Id /\ IsSubs(s) /\ z = DentryOf(p, s)

Store(d) == d = [id \in Id |-> d[id]] /\ \A id \in Id : Formed(d[id])

\* Pointer i of zone z leads to c.
Pt(z, i, c) ==
  /\ c # 0
  /\ \/ z.type = "dentry" /\ i \in Subs /\ z.subs[i].id = c
     \/ z.type = "inode" /\ i \in 1 .. Len(z.ptrs) /\ z.ptrs[i] = c

\* Directory z has an entry of name n for c.
Ent(z, n, c) ==
  z.type = "dentry" /\ c # 0 /\ \E i \in Subs : z.subs[i].id = c /\ z.subs[i].name = n

\* y is z less its entry that led to x.
Without(y, z, x) ==
  /\ Formed(y) /\ y.type = "dentry" /\ y.parent = z.parent
  /\ \A j, c : Pt(y, j, c) => c # x /\ \E l : Pt(z, l, c)
  /\ \A l, c : Pt(z, l, c) /\ c # x => \E j : Pt(y, j, c)
  /\ \A j, l, c : Pt(y, j, c) /\ Pt(y, l, c) => j = l
  /\ \A n, c : Ent(y, n, c) <=> Ent(z, n, c) /\ c # x
  /\ \E k \in Subs : y.subs[k].id = 0

\* What zone x may point to, if r is how far below the root a node is.
Kid(d, x, c, r) ==
  /\ d[x].type = "dentry" =>
       d[c].type \in {"dentry", "inode"} /\ d[c].parent = x /\ r[c] = r[x] + 1
  /\ d[x].type = "inode" => d[c].type = "data"

\* The zones of U are a tree on disk d, from the root down.
Plan(d, U, r) ==
  /\ U \subseteq Id /\ Root \in U
  /\ r \in [U -> Nat] /\ r[Root] = 0 /\ d[Root].type = "dentry"
  /\ \A x \in U : d[x].type \in {"dentry", "inode", "data"}
  /\ \A x \in U : \A i, c : Pt(d[x], i, c) => c \in U /\ Kid(d, x, c, r)
  /\ \A x, y \in U : \A i, j, c : Pt(d[x], i, c) /\ Pt(d[y], j, c) => x = y /\ i = j

\* Each of them but the root is pointed to.
Held(d, U) == \A c \in U \ {Root} : \E x \in U : \E i : Pt(d[x], i, c)

\* The states say which they are.
Tally(st, d, U) ==
  \A x \in Id :
    /\ x \notin U => st[x] = UNOCCUPIED
    /\ x \in U /\ d[x].type = "dentry" => st[x] = D_OCCUPIED
    /\ x \in U /\ d[x].type = "inode" => st[x] = I_OCCUPIED
    /\ x \in U /\ d[x].type = "data" => st[x] = F_OCCUPIED

Safe(d) == Store(d) /\ \E U, r : Plan(d, U, r)
Whole(d, st) == \E U, r : Plan(d, U, r) /\ Held(d, U) /\ Tally(st, d, U)

\* A way from the root along entries of directories.
Way(d, at) ==
  /\ at \in Seq(Id) /\ Len(at) >= 1 /\ at[1] = Root
  /\ \A k \in 2 .. Len(at) :
       d[at[k - 1]].type = "dentry" /\ \E i : Pt(d[at[k - 1]], i, at[k])

\* A working directory.
Here(d, at) == Way(d, at) /\ d[Last(at)].type = "dentry"

-----------------------------------------------------------------------------
(* Zones and memory.                                                        *)

\* The constants.
LEMMA Limits ==
  /\ Root = 4 /\ Root \in Id /\ Id \subseteq Nat /\ 0 \notin Id
  /\ MAX_ID \in Nat /\ MAX_ID >= Root
  /\ \A x : x \in Id <=> x \in Nat /\ Root <= x /\ x <= MAX_ID
  /\ NUM_OF_DENTRY_SUBS \in Nat \ {0} /\ 1 \in Subs /\ NUM_OF_DENTRY_SUBS \in Subs
  /\ Subs \subseteq Nat
BY LimitsAssumption DEF Root, Id, Subs

\* The parts of each kind of zone.
LEMMA FormedIs ==
  ASSUME NEW z, Formed(z)
  PROVE  /\ z.type \in {"blank", "data", "inode", "dentry"}
         /\ NextOf(z) = 0
         /\ z.type = "inode" =>
              /\ z = InodeOf(z.parent, z.size, z.ptrs)
              /\ z.parent \in Id /\ z.ptrs \in Seq(Id)
         /\ z.type = "dentry" =>
              /\ z = DentryOf(z.parent, z.subs)
              /\ z.parent \in {0} \cup Id /\ IsSubs(z.subs) /\ z.next = 0
<1>1. CASE z = Blank \/ z = Data
  BY <1>1 DEF Blank, Data, NextOf
<1>2. CASE \E p, n, s : p \in Id /\ s \in Seq(Id) /\ z = InodeOf(p, n, s)
  <2>1. PICK p, n, s : p \in Id /\ s \in Seq(Id) /\ z = InodeOf(p, n, s)
    BY <1>2
  <2>2. z.type = "inode" /\ z.parent = p /\ z.size = n /\ z.ptrs = s
    BY <2>1 DEF InodeOf
  <2> QED
    BY <2>1, <2>2 DEF NextOf
<1>3. CASE \E p, s : p \in {0} \cup Id /\ IsSubs(s) /\ z = DentryOf(p, s)
  <2>1. PICK p, s : p \in {0} \cup Id /\ IsSubs(s) /\ z = DentryOf(p, s)
    BY <1>3
  <2>2. z.type = "dentry" /\ z.parent = p /\ z.subs = s /\ z.next = 0
    BY <2>1 DEF DentryOf
  <2> QED
    BY <2>1, <2>2 DEF NextOf
<1> QED
  BY <1>1, <1>2, <1>3 DEF Formed

\* What pointers there are in each kind of zone, and that they are ids.
LEMMA Pointers ==
  ASSUME NEW z, Formed(z)
  PROVE  /\ \A i, c : Pt(z, i, c) => c \in Id /\ z.type \in {"dentry", "inode"}
         /\ z.type = "dentry" =>
              /\ DOMAIN z.subs = Subs /\ Len(z.subs) = NUM_OF_DENTRY_SUBS
              /\ \A i, c : Pt(z, i, c) <=> i \in Subs /\ z.subs[i].id = c /\ c # 0
              /\ \A i : i \in Used(z) <=> i \in Subs /\ z.subs[i].id # 0
              /\ \A i \in Used(z) : z.subs[i].id \in Id /\ Pt(z, i, z.subs[i].id)
         /\ z.type = "inode" =>
              /\ Len(z.ptrs) \in Nat
              /\ \A i, c : Pt(z, i, c) <=> i \in 1 .. Len(z.ptrs) /\ z.ptrs[i] = c
<1>1. z.type \in {"blank", "data", "inode", "dentry"}
  BY FormedIs
<1>2. CASE z.type = "dentry"
  <2>1. z.subs = [i \in Subs |-> z.subs[i]] /\ \A i \in Subs : z.subs[i].id \in {0} \cup Id
    BY <1>2, FormedIs DEF IsSubs
  <2>2. DOMAIN z.subs = Subs /\ \A i \in Subs : z.subs[i].id \in {0} \cup Id
    BY <2>1
  <2>3. Len(z.subs) = NUM_OF_DENTRY_SUBS
    BY <2>1, Limits DEF Subs
  <2>4. \A i, c : Pt(z, i, c) <=> i \in Subs /\ z.subs[i].id = c /\ c # 0
    BY <1>2 DEF Pt
  <2>5. \A i : i \in Used(z) <=> i \in Subs /\ z.subs[i].id # 0
    BY <2>2 DEF Used
  <2> QED
    BY <1>2, <2>2, <2>3, <2>4, <2>5
<1>3. CASE z.type = "inode"
  <2>1. z.ptrs \in Seq(Id)
    BY <1>3, FormedIs
  <2>2. \A i \in 1 .. Len(z.ptrs) : z.ptrs[i] \in Id
    BY <2>1
  <2>3. \A i, c : Pt(z, i, c) <=> i \in 1 .. Len(z.ptrs) /\ z.ptrs[i] = c
    BY <1>3, <2>2, Limits DEF Pt
  <2> QED
    BY <1>3, <2>1, <2>2, <2>3
<1>4. CASE z.type \in {"blank", "data"}
  BY <1>4 DEF Pt
<1> QED
  BY <1>1, <1>2, <1>3, <1>4

\* The pointers of a directory.
LEMMA Points ==
  ASSUME NEW z, Formed(z), z.type = "dentry"
  PROVE  \A i, c : Pt(z, i, c) <=> i \in Subs /\ z.subs[i].id = c /\ c # 0
BY Pointers

\* A disk with one zone written.
LEMMA StoreWrite ==
  ASSUME NEW d, NEW id \in Id, NEW z, Store(d), Formed(z)
  PROVE  /\ Store([d EXCEPT ![id] = z])
         /\ \A x \in Id : [d EXCEPT ![id] = z][x] = IF x = id THEN z ELSE d[x]
<1> DEFINE e == [d EXCEPT ![id] = z]
<1>1. d = [x \in Id |-> d[x]]
  BY DEF Store
<1>2. DOMAIN d = Id
  BY <1>1
<1>3. e = [x \in Id |-> IF x = id THEN z ELSE d[x]]
  BY <1>1, <1>2
<1>4. \A x \in Id : e[x] = IF x = id THEN z ELSE d[x]
  BY <1>3
<1> HIDE DEF e
<1>5. e = [x \in Id |-> e[x]]
  BY <1>3, <1>4
<1>6. \A x \in Id : Formed(e[x])
  BY <1>4 DEF Store
<1>7. Store(e)
  BY <1>5, <1>6 DEF Store
<1> QED
  BY <1>4, <1>7 DEF e

\* The memory a command computes on.
IsMemory(m) ==
  /\ m = [zone |-> m.zone, st |-> m.st, writes |-> m.writes]
  /\ Store(m.zone)
  /\ m.st \in [Id -> UNOCCUPIED .. I_OCCUPIED]
  /\ IsSeq(m.writes)

\* Each disk between two of the writes of the command is safe.
Logged(d, m) ==
  \E h : /\ h[0] = d /\ h[Len(m.writes)] = m.zone
         /\ \A k \in 0 .. Len(m.writes) : Safe(h[k])
         /\ \A k \in 1 .. Len(m.writes) :
              /\ m.writes[k][1] \in Id
              /\ h[k] = [h[k - 1] EXCEPT ![m.writes[k][1]] = m.writes[k][2]]

\* Where a command is that began with d on disk: its memory is m, a working
\* directory is at.
Sound(d, m, at) == IsMemory(m) /\ Logged(d, m) /\ Whole(m.zone, m.st) /\ Here(m.zone, at)

\* A directory with an entry left.
Room(z) == \E i \in Subs : z.subs[i].id = 0

\* What get_path computes, component by component.
Trail(m, p, f) ==
  f = [i \in 0 .. Len(p.comps) |->
        IF i = 0 THEN [at |-> IF p.abs THEN <<Root>> ELSE pwd, cut |-> 0]
        ELSE PathStep(m, f[i - 1], p.comps[i], i < Len(p.comps), i)]
LeftOf(p, cut) ==
  IF cut = 0 THEN p ELSE [p EXCEPT !.comps = SubSeq(p.comps, 1, cut)]

\* A name leads from directory at to to.
Named(d, at, name, to) ==
  /\ Here(d, at)
  /\ \E i \in Subs : /\ d[Last(at)].subs[i].name = name
                     /\ d[Last(at)].subs[i].id \in Id
                     /\ to = Append(at, d[Last(at)].subs[i].id)

\* What a name does to a path that has come to at.
Stepped(m, at, cut, comp, more, b) ==
  /\ b = [at |-> b.at, cut |-> b.cut]
  /\ ~more => b.cut = cut
  /\ b.at = NONE \/ Named(m.zone, at, comp, b.at)
  /\ b.at = NONE /\ get_state(m.st, Last(at)) = D_OCCUPIED =>
       \A i \in Subs : m.zone[Last(at)].subs[i].name # comp

\* A path whose components but the last are "." and "..", and that of the
\* directory it names.
Dotted(p) ==
  /\ p.comps # <<>>
  /\ p.abs => Len(p.comps) > 1
  /\ \A i \in 1 .. Len(p.comps) - 1 : p.comps[i] \in {".", ".."}
DirOf(p) == [p EXCEPT !.comps = Front(p.comps)]
DotAt(at, comp) ==
  IF at = NONE \/ comp = "." THEN at ELSE IF Len(at) = 1 THEN NONE ELSE Front(at)

\* p leads where its last component leads from its directory, found on m2.
LastStep(d, m, m2, p) ==
  \E at, cut, acc, pos, b :
    /\ at = get_path(m2, DirOf(p)).at
    /\ at = NONE \/ Here(d, at)
    /\ cut = 0 /\ acc = [at |-> at, cut |-> cut]
    /\ b = PathStep(m, acc, Last(p.comps), FALSE, pos)
    /\ get_path(m, p).at = b.at /\ get_path(m, p).left = LeftOf(p, b.cut)

\* p leads to nothing: at, its directory, has no such name.
NoName(m, p, at) ==
  /\ get_path(m, p).left = p
  /\ at = NONE \/ Here(m.zone, at)
  /\ at # NONE /\ get_state(m.st, Last(at)) = D_OCCUPIED =>
       \A j \in Subs : m.zone[Last(at)].subs[j].name # Last(p.comps)

\* A request to make p is none that breaks the directory layer.
Creates(m, p) ==
  get_path(m, p).at = NONE =>
    /\ Dotted(p) /\ Last(p.comps) \notin {".", ".."}
    /\ LET at == get_path(m, DirOf(p)).at IN
       at # NONE /\ m.zone[Last(at)].type = "dentry" => Room(m.zone[Last(at)])

\* What the functions of alloc.c change of it.
LEMMA MemoryFields ==
  ASSUME NEW m, IsMemory(m)
  PROVE  /\ \A id \in Id : \A z : write_zone(m, id, z) =
              [zone |-> [m.zone EXCEPT ![id] = z], st |-> m.st,
               writes |-> Append(m.writes, <<id, z>>)]
         /\ \A id \in Id : \A s : Taken(m, id, s) =
              [zone |-> m.zone, st |-> [m.st EXCEPT ![id] = s], writes |-> m.writes]
         /\ \A S : set_free_id(m, S) =
              [zone |-> m.zone, st |-> [i \in Id |-> IF i \in S THEN UNOCCUPIED ELSE m.st[i]],
               writes |-> m.writes]
<1>1. m = [zone |-> m.zone, st |-> m.st, writes |-> m.writes]
  BY DEF IsMemory
<1>2. ASSUME NEW id \in Id, NEW z
      PROVE  write_zone(m, id, z) =
               [zone |-> [m.zone EXCEPT ![id] = z], st |-> m.st,
                writes |-> Append(m.writes, <<id, z>>)]
  <2>1. PICK a, ws : a = [m.zone EXCEPT ![id] = z] /\ ws = Append(m.writes, <<id, z>>)
    OBVIOUS
  <2>2. PICK n : n = [zone |-> a, st |-> m.st, writes |-> m.writes]
    OBVIOUS
  <2>3. [m EXCEPT !.zone = a] = n
    BY <1>1, <2>2
  <2>4. [m EXCEPT !.zone[id] = z] = n
    BY <1>1, <2>1, <2>3
  <2>5. ~(id < Root)
    BY Limits
  <2>6. write_zone(m, id, z) = [n EXCEPT !.writes = Append(n.writes, <<id, z>>)]
    BY <2>4, <2>5 DEF write_zone
  <2>7. write_zone(m, id, z) = [n EXCEPT !.writes = ws]
    BY <2>1, <2>2, <2>6
  <2>8. [n EXCEPT !.writes = ws] = [zone |-> a, st |-> m.st, writes |-> ws]
    BY <2>2
  <2> QED
    BY <2>1, <2>7, <2>8
<1>3. ASSUME NEW id \in Id, NEW s
      PROVE  Taken(m, id, s) =
               [zone |-> m.zone, st |-> [m.st EXCEPT ![id] = s], writes |-> m.writes]
  <2>1. ~(id < Root)
    BY Limits
  <2> QED
    BY <1>1, <2>1 DEF Taken
<1>4. ASSUME NEW S
      PROVE  set_free_id(m, S) =
               [zone |-> m.zone, st |-> [i \in Id |-> IF i \in S THEN UNOCCUPIED ELSE m.st[i]],
                writes |-> m.writes]
  BY <1>1 DEF set_free_id
<1> QED
  BY <1>2, <1>3, <1>4, Zenon

\* A write of a command is one step more in its log.
LEMMA LogWrite ==
  ASSUME NEW d, NEW m, NEW id \in Id, NEW z, NEW U, NEW r,
         IsMemory(m), Logged(d, m), Formed(z),
         NEW e, e = [m.zone EXCEPT ![id] = z], Plan(e, U, r)
  PROVE  /\ IsMemory(write_zone(m, id, z)) /\ Logged(d, write_zone(m, id, z))
         /\ write_zone(m, id, z).zone = e
         /\ write_zone(m, id, z).st = m.st
<1> DEFINE n == write_zone(m, id, z)
           L == Len(m.writes)
<1>1. n = [zone |-> e, st |-> m.st, writes |-> Append(m.writes, <<id, z>>)]
  BY MemoryFields
<1>2. Store(e)
  BY StoreWrite DEF IsMemory
<1>3. /\ IsSeq(Append(m.writes, <<id, z>>)) /\ L \in Nat
      /\ Len(Append(m.writes, <<id, z>>)) = L + 1
      /\ \A k \in 1 .. L : Append(m.writes, <<id, z>>)[k] = m.writes[k]
      /\ Append(m.writes, <<id, z>>)[L + 1] = <<id, z>>
  BY SeqGrows DEF IsMemory
<1> HIDE DEF n, L
<1>4. /\ n = [zone |-> n.zone, st |-> n.st, writes |-> n.writes]
      /\ n.zone = e /\ n.st = m.st
      /\ n.writes = Append(m.writes, <<id, z>>)
  BY <1>1
<1>5. IsMemory(n)
  BY <1>2, <1>3, <1>4 DEF IsMemory
<1>6. PICK h : /\ h[0] = d /\ h[L] = m.zone
               /\ \A k \in 0 .. L : Safe(h[k])
               /\ \A k \in 1 .. L : /\ m.writes[k][1] \in Id
                                    /\ h[k] = [h[k - 1] EXCEPT ![m.writes[k][1]] = m.writes[k][2]]
  BY DEF Logged, L
<1> DEFINE g == [k \in 0 .. L + 1 |-> IF k = L + 1 THEN e ELSE h[k]]
<1>7. /\ \A k \in 0 .. L : g[k] = h[k]
      /\ g[L + 1] = e
  BY <1>3
<1> HIDE DEF g
<1>8. \A k \in 0 .. L + 1 : Safe(g[k])
  <2>1. Safe(e)
    BY <1>2 DEF Safe
  <2> QED
    BY <1>3, <1>6, <1>7, <2>1
<1>9. ASSUME NEW k \in 1 .. L + 1
      PROVE  /\ n.writes[k][1] \in Id
             /\ g[k] = [g[k - 1] EXCEPT ![n.writes[k][1]] = n.writes[k][2]]
  <2>1. CASE k = L + 1
    <3>1. k - 1 = L /\ L \in 0 .. L
      BY <1>3, <2>1
    <3>2. g[k - 1] = m.zone
      BY <1>6, <1>7, <3>1
    <3>3. n.writes[k] = <<id, z>>
      BY <1>3, <1>4, <2>1
    <3>4. n.writes[k][1] = id /\ n.writes[k][2] = z
      BY <3>3
    <3> QED
      BY <1>7, <2>1, <3>2, <3>4
  <2>2. CASE k \in 1 .. L
    <3>1. k \in 0 .. L /\ k - 1 \in 0 .. L
      BY <1>3, <2>2
    <3>2. g[k] = h[k] /\ g[k - 1] = h[k - 1]
      BY <1>7, <3>1
    <3>3. n.writes[k] = m.writes[k]
      BY <1>3, <1>4, <2>2
    <3> QED
      BY <1>6, <2>2, <3>2, <3>3
  <2> QED
    BY <1>3, <2>1, <2>2
<1>10. Logged(d, n)
  <2>1. Len(n.writes) = L + 1
    BY <1>3, <1>4
  <2>2. g[0] = d
    BY <1>3, <1>6, <1>7
  <2>3. g[Len(n.writes)] = n.zone
    BY <1>4, <1>7, <2>1
  <2>4. \A k \in 0 .. Len(n.writes) : Safe(g[k])
    BY <1>8, <2>1
  <2>5. \A k \in 1 .. Len(n.writes) :
          /\ n.writes[k][1] \in Id
          /\ g[k] = [g[k - 1] EXCEPT ![n.writes[k][1]] = n.writes[k][2]]
    BY <1>9, <2>1
  <2> QED
    BY <2>2, <2>3, <2>4, <2>5 DEF Logged
<1> QED
  BY <1>4, <1>5, <1>10 DEF n

\* The log is that of the zones: states do not matter.
LEMMA SameLog ==
  ASSUME NEW d, NEW m, NEW n, Logged(d, m), n.zone = m.zone, n.writes = m.writes
  PROVE  Logged(d, n)
BY DEF Logged

\* A zone is taken: what that is in memory.
LEMMA TakenFields ==
  ASSUME NEW d, NEW m, NEW id \in Id, NEW s \in UNOCCUPIED .. I_OCCUPIED,
         IsMemory(m), Logged(d, m)
  PROVE  /\ IsMemory(Taken(m, id, s)) /\ Logged(d, Taken(m, id, s))
         /\ Taken(m, id, s).zone = m.zone
         /\ \A x \in Id : Taken(m, id, s).st[x] = IF x = id THEN s ELSE m.st[x]
<1> DEFINE n == Taken(m, id, s)
<1>1. n = [zone |-> m.zone, st |-> [m.st EXCEPT ![id] = s], writes |-> m.writes]
  BY MemoryFields
<1> HIDE DEF n
<1>2. /\ n = [zone |-> n.zone, st |-> n.st, writes |-> n.writes]
      /\ n.zone = m.zone /\ n.st = [m.st EXCEPT ![id] = s]
      /\ n.writes = m.writes
  BY <1>1
<1>3. m.st \in [Id -> UNOCCUPIED .. I_OCCUPIED]
  BY DEF IsMemory
<1>4. /\ n.st \in [Id -> UNOCCUPIED .. I_OCCUPIED]
      /\ \A x \in Id : n.st[x] = IF x = id THEN s ELSE m.st[x]
  BY <1>2, <1>3
<1>5. IsMemory(n)
  BY <1>2, <1>4 DEF IsMemory
<1>6. Logged(d, n)
  BY <1>2, SameLog
<1> QED
  BY <1>2, <1>4, <1>5, <1>6 DEF n

\* Zones are freed: what that is in memory.
LEMMA FreedFields ==
  ASSUME NEW d, NEW m, NEW S, IsMemory(m), Logged(d, m)
  PROVE  /\ IsMemory(set_free_id(m, S)) /\ Logged(d, set_free_id(m, S))
         /\ set_free_id(m, S).zone = m.zone
         /\ \A x \in Id : set_free_id(m, S).st[x] = IF x \in S THEN UNOCCUPIED ELSE m.st[x]
<1> DEFINE n == set_free_id(m, S)
<1>1. n = [zone |-> m.zone, st |-> [i \in Id |-> IF i \in S THEN UNOCCUPIED ELSE m.st[i]],
           writes |-> m.writes]
  BY MemoryFields
<1> HIDE DEF n
<1>2. /\ n = [zone |-> n.zone, st |-> n.st, writes |-> n.writes]
      /\ n.zone = m.zone /\ n.writes = m.writes
      /\ n.st = [i \in Id |-> IF i \in S THEN UNOCCUPIED ELSE m.st[i]]
  BY <1>1
<1>3. m.st \in [Id -> UNOCCUPIED .. I_OCCUPIED]
  BY DEF IsMemory
<1>4. /\ \A x \in Id : n.st[x] = IF x \in S THEN UNOCCUPIED ELSE m.st[x]
      /\ n.st \in [Id -> UNOCCUPIED .. I_OCCUPIED]
  BY <1>2, <1>3 DEF UNOCCUPIED, I_OCCUPIED
<1>5. IsMemory(n)
  BY <1>2, <1>4 DEF IsMemory
<1>6. Logged(d, n)
  BY <1>2, SameLog
<1> QED
  BY <1>2, <1>4, <1>5, <1>6 DEF n

\* get_free_id finds a zone that is not taken, or none.
LEMMA FreeZone ==
  ASSUME NEW m
  PROVE  \/ get_free_id(m) = -1
         \/ get_free_id(m) \in Id /\ m.st[get_free_id(m)] = UNOCCUPIED
<1> DEFINE free == {id \in Id : m.st[id] = UNOCCUPIED}
<1>1. CASE free = {}
  BY <1>1 DEF get_free_id
<1>2. CASE free # {}
  <2>1. get_free_id(m) = CHOOSE id \in free : \A j \in free : id <= j
    BY <1>2 DEF get_free_id
  <2>2. free \subseteq Nat
    BY Limits
  <2> HIDE DEF free
  <2>3. \E id \in free : \A j \in free : id <= j
    BY <1>2, <2>2, LeastNat
  <2>4. get_free_id(m) \in free
    BY <2>1, <2>3
  <2> QED
    BY <2>4 DEF free
<1> QED
  BY <1>1, <1>2

-----------------------------------------------------------------------------
(* Trees that grow and are cut.                                             *)

\* Zones outside do not matter.
LEMMA Outside ==
  ASSUME NEW d, NEW e, NEW U, NEW r, Plan(d, U, r), \A x \in U : e[x] = d[x]
  PROVE  /\ Plan(e, U, r)
         /\ Held(d, U) => Held(e, U)
         /\ \A st : Tally(st, d, U) => Tally(st, e, U)
<1>1. ASSUME NEW x \in U, NEW i, NEW c, Pt(e[x], i, c)
      PROVE  c \in U /\ Kid(e, x, c, r)
  <2>1. Pt(d[x], i, c)
    BY <1>1
  <2>2. c \in U /\ Kid(d, x, c, r)
    BY <2>1 DEF Plan
  <2> QED
    BY <2>2 DEF Kid
<1>2. Plan(e, U, r)
  BY <1>1 DEF Plan
<1>3. Held(d, U) => Held(e, U)
  BY DEF Held
<1>4. \A st : Tally(st, d, U) => Tally(st, e, U)
  BY DEF Tally
<1> QED
  BY <1>2, <1>3, <1>4

\* In e zone h has one more pointer than in d, to the zone new.
Linked(d, e, U, h, j, new) ==
  /\ \A x \in U \ {h} : e[x] = d[x]
  /\ d[h].type \in {"dentry", "inode"} /\ e[h].type = d[h].type /\ e[h].parent = d[h].parent
  /\ \A x : ~Pt(d[h], j, x)
  /\ \A i, x : Pt(e[h], i, x) <=> Pt(d[h], i, x) \/ (i = j /\ x = new)
  /\ \A i, x : ~Pt(e[new], i, x)
  /\ d[h].type = "dentry" => e[new].type \in {"dentry", "inode"} /\ e[new].parent = h
  /\ d[h].type = "inode" => e[new].type = "data"

\* A tree that grows by a zone is a tree.
LEMMA Adding ==
  ASSUME NEW d, NEW e, NEW U, NEW r, Plan(d, U, r), Held(d, U),
         NEW h \in U, NEW j, NEW new \in Id \ U, Linked(d, e, U, h, j, new)
  PROVE  \E r2 : Plan(e, U \cup {new}, r2) /\ Held(e, U \cup {new})
<1> DEFINE V == U \cup {new}
           r2 == [x \in V |-> IF x = new THEN r[h] + 1 ELSE r[x]]
<1>1. /\ \A x \in U : r2[x] = r[x] /\ r[x] \in Nat
      /\ r2[new] = r[h] + 1 /\ r2 \in [V -> Nat]
  BY DEF Plan
<1>2. /\ U \subseteq Id /\ Root \in U /\ r[Root] = 0 /\ d[Root].type = "dentry"
      /\ \A x \in U : d[x].type \in {"dentry", "inode", "data"}
      /\ \A x \in U : \A i, c : Pt(d[x], i, c) => c \in U /\ Kid(d, x, c, r)
      /\ \A x, y \in U : \A i, k, c : Pt(d[x], i, c) /\ Pt(d[y], k, c) => x = y /\ i = k
  BY DEF Plan
<1>3. /\ \A x \in U \ {h} : e[x] = d[x]
      /\ d[h].type \in {"dentry", "inode"} /\ e[h].type = d[h].type /\ e[h].parent = d[h].parent
      /\ \A x : ~Pt(d[h], j, x)
      /\ \A i, x : Pt(e[h], i, x) <=> Pt(d[h], i, x) \/ (i = j /\ x = new)
      /\ \A i, x : ~Pt(e[new], i, x)
      /\ d[h].type = "dentry" => e[new].type \in {"dentry", "inode"} /\ e[new].parent = h
      /\ d[h].type = "inode" => e[new].type = "data"
  BY DEF Linked
<1> HIDE DEF r2
<1>4. \A x \in U : /\ e[x].type = d[x].type
                   /\ d[x].type \in {"dentry", "inode"} => e[x].parent = d[x].parent
  BY <1>3
<1>5. \A x \in U : \A i, c : Pt(e[x], i, c) <=> Pt(d[x], i, c) \/ (x = h /\ i = j /\ c = new)
  BY <1>3
<1>6. ASSUME NEW x \in U, NEW i, NEW c, Pt(d[x], i, c)
      PROVE  c \in V /\ Kid(e, x, c, r2)
  <2>1. c \in U /\ Kid(d, x, c, r)
    BY <1>2, <1>6
  <2> QED
    BY <1>1, <1>4, <2>1 DEF Kid
<1>7. Kid(e, h, new, r2)
  BY <1>1, <1>3 DEF Kid
<1>8. ASSUME NEW x \in V, NEW i, NEW c, Pt(e[x], i, c)
      PROVE  c \in V /\ Kid(e, x, c, r2)
  BY <1>3, <1>5, <1>6, <1>7, <1>8
<1>9. ASSUME NEW x \in V, NEW y \in V, NEW i, NEW k, NEW c, Pt(e[x], i, c), Pt(e[y], k, c)
      PROVE  x = y /\ i = k
  <2>1. x \in U /\ y \in U
    BY <1>3, <1>9
  <2>2. CASE c = new
    <3>1. ~Pt(d[x], i, new) /\ ~Pt(d[y], k, new)
      BY <1>2, <2>1
    <3>2. x = h /\ i = j
      BY <1>5, <1>9, <2>1, <2>2, <3>1
    <3>3. y = h /\ k = j
      BY <1>5, <1>9, <2>1, <2>2, <3>1
    <3> QED
      BY <3>2, <3>3
  <2>3. CASE c # new
    <3>1. Pt(d[x], i, c) /\ Pt(d[y], k, c)
      BY <1>5, <1>9, <2>1, <2>3
    <3> QED
      BY <1>2, <2>1, <3>1
  <2> QED
    BY <2>2, <2>3
<1>10. e[new].type \in {"dentry", "inode", "data"}
  BY <1>3
<1>11. Plan(e, V, r2)
  <2>1. V \subseteq Id /\ Root \in V
    BY <1>2
  <2>2. r2[Root] = 0 /\ e[Root].type = "dentry"
    BY <1>1, <1>2, <1>4
  <2>3. \A x \in V : e[x].type \in {"dentry", "inode", "data"}
    BY <1>2, <1>4, <1>10
  <2>4. \A x \in V : \A i, c : Pt(e[x], i, c) => c \in V /\ Kid(e, x, c, r2)
    BY <1>8
  <2>5. \A x, y \in V : \A i, k, c : Pt(e[x], i, c) /\ Pt(e[y], k, c) => x = y /\ i = k
    BY <1>9
  <2> HIDE DEF V
  <2> QED
    BY <1>1, <2>1, <2>2, <2>3, <2>4, <2>5 DEF Plan
<1>12. Held(e, V)
  <2>1. \A c \in U \ {Root} : \E x \in U : \E i : Pt(d[x], i, c)
    BY DEF Held
  <2>2. Pt(e[h], j, new)
    BY <1>3
  <2>3. \A c \in V \ {Root} : \E x \in V : \E i : Pt(e[x], i, c)
    BY <1>5, <2>1, <2>2
  <2> QED
    BY <2>3 DEF Held
<1> QED
  BY <1>11, <1>12

\* In e zone p has no more a pointer to x.
Cut(d, e, U, p, x) ==
  /\ \A y \in U \ {p} : e[y] = d[y]
  /\ e[p].type = d[p].type /\ e[p].parent = d[p].parent
  /\ \A i, c : Pt(e[p], i, c) => c # x /\ \E j : Pt(d[p], j, c)
  /\ \A j, c : Pt(d[p], j, c) /\ c # x => \E i : Pt(e[p], i, c)
  /\ \A i, j, c : Pt(e[p], i, c) /\ Pt(e[p], j, c) => i = j

\* The zones of a node without nodes below it.
NodeOf(d, x) == {x} \cup {c \in Id : \E i : Pt(d[x], i, c)}

\* A tree is a tree without one of its leaves.
LEMMA Cutting ==
  ASSUME NEW d, NEW e, NEW U, NEW r, Plan(d, U, r), NEW p \in U, NEW x \in U,
         NEW i0, Pt(d[p], i0, x), Cut(d, e, U, p, x),
         \A i, c : Pt(d[x], i, c) => d[c].type = "data"
  PROVE  /\ \E r2 : Plan(e, U \ NodeOf(d, x), r2)
         /\ Held(d, U) => Held(e, U \ NodeOf(d, x))
         /\ p \notin NodeOf(d, x)
<1> DEFINE G == NodeOf(d, x)
           V == U \ G
           r2 == [y \in V |-> r[y]]
<1>1. /\ U \subseteq Id /\ Root \in U /\ r[Root] = 0 /\ d[Root].type = "dentry"
      /\ r \in [U -> Nat]
      /\ \A y \in U : d[y].type \in {"dentry", "inode", "data"}
      /\ \A y \in U : \A i, c : Pt(d[y], i, c) => c \in U /\ Kid(d, y, c, r)
      /\ \A y, z \in U : \A i, j, c : Pt(d[y], i, c) /\ Pt(d[z], j, c) => y = z /\ i = j
  BY DEF Plan
<1>2. /\ \A y \in U \ {p} : e[y] = d[y]
      /\ e[p].type = d[p].type /\ e[p].parent = d[p].parent
      /\ \A i, c : Pt(e[p], i, c) => c # x /\ \E j : Pt(d[p], j, c)
      /\ \A j, c : Pt(d[p], j, c) /\ c # x => \E i : Pt(e[p], i, c)
      /\ \A i, j, c : Pt(e[p], i, c) /\ Pt(e[p], j, c) => i = j
  BY DEF Cut
<1>3. \A y \in U : d[y].type = "data" => \A i, c : ~Pt(d[y], i, c)
  BY DEF Pt
<1>4. \A y : y \in G <=> y = x \/ \E i : Pt(d[x], i, y)
  BY <1>1 DEF NodeOf
<1>5. d[p].type \in {"dentry", "inode"}
  BY DEF Pt
<1>6. Kid(d, p, x, r)
  BY <1>1
<1>7. x # Root /\ x # p
  BY <1>1, <1>5, <1>6 DEF Kid
<1>8. p \notin G
  BY <1>1, <1>4, <1>5, <1>7
<1>9. Root \notin G
  BY <1>1, <1>4, <1>7
<1> HIDE DEF G
<1>10. /\ \A y \in V : r2[y] = r[y] /\ r[y] \in Nat
       /\ r2 \in [V -> Nat]
  BY <1>1
<1> HIDE DEF r2
<1>11. \A y \in V : /\ e[y].type = d[y].type
                    /\ d[y].type \in {"dentry", "inode"} => e[y].parent = d[y].parent
  BY <1>2
<1>12. ASSUME NEW y \in V, NEW i, NEW c, Pt(e[y], i, c)
       PROVE  c # x /\ \E j : Pt(d[y], j, c)
  <2>1. CASE y = p
    BY <1>2, <1>12, <2>1
  <2>2. CASE y # p
    BY <1>1, <1>2, <1>12, <2>2
  <2> QED
    BY <2>1, <2>2
<1>13. ASSUME NEW y \in V, NEW i, NEW c, Pt(e[y], i, c)
       PROVE  c \in V /\ Kid(e, y, c, r2)
  <2>1. PICK j : c # x /\ Pt(d[y], j, c)
    BY <1>12, <1>13
  <2>2. c \in U /\ Kid(d, y, c, r)
    BY <1>1, <2>1
  <2>3. c \notin G
    BY <1>1, <1>4, <2>1
  <2> QED
    BY <1>10, <1>11, <2>2, <2>3 DEF Kid
<1>14. ASSUME NEW y \in V, NEW z \in V, NEW i, NEW j, NEW c, Pt(e[y], i, c), Pt(e[z], j, c)
       PROVE  y = z /\ i = j
  <2>1. PICK k, l : Pt(d[y], k, c) /\ Pt(d[z], l, c)
    BY <1>12, <1>14
  <2>2. y = z
    BY <1>1, <2>1
  <2>3. CASE y = p
    <3>1. Pt(e[p], i, c) /\ Pt(e[p], j, c)
      BY <1>14, <2>2, <2>3
    <3>2. i = j
      BY <1>2, <3>1
    <3> QED
      BY <2>2, <3>2
  <2>4. CASE y # p
    <3>1. e[y] = d[y] /\ y \in U
      BY <1>2, <2>4
    <3>2. Pt(d[y], i, c) /\ Pt(d[y], j, c)
      BY <1>14, <2>2, <3>1
    <3> QED
      BY <1>1, <2>2, <3>1, <3>2
  <2> QED
    BY <2>2, <2>3, <2>4, Zenon
<1>15. Plan(e, V, r2)
  <2>1. V \subseteq Id /\ Root \in V
    BY <1>1, <1>9
  <2>2. r2[Root] = 0 /\ e[Root].type = "dentry"
    BY <1>1, <1>10, <1>11, <2>1
  <2>3. \A y \in V : e[y].type \in {"dentry", "inode", "data"}
    BY <1>1, <1>11
  <2>4. \A y \in V : \A i, c : Pt(e[y], i, c) => c \in V /\ Kid(e, y, c, r2)
    BY <1>13
  <2>5. \A y, z \in V : \A i, j, c : Pt(e[y], i, c) /\ Pt(e[z], j, c) => y = z /\ i = j
    BY <1>14
  <2> HIDE DEF V
  <2> QED
    BY <1>10, <2>1, <2>2, <2>3, <2>4, <2>5 DEF Plan
<1>16. ASSUME Held(d, U)
       PROVE  Held(e, V)
  <2>1. ASSUME NEW c \in V \ {Root}
        PROVE  \E y \in V : \E i : Pt(e[y], i, c)
    <3>1. PICK y, i : y \in U /\ Pt(d[y], i, c)
      BY <1>16 DEF Held
    <3>2. c \notin G
      OBVIOUS
    <3>3. y \notin G
      BY <1>1, <1>3, <1>4, <3>1, <3>2
    <3>4. CASE y = p
      BY <1>2, <1>4, <3>1, <3>2, <3>3, <3>4
    <3>5. CASE y # p
      BY <1>2, <3>1, <3>3, <3>5
    <3> QED
      BY <3>4, <3>5
  <2> QED
    BY <2>1 DEF Held
<1> QED
  BY <1>8, <1>15, <1>16 DEF G

-----------------------------------------------------------------------------
(* Ways.                                                                    *)

\* What is on a way is in the tree, as deep as it stands, and below the one
\* before it.
LEMMA WayIn ==
  ASSUME NEW d, NEW U, NEW r, Plan(d, U, r), NEW at, Way(d, at)
  PROVE  /\ Len(at) \in Nat /\ Last(at) \in U
         /\ \A k \in 1 .. Len(at) : at[k] \in U /\ r[at[k]] = k - 1
         /\ \A k \in 1 .. Len(at) - 1 : d[at[k]].type = "dentry"
         /\ Len(at) >= 2 =>
              /\ d[Last(at)].type \in {"dentry", "inode"} /\ d[Last(at)].parent = at[Len(at) - 1]
              /\ \E i : Pt(d[at[Len(at) - 1]], i, Last(at))
<1>1. /\ at \in Seq(Id) /\ Len(at) \in Nat /\ Len(at) >= 1 /\ at[1] = Root
      /\ \A k \in 2 .. Len(at) : d[at[k - 1]].type = "dentry" /\ \E i : Pt(d[at[k - 1]], i, at[k])
  BY DEF Way
<1>2. /\ Root \in U /\ r[Root] = 0
      /\ \A x \in U : \A i, c : Pt(d[x], i, c) => c \in U /\ Kid(d, x, c, r)
      /\ r \in [U -> Nat]
  BY DEF Plan
<1> DEFINE S == {k \in Nat : k + 1 <= Len(at) => at[k + 1] \in U /\ r[at[k + 1]] = k}
<1>3. 0 \in S
  BY <1>1, <1>2
<1>4. ASSUME NEW k \in Nat, k \in S
      PROVE  k + 1 \in S
  <2> SUFFICES ASSUME k + 2 <= Len(at)
               PROVE  at[k + 2] \in U /\ r[at[k + 2]] = k + 1
    OBVIOUS
  <2>1. at[k + 1] \in U /\ r[at[k + 1]] = k
    BY <1>1, <1>4
  <2>2. k + 2 \in 2 .. Len(at) /\ (k + 2) - 1 = k + 1
    BY <1>1
  <2>3. d[at[k + 1]].type = "dentry" /\ \E i : Pt(d[at[k + 1]], i, at[k + 2])
    BY <1>1, <2>2
  <2>4. at[k + 2] \in U /\ Kid(d, at[k + 1], at[k + 2], r)
    BY <1>2, <2>1, <2>3
  <2> QED
    BY <2>1, <2>3, <2>4 DEF Kid
<1>5. Nat \subseteq S
  <2> HIDE DEF S
  <2> QED
    BY <1>3, <1>4, Induct
<1>6. ASSUME NEW k \in 1 .. Len(at)
      PROVE  at[k] \in U /\ r[at[k]] = k - 1
  <2>1. k - 1 \in Nat /\ (k - 1) + 1 = k
    BY <1>1
  <2>2. k - 1 \in S
    BY <1>5, <2>1
  <2> QED
    BY <2>1, <2>2
<1>7. ASSUME NEW k \in 1 .. Len(at) - 1
      PROVE  d[at[k]].type = "dentry"
  <2>1. k + 1 \in 2 .. Len(at) /\ (k + 1) - 1 = k
    BY <1>1
  <2> QED
    BY <1>1, <2>1
<1>8. ASSUME Len(at) >= 2
      PROVE  /\ d[Last(at)].type \in {"dentry", "inode"} /\ d[Last(at)].parent = at[Len(at) - 1]
             /\ \E i : Pt(d[at[Len(at) - 1]], i, Last(at))
  <2>1. Len(at) \in 2 .. Len(at) /\ Len(at) - 1 \in 1 .. Len(at)
    BY <1>1, <1>8
  <2>2. /\ d[at[Len(at) - 1]].type = "dentry"
        /\ \E i : Pt(d[at[Len(at) - 1]], i, at[Len(at)])
    BY <1>1, <2>1
  <2>3. at[Len(at) - 1] \in U
    BY <1>6, <2>1
  <2>4. Kid(d, at[Len(at) - 1], at[Len(at)], r)
    BY <1>2, <2>2, <2>3
  <2> QED
    BY <2>2, <2>4 DEF Kid, Last
<1>9. Last(at) \in U
  BY <1>1, <1>6 DEF Last
<1> QED
  BY <1>1, <1>6, <1>7, <1>8, <1>9

\* A way less its last step.
LEMMA WayFront ==
  ASSUME NEW d, NEW at, Way(d, at), Len(at) # 1
  PROVE  Here(d, Front(at)) /\ Last(Front(at)) = at[Len(at) - 1]
<1>1. /\ at \in Seq(Id) /\ Len(at) \in Nat /\ Len(at) >= 2 /\ at[1] = Root
      /\ \A k \in 2 .. Len(at) : d[at[k - 1]].type = "dentry" /\ \E i : Pt(d[at[k - 1]], i, at[k])
  <2>1. at \in Seq(Id) /\ Len(at) >= 1 /\ at[1] = Root
    BY DEF Way
  <2>3. Len(at) \in Nat
    BY <2>1
  <2>4. \A n \in Nat : n # 1 /\ n >= 1 => n >= 2
    OBVIOUS
  <2>2. Len(at) >= 2
    BY <2>1, <2>3, <2>4
  <2> QED
    BY <2>1, <2>2, <2>3 DEF Way
<1> DEFINE w == Front(at)
<1>2. /\ w \in Seq(Id) /\ Len(w) = Len(at) - 1
      /\ \A k \in 1 .. Len(at) - 1 : w[k] = at[k]
  <2>1. w = SubSeq(at, 1, Len(at) - 1)
    BY DEF Front
  <2>2. \A k \in 1 .. Len(at) : at[k] \in Id
    BY <1>1
  <2>3. SubSeq(at, 1, Len(at) - 1) \in Seq(Id)
    BY <1>1
  <2>4. Len(SubSeq(at, 1, Len(at) - 1)) = Len(at) - 1
    BY <1>1
  <2>5. \A k \in 1 .. Len(at) - 1 : SubSeq(at, 1, Len(at) - 1)[k] = at[k]
    BY <1>1
  <2> QED
    BY <2>1, <2>3, <2>4, <2>5
<1> HIDE DEF w
<1>3. ASSUME NEW k \in 2 .. Len(w)
      PROVE  d[w[k - 1]].type = "dentry" /\ \E i : Pt(d[w[k - 1]], i, w[k])
  <2>1. k \in 2 .. Len(at) /\ w[k] = at[k] /\ w[k - 1] = at[k - 1]
    BY <1>1, <1>2
  <2> QED
    BY <1>1, <2>1
<1>4. Way(d, w)
  BY <1>1, <1>2, <1>3 DEF Way
<1>5. Last(w) = at[Len(at) - 1]
  BY <1>1, <1>2 DEF Last
<1>6. d[at[Len(at) - 1]].type = "dentry"
  BY <1>1
<1> QED
  BY <1>4, <1>5, <1>6 DEF Here, w

\* A way and one step more.
LEMMA WayFurther ==
  ASSUME NEW d, NEW at, Here(d, at), NEW i, NEW c \in Id, Pt(d[Last(at)], i, c)
  PROVE  /\ Way(d, Append(at, c)) /\ Last(Append(at, c)) = c
         /\ Len(Append(at, c)) = Len(at) + 1 /\ Append(at, c)[Len(at)] = Last(at)
<1>1. /\ at \in Seq(Id) /\ Len(at) \in Nat /\ Len(at) >= 1 /\ at[1] = Root
      /\ \A k \in 2 .. Len(at) : d[at[k - 1]].type = "dentry" /\ \E j : Pt(d[at[k - 1]], j, at[k])
      /\ d[Last(at)].type = "dentry"
  BY DEF Here, Way
<1> DEFINE w == Append(at, c)
<1>2. /\ w \in Seq(Id) /\ Len(w) = Len(at) + 1
      /\ \A k \in 1 .. Len(at) : w[k] = at[k]
      /\ w[Len(at) + 1] = c
  BY <1>1
<1> HIDE DEF w
<1>3. ASSUME NEW k \in 2 .. Len(w)
      PROVE  d[w[k - 1]].type = "dentry" /\ \E j : Pt(d[w[k - 1]], j, w[k])
  <2>1. CASE k = Len(at) + 1
    <3>1. w[k] = c /\ w[k - 1] = Last(at)
      BY <1>1, <1>2, <2>1 DEF Last
    <3> QED
      BY <1>1, <3>1
  <2>2. CASE k \in 2 .. Len(at)
    <3>1. w[k] = at[k] /\ w[k - 1] = at[k - 1]
      BY <1>1, <1>2, <2>2
    <3> QED
      BY <1>1, <2>2, <3>1
  <2> QED
    BY <1>1, <1>2, <2>1, <2>2
<1>4. Way(d, w)
  BY <1>1, <1>2, <1>3 DEF Way
<1>5. Last(w) = c /\ w[Len(at)] = Last(at)
  BY <1>1, <1>2 DEF Last
<1> QED
  BY <1>2, <1>4, <1>5 DEF w

\* A working directory is one on another disk if its directories and their
\* pointers to one another are there.
LEMMA HereKept ==
  ASSUME NEW d, NEW e, NEW at, Here(d, at),
         \A k \in 1 .. Len(at) : e[at[k]].type = d[at[k]].type,
         \A k \in 1 .. Len(at) - 1 :
           \A i : Pt(d[at[k]], i, at[k + 1]) => \E j : Pt(e[at[k]], j, at[k + 1])
  PROVE  Here(e, at)
<1>1. /\ at \in Seq(Id) /\ Len(at) \in Nat /\ Len(at) >= 1 /\ at[1] = Root
      /\ \A k \in 2 .. Len(at) : d[at[k - 1]].type = "dentry" /\ \E j : Pt(d[at[k - 1]], j, at[k])
      /\ d[Last(at)].type = "dentry"
  BY DEF Here, Way
<1>2. ASSUME NEW k \in 2 .. Len(at)
      PROVE  e[at[k - 1]].type = "dentry" /\ \E j : Pt(e[at[k - 1]], j, at[k])
  <2>1. k - 1 \in 1 .. Len(at) /\ k - 1 \in 1 .. Len(at) - 1 /\ (k - 1) + 1 = k
    BY <1>1
  <2>2. d[at[k - 1]].type = "dentry" /\ \E j : Pt(d[at[k - 1]], j, at[k])
    BY <1>1
  <2>3. \A i : Pt(d[at[k - 1]], i, at[(k - 1) + 1]) => \E j : Pt(e[at[k - 1]], j, at[(k - 1) + 1])
    BY <2>1
  <2> QED
    BY <2>1, <2>2, <2>3
<1>3. Len(at) \in 1 .. Len(at)
  BY <1>1
<1>4. e[Last(at)].type = "dentry"
  BY <1>1, <1>3 DEF Last
<1> QED
  BY <1>1, <1>2, <1>4 DEF Here, Way

\* Where all of the tree is as it was, so is the working directory.
LEMMA HereOutside ==
  ASSUME NEW d, NEW e, NEW U, NEW r, Plan(d, U, r), \A x \in U : e[x] = d[x],
         NEW at, Here(d, at)
  PROVE  Here(e, at)
<1>1. Len(at) \in Nat /\ \A k \in 1 .. Len(at) : at[k] \in U
  BY WayIn DEF Here
<1>2. \A k \in 1 .. Len(at) : e[at[k]] = d[at[k]]
  BY <1>1
<1> QED
  BY <1>1, <1>2, HereKept

\* It is still there when the tree grows,
LEMMA HereAdding ==
  ASSUME NEW d, NEW e, NEW U, NEW r, Plan(d, U, r), NEW h \in U, NEW j, NEW new,
         Linked(d, e, U, h, j, new), NEW at, Here(d, at)
  PROVE  Here(e, at)
<1>1. Len(at) \in Nat /\ \A k \in 1 .. Len(at) : at[k] \in U
  BY WayIn DEF Here
<1>2. \A x \in U : e[x].type = d[x].type /\ \A i, c : Pt(d[x], i, c) => Pt(e[x], i, c)
  BY DEF Linked
<1>3. \A k \in 1 .. Len(at) : e[at[k]].type = d[at[k]].type
  BY <1>1, <1>2
<1>4. ASSUME NEW k \in 1 .. Len(at) - 1, NEW i, Pt(d[at[k]], i, at[k + 1])
      PROVE  \E l : Pt(e[at[k]], l, at[k + 1])
  <2>1. at[k] \in U
    BY <1>1
  <2> QED
    BY <1>2, <1>4, <2>1
<1> QED
  BY <1>3, <1>4, HereKept

\* and when a zone is cut off that is not on the way to it.
LEMMA HereCut ==
  ASSUME NEW d, NEW e, NEW U, NEW r, Plan(d, U, r), NEW p \in U, NEW x,
         Cut(d, e, U, p, x), NEW at, Here(d, at), \A k \in 1 .. Len(at) : at[k] # x
  PROVE  Here(e, at)
<1>1. Len(at) \in Nat /\ \A k \in 1 .. Len(at) : at[k] \in U
  BY WayIn DEF Here
<1>2. ASSUME NEW y \in U, NEW i, NEW c, Pt(d[y], i, c), c # x
      PROVE  \E l : Pt(e[y], l, c)
  <2>1. CASE y = p
    BY <1>2, <2>1 DEF Cut
  <2>2. CASE y # p
    BY <1>2, <2>2 DEF Cut
  <2> QED
    BY <2>1, <2>2
<1>3. \A k \in 1 .. Len(at) : e[at[k]].type = d[at[k]].type
  BY <1>1 DEF Cut
<1>4. ASSUME NEW k \in 1 .. Len(at) - 1, NEW i, Pt(d[at[k]], i, at[k + 1])
      PROVE  \E l : Pt(e[at[k]], l, at[k + 1])
  <2>1. at[k] \in U /\ at[k + 1] # x
    BY <1>1
  <2> QED
    BY <1>2, <1>4, <2>1
<1> QED
  BY <1>3, <1>4, HereKept

-----------------------------------------------------------------------------
(* Entries of a directory.                                                  *)

\* A directory is one zone: the chain ends where it starts.
LEMMA EndIs ==
  ASSUME NEW m, Store(m.zone), NEW h \in Id
  PROVE  End(m, h) = h
<1> DEFINE g == [id \in -1 .. MAX_ID |-> id]
           f == CHOOSE f : f = [id \in -1 .. MAX_ID |->
                  IF id < Root \/ NextOf(m.zone[id]) = 0 THEN id ELSE f[NextOf(m.zone[id])]]
<1>1. End(m, h) = f[h]
  BY DEF End
<1>2. \A id \in -1 .. MAX_ID : id < Root \/ NextOf(m.zone[id]) = 0
  <2>1. \A id \in Id : NextOf(m.zone[id]) = 0
    BY FormedIs DEF Store
  <2>2. \A id \in -1 .. MAX_ID : id < Root \/ id \in Id
    BY Limits
  <2> QED
    BY <2>1, <2>2
<1>3. g = [id \in -1 .. MAX_ID |->
             IF id < Root \/ NextOf(m.zone[id]) = 0 THEN id ELSE g[NextOf(m.zone[id])]]
  BY <1>2
<1>4. f = [id \in -1 .. MAX_ID |->
             IF id < Root \/ NextOf(m.zone[id]) = 0 THEN id ELSE f[NextOf(m.zone[id])]]
  <2> HIDE DEF g
  <2> QED
    BY <1>3
<1> HIDE DEF f
<1>5. h \in -1 .. MAX_ID
  BY Limits
<1> QED
  BY <1>1, <1>2, <1>4, <1>5

\* The first entry without an id is the one after the last in use.
LEMMA NextSlot ==
  ASSUME NEW z, Formed(z), z.type = "dentry", NEW i0 \in Subs, z.subs[i0].id = 0
  PROVE  \E i \in Subs : /\ i = IF Used(z) = {} THEN 1 ELSE LastUsed(z) + 1
                         /\ z.subs[Len(z.subs)].id = 0
                         /\ \A j \in Subs : z.subs[j].id # 0 <=> j < i
<1> DEFINE N == NUM_OF_DENTRY_SUBS
<1>1. N \in Nat \ {0} /\ N \in Subs /\ Subs = 1 .. N
  BY Limits DEF Subs
<1>2. /\ \A j \in Subs : z.subs[j].id \in {0} \cup Id
      /\ \A i, j \in Subs : i <= j /\ z.subs[j].id # 0 => z.subs[i].id # 0
  BY FormedIs DEF IsSubs
<1>3. Len(z.subs) = N /\ \A j : j \in Used(z) <=> j \in Subs /\ z.subs[j].id # 0
  BY Pointers
<1>4. z.subs[N].id = 0
  BY <1>1, <1>2
<1>5. CASE Used(z) = {}
  <2>1. \A j \in Subs : z.subs[j].id # 0 <=> j < 1
    BY <1>1, <1>3, <1>5
  <2> QED
    BY <1>1, <1>3, <1>4, <1>5, <2>1
<1>6. CASE Used(z) # {}
  <2>1. PICK k \in Used(z) : \A j \in Used(z) : j <= k
    <3>1. Used(z) \subseteq 0 .. N
      BY <1>1, <1>3
    <3> QED
      BY <1>1, <1>6, <3>1, GreatestNat
  <2>2. LastUsed(z) \in Used(z) /\ \A j \in Used(z) : j <= LastUsed(z)
    BY <2>1 DEF LastUsed
  <2> DEFINE l == LastUsed(z)
  <2> HIDE DEF l
  <2>3. l \in Subs /\ z.subs[l].id # 0 /\ \A j \in Subs : z.subs[j].id # 0 => j <= l
    BY <1>3, <2>2 DEF l
  <2>4. l + 1 \in Subs
    BY <1>1, <1>4, <2>3
  <2>5. \A j \in Subs : z.subs[j].id # 0 <=> j < l + 1
    BY <1>1, <1>2, <2>3
  <2>6. l + 1 = IF Used(z) = {} THEN 1 ELSE LastUsed(z) + 1
    BY <1>6 DEF l
  <2> QED
    BY <1>3, <1>4, <2>4, <2>5, <2>6
<1> QED
  BY <1>5, <1>6

\* A directory with other entries.
LEMMA OtherSubs ==
  ASSUME NEW z, Formed(z), z.type = "dentry", NEW s
  PROVE  [z EXCEPT !.subs = s] = DentryOf(z.parent, s)
<1>1. z = DentryOf(z.parent, z.subs)
  BY FormedIs
<1> QED
  BY <1>1 DEF DentryOf

\* An entry is put into the first free place.
LEMMA WithEntry ==
  ASSUME NEW z, Formed(z), z.type = "dentry", NEW i \in Subs,
         \A j \in Subs : z.subs[j].id # 0 <=> j < i,
         NEW id \in Id, NEW name \in STRING, \A j \in Subs : z.subs[j].name # name,
         NEW s, s = Entered(z.subs, i, Entry(id, name)),
         NEW y, y = DentryOf(z.parent, s)
  PROVE  /\ Formed(y) /\ y.type = "dentry" /\ y.parent = z.parent
         /\ \A j, x : Pt(y, j, x) <=> Pt(z, j, x) \/ (j = i /\ x = id)
         /\ \A x : ~Pt(z, i, x)
         /\ \A n, c : Ent(y, n, c) <=> Ent(z, n, c) \/ (n = name /\ c = id)
<1>1. z = DentryOf(z.parent, z.subs) /\ z.parent \in {0} \cup Id /\ IsSubs(z.subs)
  BY FormedIs
<1>3. /\ z.subs = [j \in Subs |-> z.subs[j]]
      /\ \A j \in Subs : /\ z.subs[j].id \in {0} \cup Id
                         /\ z.subs[j].id # 0 => z.subs[j].name \in STRING
      /\ \A j \in Subs : z.subs[j].id = 0 => z.subs[j] = NoEntry
      /\ \A j, k \in Subs : z.subs[j].name = z.subs[k].name /\ z.subs[j].id # 0 /\ z.subs[k].id # 0
                              => j = k
  BY <1>1 DEF IsSubs
<1>5. /\ s = [j \in Subs |-> s[j]]
      /\ \A j \in Subs : s[j] = IF j = i THEN Entry(id, name) ELSE z.subs[j]
  BY <1>3 DEF Entered
<1>6. id # 0 /\ Entry(id, name).id = id /\ Entry(id, name).name = name /\ Subs \subseteq Nat
  BY Limits DEF Entry
<1>7. IsSubs(s)
  <2>1. \A j \in Subs : s[j].id = 0 => s[j] = NoEntry
    BY <1>3, <1>5, <1>6
  <2>2. \A j, k \in Subs : j <= k /\ s[k].id # 0 => s[j].id # 0
    BY <1>5, <1>6
  <2>3. \A j, k \in Subs : s[j].name = s[k].name /\ s[j].id # 0 /\ s[k].id # 0 => j = k
    BY <1>3, <1>5, <1>6
  <2>4. \A j \in Subs : s[j].id \in {0} \cup Id /\ (s[j].id # 0 => s[j].name \in STRING)
    BY <1>3, <1>5, <1>6
  <2> QED
    BY <1>5, <2>1, <2>2, <2>3, <2>4 DEF IsSubs
<1>8. y.type = "dentry" /\ y.parent = z.parent /\ y.subs = s
  BY DEF DentryOf
<1>9. Formed(y)
  BY <1>1, <1>7 DEF Formed
<1>10. /\ \A j, x : Pt(y, j, x) <=> j \in Subs /\ s[j].id = x /\ x # 0
       /\ \A j, x : Pt(z, j, x) <=> j \in Subs /\ z.subs[j].id = x /\ x # 0
  <2>1. \A j, x : Pt(y, j, x) <=> j \in Subs /\ y.subs[j].id = x /\ x # 0
    BY <1>8, <1>9, Points
  <2>2. \A j, x : Pt(z, j, x) <=> j \in Subs /\ z.subs[j].id = x /\ x # 0
    BY Points
  <2> QED
    BY <1>8, <2>1, <2>2
<1>11. z.subs[i].id = 0
  <2>1. i \in Nat /\ ~(i < i)
    BY <1>6
  <2> QED
    BY <2>1
<1>12. \A j, x : Pt(y, j, x) <=> Pt(z, j, x) \/ (j = i /\ x = id)
  <2>1. ASSUME NEW j, NEW x, Pt(y, j, x)
        PROVE  Pt(z, j, x) \/ (j = i /\ x = id)
    <3>1. j \in Subs /\ s[j].id = x /\ x # 0
      BY <1>10, <2>1
    <3>2. CASE j = i
      BY <1>5, <1>6, <3>1, <3>2
    <3>3. CASE j # i
      <4>1. z.subs[j].id = x
        BY <1>5, <3>1, <3>3
      <4> QED
        BY <1>10, <3>1, <4>1
    <3> QED
      BY <3>2, <3>3
  <2>2. ASSUME NEW j, NEW x, Pt(z, j, x)
        PROVE  Pt(y, j, x)
    <3>1. j \in Subs /\ z.subs[j].id = x /\ x # 0
      BY <1>10, <2>2
    <3>2. s[j].id = x
      BY <1>5, <1>11, <3>1
    <3> QED
      BY <1>10, <3>1, <3>2
  <2>3. Pt(y, i, id)
    BY <1>5, <1>6, <1>10
  <2> QED
    BY <2>1, <2>2, <2>3
<1>13. \A n, c : Ent(y, n, c) <=> Ent(z, n, c) \/ (n = name /\ c = id)
  <2>1. ASSUME NEW n, NEW c, Ent(y, n, c)
        PROVE  Ent(z, n, c) \/ (n = name /\ c = id)
    <3>1. PICK j \in Subs : s[j].id = c /\ s[j].name = n /\ c # 0
      BY <1>8, <2>1 DEF Ent
    <3> QED
      BY <1>5, <1>6, <3>1 DEF Ent
  <2>2. ASSUME NEW n, NEW c, Ent(z, n, c)
        PROVE  Ent(y, n, c)
    <3>1. PICK j \in Subs : z.subs[j].id = c /\ z.subs[j].name = n /\ c # 0
      BY <2>2 DEF Ent
    <3>2. s[j] = z.subs[j]
      BY <1>5, <1>11, <3>1
    <3> QED
      BY <1>8, <3>1, <3>2 DEF Ent
  <2>3. Ent(y, name, id)
    BY <1>5, <1>6, <1>8 DEF Ent
  <2> QED
    BY <2>1, <2>2, <2>3
<1> QED
  BY <1>8, <1>9, <1>10, <1>11, <1>12, <1>13

\* The places rm_sub works at: the entry, and the last one in use.
LEMMA LastSlot ==
  ASSUME NEW z, Formed(z), z.type = "dentry", NEW x, NEW i \in Subs, z.subs[i].id = x, x # 0,
         \A j \in Subs : z.subs[j].id = x => j = i
  PROVE  /\ SlotOf(z, x) = {i}
         /\ \E k : RunEnd(z, i, k) /\ Reach(z, i, k)
<1> DEFINE N == NUM_OF_DENTRY_SUBS
           run == {l \in i .. Len(z.subs) : \A o \in i .. l : z.subs[o].id # 0}
           k == CHOOSE j \in run : \A l \in run : l <= j
<1>1. N \in Nat \ {0} /\ N \in Subs /\ Subs = 1 .. N
  BY Limits DEF Subs
<1>2. \A j, l \in Subs : j <= l /\ z.subs[l].id # 0 => z.subs[j].id # 0
  BY FormedIs DEF IsSubs
<1>3. Len(z.subs) = N /\ \A j : j \in Used(z) <=> j \in Subs /\ z.subs[j].id # 0
  BY Pointers
<1>4. SlotOf(z, x) = {i}
  <2>1. \A j \in 1 .. i - 1 : j \in Subs /\ j # i /\ z.subs[j].id # 0
    BY <1>1, <1>2
  <2>2. \A j \in 1 .. i - 1 : z.subs[j].id \notin {0, x}
    BY <2>1
  <2>3. i \in SlotOf(z, x)
    BY <1>3, <2>2 DEF SlotOf
  <2>4. \A j \in SlotOf(z, x) : j = i
    BY <1>3 DEF SlotOf
  <2> QED
    BY <2>3, <2>4
<1>5. \A l : l \in run <=> l \in Subs /\ i <= l /\ z.subs[l].id # 0
  <2>1. ASSUME NEW l \in run
        PROVE  l \in Subs /\ i <= l /\ z.subs[l].id # 0
    <3>1. l \in i .. N /\ \A o \in i .. l : z.subs[o].id # 0
      BY <1>3
    <3> QED
      BY <1>1, <3>1
  <2>2. ASSUME NEW l \in Subs, i <= l, z.subs[l].id # 0
        PROVE  l \in run
    <3>1. \A o \in i .. l : o \in Subs /\ o <= l
      BY <1>1
    <3>2. \A o \in i .. l : z.subs[o].id # 0
      BY <1>2, <2>2, <3>1
    <3>3. l \in i .. Len(z.subs)
      BY <1>1, <1>3, <2>2
    <3> QED
      BY <3>2, <3>3
  <2> QED
    BY <2>1, <2>2
<1>6. k \in run /\ \A l \in run : l <= k
  <2> HIDE DEF run
  <2>1. i \in run /\ run \subseteq 0 .. N
    BY <1>1, <1>5
  <2>2. \E j \in run : \A l \in run : l <= j
    BY <1>1, <2>1, GreatestNat
  <2> QED
    BY <2>2
<1>7. k = CHOOSE j \in run : \A l \in run : l <= j
  OBVIOUS
<1> HIDE DEF k
<1>8. k \in Subs /\ i <= k /\ z.subs[k].id # 0
  BY <1>5, <1>6
<1>9. \A j \in Subs : z.subs[j].id # 0 <=> j <= k
  <2>1. ASSUME NEW j \in Subs, z.subs[j].id # 0
        PROVE  j <= k
    <3>1. CASE i <= j
      BY <1>5, <1>6, <2>1, <3>1
    <3>2. CASE ~(i <= j)
      BY <1>1, <1>8, <3>2
    <3> QED
      BY <3>1, <3>2
  <2>2. ASSUME NEW j \in Subs, j <= k
        PROVE  z.subs[j].id # 0
    BY <1>2, <1>8, <2>2
  <2> QED
    BY <2>1, <2>2
<1>10. RunEnd(z, i, k) /\ Reach(z, i, k)
  BY <1>7, <1>8, <1>9 DEF RunEnd, Reach
<1> QED
  BY <1>4, <1>10

\* The last entry is put in place of the one taken out.
LEMMA WithoutEntry ==
  ASSUME NEW z, Formed(z), z.type = "dentry", NEW x, NEW i \in Subs, z.subs[i].id = x, x # 0,
         \A j, l, c : Pt(z, j, c) /\ Pt(z, l, c) => j = l,
         NEW k, Reach(z, i, k),
         NEW s, s = Moved(z.subs, i, k),
         NEW y, y = DentryOf(z.parent, s)
  PROVE  Without(y, z, x)
<1>0. k \in Subs /\ i <= k /\ \A j \in Subs : z.subs[j].id # 0 <=> j <= k
  BY DEF Reach
<1>1. z = DentryOf(z.parent, z.subs) /\ z.parent \in {0} \cup Id /\ IsSubs(z.subs)
  BY FormedIs
<1>3. /\ z.subs = [j \in Subs |-> z.subs[j]]
      /\ \A j \in Subs : /\ z.subs[j].id \in {0} \cup Id
                         /\ z.subs[j].id # 0 => z.subs[j].name \in STRING
      /\ \A j \in Subs : z.subs[j].id = 0 => z.subs[j] = NoEntry
      /\ \A j, l \in Subs : z.subs[j].name = z.subs[l].name /\ z.subs[j].id # 0 /\ z.subs[l].id # 0
                              => j = l
  BY <1>1 DEF IsSubs
<1>4. NoEntry.id = 0
  BY DEF NoEntry, Entry
<1>5. /\ s = [j \in Subs |-> s[j]]
      /\ \A j \in Subs : s[j] = IF j = k THEN NoEntry ELSE IF j = i THEN z.subs[k] ELSE z.subs[j]
  BY <1>0, <1>3, <1>4 DEF Moved
<1>6. Subs \subseteq Nat
  BY Limits
<1>7. \A j \in Subs : /\ s[j].id # 0 <=> j < k
                      /\ s[j].id = 0 => s[j] = NoEntry
  <2>1. ASSUME NEW j \in Subs, j < k
        PROVE  s[j].id # 0
    <3>0. j # k /\ j <= k /\ k <= k
      <4>1. j \in Nat /\ k \in Nat
        BY <1>0, <1>6
      <4> QED
        BY <2>1, <4>1
    <3>1. j # k /\ z.subs[j].id # 0 /\ z.subs[k].id # 0
      BY <1>0, <3>0
    <3> QED
      BY <1>5, <3>1
  <2>2. ASSUME NEW j \in Subs, ~(j < k)
        PROVE  s[j] = NoEntry
    <3>1. CASE j = k
      BY <1>0, <1>5, <3>1
    <3>2. CASE j # k
      <4>1. ~(j <= k) /\ j # i
        BY <1>0, <1>6, <2>2, <3>2
      <4> QED
        BY <1>0, <1>3, <1>5, <3>2, <4>1
    <3> QED
      BY <3>1, <3>2
  <2> QED
    BY <1>4, <2>1, <2>2
<1> DEFINE from(j) == IF j = i THEN k ELSE j
<1>8. ASSUME NEW j \in Subs, j < k
      PROVE  from(j) \in Subs /\ s[j] = z.subs[from(j)] /\ z.subs[from(j)].id # 0 /\ from(j) # i
  BY <1>0, <1>5, <1>6, <1>8
<1>9. \A j, l \in Subs : j < k /\ l < k /\ from(j) = from(l) => j = l
  BY <1>0, <1>6
<1>10. IsSubs(s)
  <2>0. \A j, l \in Subs : j <= l /\ l < k => j < k
    BY <1>0, <1>6
  <2>1. \A j, l \in Subs : j <= l /\ s[l].id # 0 => s[j].id # 0
    BY <1>7, <2>0
  <2>2. ASSUME NEW j \in Subs, NEW l \in Subs, s[j].name = s[l].name, s[j].id # 0, s[l].id # 0
        PROVE  j = l
    <3>1. j < k /\ l < k
      BY <1>7, <2>2
    <3>2. /\ from(j) \in Subs /\ s[j] = z.subs[from(j)] /\ z.subs[from(j)].id # 0
          /\ from(l) \in Subs /\ s[l] = z.subs[from(l)] /\ z.subs[from(l)].id # 0
      BY <1>8, <3>1
    <3> HIDE DEF from
    <3>3. from(j) = from(l)
      BY <1>3, <2>2, <3>2
    <3> QED
      BY <1>9, <3>1, <3>3
  <2>3. \A j \in Subs : s[j].id \in {0} \cup Id /\ (s[j].id # 0 => s[j].name \in STRING)
    BY <1>0, <1>3, <1>4, <1>5
  <2> QED
    BY <1>5, <1>7, <2>1, <2>2, <2>3 DEF IsSubs
<1>11. y.type = "dentry" /\ y.parent = z.parent /\ y.subs = s
  BY DEF DentryOf
<1>12. Formed(y)
  BY <1>1, <1>10 DEF Formed
<1>13. /\ \A j, c : Pt(y, j, c) <=> j \in Subs /\ s[j].id = c /\ c # 0
       /\ \A j, c : Pt(z, j, c) <=> j \in Subs /\ z.subs[j].id = c /\ c # 0
  <2>1. \A j, c : Pt(y, j, c) <=> j \in Subs /\ y.subs[j].id = c /\ c # 0
    BY <1>11, <1>12, Points
  <2>2. \A j, c : Pt(z, j, c) <=> j \in Subs /\ z.subs[j].id = c /\ c # 0
    BY Points
  <2> QED
    BY <1>11, <2>1, <2>2
<1>14. ASSUME NEW j, NEW c, Pt(y, j, c)
       PROVE  j \in Subs /\ j < k /\ c # x /\ Pt(z, from(j), c)
  <2>1. j \in Subs /\ s[j].id = c /\ c # 0 /\ j < k
    BY <1>7, <1>13, <1>14
  <2>2. from(j) \in Subs /\ s[j] = z.subs[from(j)] /\ from(j) # i
    BY <1>8, <2>1
  <2> HIDE DEF from
  <2>3. Pt(z, from(j), c) /\ Pt(z, i, x)
    BY <1>13, <2>1, <2>2
  <2>4. c # x
    BY <2>2, <2>3
  <2> QED
    BY <2>1, <2>3, <2>4
<1>15. ASSUME NEW l, NEW c, Pt(z, l, c), c # x
       PROVE  \E j : Pt(y, j, c)
  <2>1. l \in Subs /\ z.subs[l].id = c /\ c # 0 /\ l # i /\ l <= k
    BY <1>0, <1>13, <1>15
  <2>2. CASE l = k
    <3>1. i # k /\ s[i] = z.subs[k]
      BY <1>0, <1>5, <2>1, <2>2
    <3>2. s[i].id = c /\ c # 0
      BY <2>1, <2>2, <3>1
    <3>3. Pt(y, i, c)
      BY <1>13, <3>2
    <3> QED
      BY <3>3
  <2>3. CASE l # k
    <3>1. l \in Subs /\ s[l].id = c /\ c # 0
      BY <1>5, <2>1, <2>3
    <3> QED
      BY <1>13, <3>1
  <2> QED
    BY <2>2, <2>3
<1>16. ASSUME NEW j, NEW l, NEW c, Pt(y, j, c), Pt(y, l, c)
       PROVE  j = l
  <2>1. /\ j \in Subs /\ j < k /\ Pt(z, from(j), c)
        /\ l \in Subs /\ l < k /\ Pt(z, from(l), c)
    BY <1>14, <1>16
  <2>2. from(j) = from(l)
    <3> HIDE DEF from
    <3> QED
      BY <2>1
  <2> QED
    BY <1>9, <2>1, <2>2
<1>17. y.subs[k].id = 0
  BY <1>0, <1>4, <1>5, <1>11
<1>18. \A n, c : Ent(y, n, c) <=> Ent(z, n, c) /\ c # x
  <2>1. ASSUME NEW n, NEW c, Ent(y, n, c)
        PROVE  Ent(z, n, c) /\ c # x
    <3>1. PICK j \in Subs : s[j].id = c /\ s[j].name = n /\ c # 0
      BY <1>11, <2>1 DEF Ent
    <3>2. Pt(y, j, c)
      BY <1>13, <3>1
    <3>3. j < k /\ c # x
      BY <1>14, <3>2
    <3>4. from(j) \in Subs /\ s[j] = z.subs[from(j)]
      BY <1>8, <3>3
    <3> HIDE DEF from
    <3> QED
      BY <3>1, <3>3, <3>4 DEF Ent
  <2>2. ASSUME NEW n, NEW c, Ent(z, n, c), c # x
        PROVE  Ent(y, n, c)
    <3>1. PICK l \in Subs : z.subs[l].id = c /\ z.subs[l].name = n /\ c # 0
      BY <2>2 DEF Ent
    <3>2. l # i /\ l <= k
      BY <1>0, <2>2, <3>1
    <3>3. CASE l = k
      <4>1. i # k /\ s[i] = z.subs[k]
        BY <1>0, <1>5, <3>2, <3>3
      <4> QED
        BY <1>11, <3>1, <3>3, <4>1 DEF Ent
    <3>4. CASE l # k
      <4>1. s[l] = z.subs[l]
        BY <1>5, <3>2, <3>4
      <4> QED
        BY <1>11, <3>1, <4>1 DEF Ent
    <3> QED
      BY <3>3, <3>4
  <2> QED
    BY <2>1, <2>2
<1> QED
  BY <1>0, <1>11, <1>12, <1>14, <1>15, <1>16, <1>17, <1>18 DEF Without

-----------------------------------------------------------------------------
(* A node is made.                                                          *)

\* n is memory m after a write that makes the disk e.
Written(m, id, z, e, n) ==
  /\ id \in Id /\ e = [m.zone EXCEPT ![id] = z]
  /\ n = write_zone(m, id, z) /\ n.zone = e /\ Store(e)

\* In e directory h has one entry more than in d, for the new zone.
Added(d, e, U, h, name, new) ==
  /\ \A x \in U \ {h} : e[x] = d[x]
  /\ e[h].type = d[h].type
  /\ \A n, c : Ent(e[h], n, c) <=> Ent(d[h], n, c) \/ (n = name /\ c = new)
  /\ \A n, c : ~Ent(e[new], n, c)
  /\ e[new] = d[new] /\ e[new].type \in {"dentry", "inode"}

\* The step from m to n is one write, which adds it.
Entering(m, n, U, h, name, new) ==
  \E y, e, V, q : /\ Written(m, h, y, e, n) /\ Added(m.zone, e, U, h, name, new)
                  /\ V = U \cup {new} /\ Plan(e, V, q)

\* add_sub in a directory with an entry left: the tree grows by the zone new,
\* which was written before.
LEMMA AddSub ==
  ASSUME NEW d, NEW m, NEW U, NEW r, IsMemory(m), Logged(d, m),
         Plan(m.zone, U, r), Held(m.zone, U), NEW at, Here(m.zone, at),
         NEW h \in U, m.zone[h].type = "dentry", Room(m.zone[h]),
         NEW new \in Id \ U, m.zone[new].type \in {"dentry", "inode"}, m.zone[new].parent = h,
         \A i, x : ~Pt(m.zone[new], i, x),
         NEW name \in STRING, \A j \in Subs : m.zone[h].subs[j].name # name,
         Tally(m.st, m.zone, U \cup {new})
  PROVE  /\ Sound(d, add_sub(m, h, new, name), at)
         /\ Entering(m, add_sub(m, h, new, name), U, h, name, new)
<1>0. PICK z : z = m.zone[h]
  OBVIOUS
<1>1. Store(m.zone) /\ h \in Id /\ ~(h < Root) /\ Formed(z) /\ z.type = "dentry"
  BY <1>0, Limits DEF IsMemory, Plan, Store
<1>2. PICK i \in Subs : /\ i = IF Used(z) = {} THEN 1 ELSE LastUsed(z) + 1
                        /\ z.subs[Len(z.subs)].id = 0
                        /\ \A j \in Subs : z.subs[j].id # 0 <=> j < i
  BY <1>0, <1>1, NextSlot DEF Room
<1>5. PICK s, y : s = Entered(z.subs, i, Entry(new, name)) /\ y = DentryOf(z.parent, s)
  OBVIOUS
<1>3. add_sub(m, h, new, name) = write_zone(m, h, y)
  <2>1. End(m, h) = h
    BY <1>1, EndIs
  <2>2. [z EXCEPT !.subs[i] = Entry(new, name)] = y
    <3>1. [z EXCEPT !.subs = s] = y
      BY <1>1, <1>5, OtherSubs
    <3> QED
      BY <1>5, <3>1 DEF Entered
  <2> QED
    BY <1>0, <1>1, <1>2, <2>1, <2>2 DEF add_sub
<1>4. (\A j \in Subs : z.subs[j].name # name) /\ new \in Id
  BY <1>0
<1>6. /\ Formed(y) /\ y.type = "dentry" /\ y.parent = z.parent
      /\ \A j, x : Pt(y, j, x) <=> Pt(z, j, x) \/ (j = i /\ x = new)
      /\ \A x : ~Pt(z, i, x)
      /\ \A v, c : Ent(y, v, c) <=> Ent(z, v, c) \/ (v = name /\ c = new)
  <2>1. \A j \in Subs : z.subs[j].id # 0 <=> j < i
    BY <1>2
  <2> QED
    BY <1>1, <1>4, <1>5, <2>1, WithEntry
<1>7. PICK e : e = [m.zone EXCEPT ![h] = y]
  OBVIOUS
<1>8. Store(e) /\ \A x \in Id : e[x] = IF x = h THEN y ELSE m.zone[x]
  BY <1>1, <1>6, <1>7, StoreWrite
<1>9. U \subseteq Id /\ new # h /\ e[h] = y /\ m.zone[h] = z /\ e[new] = m.zone[new]
  BY <1>0, <1>1, <1>8 DEF Plan
<1>10. Linked(m.zone, e, U, h, i, new)
  <2>1. \A x \in U \ {h} : e[x] = m.zone[x]
    BY <1>8, <1>9
  <2> QED
    BY <1>1, <1>6, <1>9, <2>1 DEF Linked
<1>11. PICK V, r2 : V = U \cup {new} /\ Plan(e, V, r2) /\ Held(e, V)
  <2>1. \E r2 : Plan(e, U \cup {new}, r2) /\ Held(e, U \cup {new})
    BY <1>10, Adding
  <2> QED
    BY <2>1
<1>12. Here(e, at)
  BY <1>10, HereAdding, Zenon
<1> DEFINE n == write_zone(m, h, y)
<1>13. IsMemory(n) /\ Logged(d, n) /\ n.zone = e /\ n.st = m.st
  <2>1. Formed(y) /\ h \in Id
    BY <1>1, <1>6
  <2> QED
    BY <1>7, <1>11, <2>1, LogWrite
<1>14. Tally(m.st, e, V)
  <2>1. \A x \in Id : e[x].type = m.zone[x].type
    BY <1>0, <1>1, <1>6, <1>8
  <2> QED
    BY <1>11, <2>1 DEF Tally
<1> HIDE DEF n
<1>15. Whole(n.zone, n.st)
  BY <1>11, <1>13, <1>14 DEF Whole
<1>16. Sound(d, n, at)
  BY <1>12, <1>13, <1>15 DEF Sound
<1>17. Added(m.zone, e, U, h, name, new)
  <2>1. \A x \in U \ {h} : e[x] = m.zone[x]
    BY <1>8, <1>9
  <2>2. \A v, c : ~Ent(m.zone[new], v, c)
    BY DEF Ent, Pt
  <2> QED
    BY <1>1, <1>6, <1>9, <2>1, <2>2 DEF Added
<1>18. Written(m, h, y, e, n)
  <2>1. n = write_zone(m, h, y)
    BY DEF n
  <2> QED
    BY <1>1, <1>7, <1>8, <1>13, <2>1 DEF Written
<1>19. Entering(m, n, U, h, name, new)
  BY <1>11, <1>17, <1>18 DEF Entering
<1> QED
  BY <1>3, <1>16, <1>19 DEF n

\* A file or directory when it is new.
LEMMA NewZone ==
  ASSUME NEW h \in Id, NEW state \in {I_OCCUPIED, D_OCCUPIED},
         NEW z, z = IF state = I_OCCUPIED THEN Inode(h) ELSE Dentry(h)
  PROVE  /\ Formed(z) /\ z.parent = h /\ \A i, x : ~Pt(z, i, x)
         /\ z.type = IF state = I_OCCUPIED THEN "inode" ELSE "dentry"
<1>1. CASE state = I_OCCUPIED
  <2>1. z = InodeOf(h, 1, <<>>) /\ <<>> \in Seq(Id)
    BY <1>1 DEF Inode, InodeOf
  <2>2. Formed(z)
    BY <2>1 DEF Formed
  <2>3. z.type = "inode" /\ z.parent = h /\ z.ptrs = <<>> /\ Len(<<>>) = 0
    BY <2>1 DEF InodeOf
  <2>4. \A i, x : ~Pt(z, i, x)
    BY <2>3 DEF Pt
  <2> QED
    BY <1>1, <2>2, <2>3, <2>4
<1>2. CASE state = D_OCCUPIED
  <2> DEFINE s == NoEntries(NUM_OF_DENTRY_SUBS)
  <2>1. s = [i \in Subs |-> NoEntry] /\ NoEntry.id = 0
    BY DEF NoEntries, Subs, NoEntry, Entry
  <2> HIDE DEF s
  <2>2. s = [i \in Subs |-> s[i]] /\ \A i \in Subs : s[i] = NoEntry /\ s[i].id = 0
    BY <2>1
  <2>3. IsSubs(s)
    BY <2>2 DEF IsSubs
  <2>4. state # I_OCCUPIED
    BY <1>2 DEF I_OCCUPIED, D_OCCUPIED
  <2>5. z = DentryOf(h, s)
    BY <2>4 DEF Dentry, DentryOf, s
  <2>6. Formed(z)
    BY <2>3, <2>5 DEF Formed
  <2>7. z.type = "dentry" /\ z.parent = h /\ z.subs = s
    BY <2>5 DEF DentryOf
  <2>8. \A i, x : ~Pt(z, i, x)
    BY <2>2, <2>7 DEF Pt
  <2> QED
    BY <2>4, <2>6, <2>7, <2>8
<1> QED
  BY <1>1, <1>2

\* mk_file and mk_dir, once they have a zone and a directory with an entry left.
LEMMA NewNode ==
  ASSUME NEW d, NEW m, NEW at, Sound(d, m, at), NEW U, NEW r,
         Plan(m.zone, U, r), Held(m.zone, U), Tally(m.st, m.zone, U),
         NEW h \in U, m.zone[h].type = "dentry", Room(m.zone[h]),
         NEW name \in STRING, \A j \in Subs : m.zone[h].subs[j].name # name,
         NEW id \in Id, m.st[id] = UNOCCUPIED,
         NEW state \in {I_OCCUPIED, D_OCCUPIED},
         NEW z, z = IF state = I_OCCUPIED THEN Inode(h) ELSE Dentry(h)
  PROVE  LET n == write_zone(Taken(m, id, state), id, z) IN
         /\ Sound(d, add_sub(n, h, id, name), at)
         /\ Entering(n, add_sub(n, h, id, name), U, h, name, id)
         /\ Formed(z) /\ id \notin U
<1>1. IsMemory(m) /\ Logged(d, m) /\ Here(m.zone, at) /\ Store(m.zone)
  BY DEF Sound, IsMemory
<1>2. id \notin U /\ h \in Id /\ h # id
  <2>1. \A x \in U : x \in Id /\ m.zone[x].type \in {"dentry", "inode", "data"}
    BY DEF Plan
  <2>2. \A x \in U : m.st[x] # UNOCCUPIED
    BY <2>1 DEF Tally, UNOCCUPIED, D_OCCUPIED, I_OCCUPIED, F_OCCUPIED
  <2> QED
    BY <2>1, <2>2
<1>3. /\ Formed(z) /\ z.parent = h /\ \A i, x : ~Pt(z, i, x)
      /\ z.type = IF state = I_OCCUPIED THEN "inode" ELSE "dentry"
  BY <1>2, NewZone
<1>4. PICK t : t = Taken(m, id, state)
  OBVIOUS
<1>5. /\ IsMemory(t) /\ Logged(d, t) /\ t.zone = m.zone
      /\ \A x \in Id : t.st[x] = IF x = id THEN state ELSE m.st[x]
  <2>1. state \in UNOCCUPIED .. I_OCCUPIED
    BY DEF UNOCCUPIED, I_OCCUPIED, D_OCCUPIED
  <2> QED
    BY <1>1, <1>4, <2>1, TakenFields
<1>6. PICK e : e = [t.zone EXCEPT ![id] = z]
  OBVIOUS
<1>7. Store(e) /\ \A x \in Id : e[x] = IF x = id THEN z ELSE m.zone[x]
  BY <1>1, <1>3, <1>5, <1>6, StoreWrite
<1>8. \A x \in U : x \in Id /\ e[x] = m.zone[x]
  BY <1>2, <1>7 DEF Plan
<1>9. Plan(e, U, r) /\ Held(e, U) /\ Here(e, at)
  BY <1>1, <1>8, Outside, HereOutside
<1>10. PICK n : n = write_zone(t, id, z)
  OBVIOUS
<1>11. IsMemory(n) /\ Logged(d, n) /\ n.zone = e /\ n.st = t.st
  <2>1. IsMemory(t) /\ Logged(d, t) /\ Formed(z) /\ Plan(e, U, r)
    BY <1>3, <1>5, <1>9
  <2> QED
    BY <1>6, <1>10, <2>1, LogWrite
<1>12. Tally(n.st, n.zone, U \cup {id})
  <2>1. ASSUME NEW x \in Id
        PROVE  /\ x \notin U \cup {id} => n.st[x] = UNOCCUPIED
               /\ x \in U \cup {id} /\ e[x].type = "dentry" => n.st[x] = D_OCCUPIED
               /\ x \in U \cup {id} /\ e[x].type = "inode" => n.st[x] = I_OCCUPIED
               /\ x \in U \cup {id} /\ e[x].type = "data" => n.st[x] = F_OCCUPIED
    <3>1. CASE x = id
      <4>1. n.st[x] = state /\ e[x].type = IF state = I_OCCUPIED THEN "inode" ELSE "dentry"
        BY <1>3, <1>5, <1>7, <1>11, <3>1
      <4> QED
        BY <3>1, <4>1
    <3>2. CASE x # id
      <4>1. n.st[x] = m.st[x] /\ e[x] = m.zone[x] /\ (x \in U \cup {id} <=> x \in U)
        BY <1>5, <1>7, <1>11, <3>2
      <4> QED
        BY <4>1 DEF Tally
    <3> QED
      BY <3>1, <3>2
  <2> QED
    BY <1>11, <2>1 DEF Tally
<1>13. /\ n.zone[h] = m.zone[h] /\ n.zone[id] = z
  BY <1>7, <1>8, <1>11
<1>14. n.zone[h].type = "dentry" /\ Room(n.zone[h])
  BY <1>13
<1>15. n.zone[id].type \in {"dentry", "inode"} /\ n.zone[id].parent = h
       /\ \A i, x : ~Pt(n.zone[id], i, x)
  BY <1>3, <1>13
<1>16. \A j \in Subs : n.zone[h].subs[j].name # name
  BY <1>13
<1>17. Plan(n.zone, U, r) /\ Held(n.zone, U) /\ Here(n.zone, at)
  BY <1>9, <1>11
<1>18. id \in Id \ U
  BY <1>2
<1>19. Sound(d, add_sub(n, h, id, name), at) /\ Entering(n, add_sub(n, h, id, name), U, h, name, id)
  BY <1>11, <1>12, <1>14, <1>15, <1>16, <1>17, <1>18, AddSub
<1> QED
  BY <1>2, <1>3, <1>4, <1>10, <1>19

-----------------------------------------------------------------------------
(* Paths.                                                                   *)

\* The recursion of get_path is well founded.
LEMMA TrailIs ==
  ASSUME NEW m, NEW p, Len(p.comps) \in Nat
  PROVE  \E f : /\ Trail(m, p, f)
                /\ get_path(m, p).at = f[Len(p.comps)].at
                /\ get_path(m, p).left = LeftOf(p, f[Len(p.comps)].cut)
<1> DEFINE n == Len(p.comps)
           first == [at |-> IF p.abs THEN <<Root>> ELSE pwd, cut |-> 0]
           Step(a, i) == PathStep(m, a, p.comps[i], i < n, i)
           Rec(f, k) == f = [i \in 0 .. k |-> IF i = 0 THEN first ELSE Step(f[i - 1], i)]
           Has == {k \in Nat : \E f : Rec(f, k)}
<1>1. 0 \in Has
  <2> DEFINE f == [i \in 0 .. 0 |-> first]
  <2>1. Rec(f, 0)
    OBVIOUS
  <2> QED
    BY <2>1
<1>2. ASSUME NEW k \in Nat, k \in Has
      PROVE  k + 1 \in Has
  <2> HIDE DEF first, Step
  <2>1. PICK f : Rec(f, k)
    BY <1>2
  <2> DEFINE g == [i \in 0 .. k + 1 |-> IF i <= k THEN f[i] ELSE Step(f[k], k + 1)]
  <2>2. ASSUME NEW i \in 0 .. k + 1
        PROVE  g[i] = IF i = 0 THEN first ELSE Step(g[i - 1], i)
    <3>1. CASE i = 0
      BY <2>1, <3>1
    <3>2. CASE i \in 1 .. k
      BY <2>1, <3>2
    <3>3. CASE i = k + 1
      BY <2>1, <3>3
    <3> QED
      BY <3>1, <3>2, <3>3
  <2>3. Rec(g, k + 1)
    <3> HIDE DEF g
    <3>1. g = [i \in 0 .. k + 1 |-> g[i]]
      BY DEF g
    <3> QED
      BY <2>2, <3>1
  <2>4. \E h : Rec(h, k + 1)
    <3> HIDE DEF g
    <3> QED
      BY <2>3
  <2> QED
    BY <2>4
<1>3. n \in Has
  <2> HIDE DEF Has
  <2> QED
    BY <1>1, <1>2, Induct
<1> DEFINE f == CHOOSE f : f = [i \in 0 .. n |->
                  IF i = 0 THEN first ELSE PathStep(m, f[i - 1], p.comps[i], i < n, i)]
<1>4. f = [i \in 0 .. n |->
             IF i = 0 THEN first ELSE PathStep(m, f[i - 1], p.comps[i], i < n, i)]
  <2>1. PICK h : Rec(h, n)
    BY <1>3
  <2> HIDE DEF first
  <2> QED
    BY <2>1
<1>5. get_path(m, p) = [at |-> f[n].at, left |-> LeftOf(p, f[n].cut)]
  BY DEF get_path, LeftOf
<1> HIDE DEF f
<1>6. Trail(m, p, f)
  BY <1>4 DEF Trail
<1>7. get_path(m, p).at = f[n].at /\ get_path(m, p).left = LeftOf(p, f[n].cut)
  BY <1>5
<1> QED
  BY <1>6, <1>7

\* One name: the directory must have an entry of that name, which then leads on.
LEMMA StepTo ==
  ASSUME NEW m, NEW U, NEW r, Store(m.zone), Plan(m.zone, U, r), Tally(m.st, m.zone, U),
         NEW at, Way(m.zone, at), NEW cut, NEW comp, comp \notin {".", ".."}, comp # NoEntry.name,
         NEW more, NEW pos, NEW acc, acc = [at |-> at, cut |-> cut],
         NEW b, b = PathStep(m, acc, comp, more, pos)
  PROVE  Stepped(m, at, cut, comp, more, b)
<1>0. PICK top, z : top = Last(at) /\ z = m.zone[top]
  OBVIOUS
<1>1. at # NONE /\ top \in U /\ top \in Id /\ ~(top < Root)
  <2>1. at \in Seq(Id) /\ at \in Seq(Int)
    <3>1. at \in Seq(Id)
      BY DEF Way
    <3> QED
      BY <3>1, Limits
  <2>2. top \in U
    BY <1>0, WayIn
  <2> QED
    BY <2>1, <2>2, RequestAssumption, Limits DEF Plan
<1>2. acc.at = at /\ acc.cut = cut
  OBVIOUS
<1>3. CASE get_state(m.st, top) # D_OCCUPIED
  <2>1. b = [acc EXCEPT !.at = NONE]
    BY <1>0, <1>1, <1>2, <1>3 DEF PathStep
  <2>2. b = [at |-> NONE, cut |-> cut]
    BY <2>1
  <2> QED
    BY <1>0, <1>3, <2>2 DEF Stepped
<1>4. CASE get_state(m.st, top) = D_OCCUPIED
  <2>1. z.type = "dentry" /\ Formed(z)
    <3>1. m.st[top] = D_OCCUPIED
      BY <1>1, <1>4 DEF get_state
    <3>2. z.type \in {"dentry", "inode", "data"}
      BY <1>0, <1>1 DEF Plan
    <3> QED
      BY <1>0, <1>1, <3>1, <3>2 DEF Tally, Store, D_OCCUPIED, I_OCCUPIED, F_OCCUPIED
  <2>2. Here(m.zone, at)
    BY <1>0, <2>1 DEF Here
  <2>3. PICK id : id = get_sub_path(m, top, comp)
    OBVIOUS
  <2>4. b = [at |-> IF id = NONE THEN NONE ELSE Append(at, id),
             cut |-> IF cut = 0 /\ more THEN pos ELSE cut]
    BY <1>0, <1>1, <1>2, <1>4, <2>3 DEF PathStep
  <2>5. PICK hits : hits = {i \in Subs : z.subs[i].name = comp}
    OBVIOUS
  <2>6. id = IF hits = {} THEN NONE
             ELSE z.subs[CHOOSE i \in hits : \A j \in hits : i <= j].id
    BY SMTT(30), <1>0, <2>3, <2>5 DEF get_sub_path, Subs
  <2>7. b.at = (IF id = NONE THEN NONE ELSE Append(at, id)) /\ b = [at |-> b.at, cut |-> b.cut]
        /\ (~more => b.cut = cut)
    <3>1. PICK a, c : /\ a = IF id = NONE THEN NONE ELSE Append(at, id)
                      /\ c = IF cut = 0 /\ more THEN pos ELSE cut
      OBVIOUS
    <3>2. b = [at |-> a, cut |-> c]
      BY <2>4, <3>1
    <3>3. b.at = a /\ b.cut = c
      BY <3>2
    <3>4. ~more => c = cut
      BY <3>1
    <3> QED
      BY <3>1, <3>2, <3>3, <3>4
  <2>8. CASE hits = {}
    <3>1. \A i \in Subs : z.subs[i].name # comp
      BY <2>5, <2>8
    <3>2. b.at = NONE
      BY <2>6, <2>7, <2>8
    <3> QED
      BY <1>0, <2>7, <3>1, <3>2 DEF Stepped
  <2>9. CASE hits # {}
    <3>1. PICK k : k = CHOOSE i \in hits : \A j \in hits : i <= j
      OBVIOUS
    <3>2. k \in hits
      <4>1. hits \subseteq Nat
        BY <2>5, Limits
      <4>2. \E i \in hits : \A j \in hits : i <= j
        BY <2>9, <4>1, LeastNat
      <4> QED
        BY <3>1, <4>2
    <3>3. id = z.subs[k].id
      BY <2>6, <2>9, <3>1
    <3>4. k \in Subs /\ z.subs[k].name = comp
      BY <2>5, <3>2
    <3>5. id \in Id
      <4>1. IsSubs(z.subs)
        BY <2>1, FormedIs
      <4>2. id \in {0} \cup Id /\ (id = 0 => z.subs[k] = NoEntry)
        BY <3>3, <3>4, <4>1 DEF IsSubs
      <4> QED
        BY <3>4, <4>2
    <3>6. id # NONE /\ id \in Int
      BY <3>5, Limits, RequestAssumption
    <3>7. b.at = Append(at, id)
      BY <2>7, <3>6
    <3>8. Named(m.zone, at, comp, b.at)
      BY <1>0, <2>2, <3>3, <3>4, <3>5, <3>7 DEF Named
    <3>9. b.at # NONE
      <4>1. at \in Seq(Id)
        BY DEF Way
      <4>2. Append(at, id) \in Seq(Id)
        BY <3>5, <4>1
      <4>3. Append(at, id) \in Seq(Int)
        BY <4>2, Limits
      <4> QED
        BY <3>7, <4>3, RequestAssumption
    <3> QED
      BY <2>7, <3>8, <3>9 DEF Stepped
  <2> QED
    BY <2>8, <2>9
<1> QED
  BY <1>3, <1>4

\* What paths are made of.
LEMMA PathIs ==
  ASSUME NEW p \in Path
  PROVE  /\ p = [abs |-> p.abs, comps |-> p.comps]
         /\ IsSeq(p.comps) /\ Len(p.comps) \in Nat
         /\ \A i \in 1 .. Len(p.comps) : p.comps[i] # NoEntry.name /\ p.comps[i] \in STRING
<1>1. p \in [abs : BOOLEAN, comps : Seq(STRING \ {NoEntry.name})]
  BY RequestAssumption
<1>2. p = [abs |-> p.abs, comps |-> p.comps] /\ p.comps \in Seq(STRING \ {NoEntry.name})
  BY <1>1
<1>3. Len(p.comps) \in Nat /\ \A i \in 1 .. Len(p.comps) : p.comps[i] \in STRING \ {NoEntry.name}
  BY <1>2
<1> QED
  BY <1>2, <1>3 DEF IsSeq

\* "." and "..", for which no zone is read.
LEMMA StepDot ==
  ASSUME NEW m, NEW at, NEW cut, NEW acc, acc = [at |-> at, cut |-> cut],
         NEW comp, comp \in {".", ".."} \/ at = NONE, NEW more, NEW pos
  PROVE  PathStep(m, acc, comp, more, pos) = [at |-> DotAt(at, comp), cut |-> cut]
<1>1. acc.at = at /\ acc.cut = cut
  OBVIOUS
<1>2. CASE at = NONE \/ comp = "."
  BY <1>1, <1>2 DEF PathStep, DotAt
<1>3. CASE ~(at = NONE \/ comp = ".")
  <2>1. comp = ".."
    BY <1>3
  <2>2. PathStep(m, acc, comp, more, pos) =
          [acc EXCEPT !.at = IF Len(at) = 1 THEN NONE ELSE Front(at)]
    BY <1>1, <1>3, <2>1 DEF PathStep
  <2>3. DotAt(at, comp) = IF Len(at) = 1 THEN NONE ELSE Front(at)
    BY <1>3 DEF DotAt
  <2> QED
    BY <2>2, <2>3
<1> QED
  BY <1>2, <1>3

\* They lead to a directory from a directory.
LEMMA DotHere ==
  ASSUME NEW d, NEW at, NEW comp, at = NONE \/ Way(d, at)
  PROVE  /\ DotAt(at, comp) = NONE \/ Way(d, DotAt(at, comp))
         /\ at # NONE /\ Here(d, at) => DotAt(at, comp) = NONE \/ Here(d, DotAt(at, comp))
<1>1. CASE at = NONE \/ comp = "." \/ Len(at) = 1
  BY <1>1 DEF DotAt
<1>2. CASE ~(at = NONE \/ comp = "." \/ Len(at) = 1)
  <2>1. DotAt(at, comp) = Front(at)
    BY <1>2 DEF DotAt
  <2>2. Here(d, Front(at))
    BY <1>2, WayFront
  <2> QED
    BY <2>1, <2>2 DEF Here
<1> QED
  BY <1>1, <1>2

\* Where the first step of a path starts.
LEMMA TrailStart ==
  ASSUME NEW d, NEW U, NEW r, Plan(d, U, r), Here(d, pwd),
         NEW m, NEW p, NEW f, Trail(m, p, f), Len(p.comps) \in Nat
  PROVE  /\ f[0] = [at |-> f[0].at, cut |-> 0] /\ Here(d, f[0].at)
         /\ f[0].at = IF p.abs THEN <<Root>> ELSE pwd
<1>1. f[0] = [at |-> IF p.abs THEN <<Root>> ELSE pwd, cut |-> 0]
  BY DEF Trail
<1>2. f[0].at = (IF p.abs THEN <<Root>> ELSE pwd) /\ f[0] = [at |-> f[0].at, cut |-> 0]
  BY <1>1
<1>3. Here(d, <<Root>>)
  <2>1. d[Root].type = "dentry"
    BY DEF Plan
  <2>2. <<Root>> \in Seq(Id) /\ Len(<<Root>>) = 1 /\ <<Root>>[1] = Root
    BY Limits
  <2>3. Last(<<Root>>) = Root
    BY <2>2 DEF Last
  <2> QED
    BY <2>1, <2>2, <2>3 DEF Here, Way
<1> QED
  BY <1>2, <1>3

\* A path leads along entries of directories.
LEMMA PathLeads ==
  ASSUME NEW m, NEW U, NEW r, Store(m.zone), Plan(m.zone, U, r), Tally(m.st, m.zone, U),
         Here(m.zone, pwd), NEW p \in Path
  PROVE  get_path(m, p).at = NONE \/ Way(m.zone, get_path(m, p).at)
<1>1. Len(p.comps) \in Nat /\ \A i \in 1 .. Len(p.comps) : p.comps[i] # NoEntry.name
  BY PathIs
<1>2. PICK f : Trail(m, p, f) /\ get_path(m, p).at = f[Len(p.comps)].at
  BY <1>1, TrailIs
<1> DEFINE Leading(a) == a = [at |-> a.at, cut |-> a.cut] /\ (a.at = NONE \/ Way(m.zone, a.at))
           S == {i \in Nat : Leading(f[i])}
<1>3. f[0] = [at |-> f[0].at, cut |-> 0] /\ Here(m.zone, f[0].at)
  BY <1>1, <1>2, TrailStart
<1>4. Leading(f[0])
  <2>1. f[0].cut = 0
    BY <1>3
  <2> QED
    BY <1>3, <2>1 DEF Here
<1>5. ASSUME NEW i \in 0 .. Len(p.comps) - 1, Leading(f[i])
      PROVE  Leading(f[i + 1])
  <2>1. PICK a, b, comp, more : /\ a = f[i] /\ b = f[i + 1] /\ comp = p.comps[i + 1]
                                /\ more = (i + 1 < Len(p.comps))
    OBVIOUS
  <2>2. b = PathStep(m, a, comp, more, i + 1)
    <3>1. i + 1 \in 0 .. Len(p.comps) /\ i + 1 # 0 /\ (i + 1) - 1 = i
      BY <1>1
    <3>2. f[i + 1] = PathStep(m, f[(i + 1) - 1], p.comps[i + 1], i + 1 < Len(p.comps), i + 1)
      BY <1>2, <3>1 DEF Trail
    <3>3. f[i + 1] = PathStep(m, f[i], p.comps[i + 1], i + 1 < Len(p.comps), i + 1)
      BY <3>1, <3>2
    <3> QED
      BY <2>1, <3>3, Zenon
  <2>3. PICK at, cut : at = a.at /\ cut = a.cut /\ a = [at |-> at, cut |-> cut]
    BY <1>5, <2>1
  <2>4. at = NONE \/ Way(m.zone, at)
    BY <1>5, <2>1, <2>3
  <2>5. CASE comp \in {".", ".."} \/ at = NONE
    <3>1. b = [at |-> DotAt(at, comp), cut |-> cut]
      BY <2>2, <2>3, <2>5, StepDot
    <3>2. b.at = DotAt(at, comp) /\ b.cut = cut
      BY <3>1
    <3>3. DotAt(at, comp) = NONE \/ Way(m.zone, DotAt(at, comp))
      BY <2>4, DotHere
    <3> QED
      BY <2>1, <3>1, <3>2, <3>3
  <2>6. CASE ~(comp \in {".", ".."} \/ at = NONE)
    <3>1. comp # NoEntry.name
      BY <1>1, <2>1
    <3>2. b = [at |-> b.at, cut |-> b.cut] /\ (b.at = NONE \/ Named(m.zone, at, comp, b.at))
      <4>1. Way(m.zone, at) /\ comp \notin {".", ".."} /\ a = [at |-> at, cut |-> cut]
        BY <2>3, <2>4, <2>6
      <4>2. Stepped(m, at, cut, comp, more, b)
        BY <2>2, <3>1, <4>1, StepTo
      <4> QED
        BY <4>2 DEF Stepped
    <3>3. Named(m.zone, at, comp, b.at) => Way(m.zone, b.at)
      <4>1. SUFFICES ASSUME Named(m.zone, at, comp, b.at)
                     PROVE  Way(m.zone, b.at)
        OBVIOUS
      <4>2. PICK c, k : /\ Here(m.zone, at) /\ k \in Subs /\ m.zone[Last(at)].subs[k].id = c
                        /\ c \in Id /\ b.at = Append(at, c)
        BY <4>1 DEF Named
      <4>3. Pt(m.zone[Last(at)], k, c)
        BY <4>2, Limits DEF Pt, Here
      <4>4. Way(m.zone, Append(at, c))
        <5>1. Here(m.zone, at) /\ c \in Id /\ Pt(m.zone[Last(at)], k, c)
          BY <4>2, <4>3
        <5> QED
          BY <5>1, WayFurther
      <4> QED
        BY <4>2, <4>4
    <3> QED
      BY <2>1, <3>2, <3>3
  <2> QED
    BY <2>5, <2>6
<1>6. 0 .. Len(p.comps) \subseteq S
  <2>1. 0 \in S
    BY <1>4
  <2>2. \A i \in 0 .. Len(p.comps) - 1 : i \in S => i + 1 \in S
    BY <1>1, <1>5
  <2> HIDE DEF S
  <2> QED
    BY <1>1, <2>1, <2>2, InductTo
<1>7. Leading(f[Len(p.comps)])
  <2>1. Len(p.comps) \in 0 .. Len(p.comps)
    BY <1>1
  <2>2. Len(p.comps) \in S
    <3> HIDE DEF S
    <3> QED
      BY <1>6, <2>1
  <2> QED
    BY <2>2
<1> QED
  BY <1>2, <1>7

\* The directory of a path.
LEMMA DirIs ==
  ASSUME NEW p \in Path, p.comps # <<>>
  PROVE  /\ DirOf(p).abs = p.abs /\ DirOf(p) = [abs |-> p.abs, comps |-> Front(p.comps)]
         /\ Len(p.comps) \in Nat \ {0}
         /\ Len(DirOf(p).comps) = Len(p.comps) - 1
         /\ \A i \in 1 .. Len(p.comps) - 1 : DirOf(p).comps[i] = p.comps[i]
<1>1. p = [abs |-> p.abs, comps |-> p.comps] /\ IsSeq(p.comps)
  BY PathIs
<1>2. PICK c, S : c = p.comps /\ c \in Seq(S)
  BY <1>1 DEF IsSeq
<1>3. Len(c) \in Nat /\ Len(c) # 0
  <2>1. c # <<>>
    BY <1>2
  <2> QED
    BY <1>2, <2>1
<1>4. DirOf(p) = [abs |-> p.abs, comps |-> Front(c)]
  BY <1>1, <1>2 DEF DirOf
<1>5. DirOf(p).abs = p.abs /\ DirOf(p).comps = Front(c)
  BY <1>4
<1>6. Front(c) = SubSeq(c, 1, Len(c) - 1)
  BY DEF Front
<1>7. Len(SubSeq(c, 1, Len(c) - 1)) = Len(c) - 1
  BY <1>2, <1>3
<1>8. \A i \in 1 .. Len(c) - 1 : SubSeq(c, 1, Len(c) - 1)[i] = c[i]
  BY <1>2, <1>3
<1> QED
  BY <1>2, <1>3, <1>4, <1>5, <1>6, <1>7, <1>8

\* Up to its last component a path goes the same way as that of its directory,
\* on any memory.
LEMMA DotTrails ==
  ASSUME NEW d, NEW U, NEW r, Plan(d, U, r), Here(d, pwd),
         NEW p \in Path, Dotted(p), NEW m, NEW m2, NEW f, NEW g,
         Trail(m, p, f), Trail(m2, DirOf(p), g)
  PROVE  \A i \in 0 .. Len(p.comps) - 1 :
           /\ f[i] = g[i] /\ f[i] = [at |-> f[i].at, cut |-> 0]
           /\ f[i].at = NONE \/ Here(d, f[i].at)
<1>1. /\ Len(p.comps) \in Nat \ {0} /\ Len(p.comps) \in Nat /\ Len(DirOf(p).comps) \in Nat
      /\ DirOf(p).abs = p.abs /\ Len(DirOf(p).comps) = Len(p.comps) - 1
      /\ \A i \in 1 .. Len(p.comps) - 1 : DirOf(p).comps[i] = p.comps[i]
  BY DirIs DEF Dotted
<1> DEFINE Same(i) == /\ f[i] = g[i] /\ f[i] = [at |-> f[i].at, cut |-> 0]
                      /\ f[i].at = NONE \/ Here(d, f[i].at)
           S == {i \in Nat : Same(i)}
<1>2. Same(0)
  <2>1. f[0] = [at |-> f[0].at, cut |-> 0] /\ Here(d, f[0].at)
    BY <1>1, TrailStart
  <2>2. f[0] = [at |-> IF p.abs THEN <<Root>> ELSE pwd, cut |-> 0]
    BY <1>1 DEF Trail
  <2>3. g[0] = [at |-> IF DirOf(p).abs THEN <<Root>> ELSE pwd, cut |-> 0]
    BY <1>1 DEF Trail
  <2> QED
    BY <1>1, <2>1, <2>2, <2>3
<1>3. ASSUME NEW i \in 0 .. (Len(p.comps) - 1) - 1, Same(i)
      PROVE  Same(i + 1)
  <2>1. PICK at, cut, comp, a : /\ at = f[i].at /\ cut = 0 /\ comp = p.comps[i + 1]
                                /\ a = f[i] /\ a = [at |-> at, cut |-> cut]
    BY <1>3
  <2>2. /\ i + 1 \in 0 .. Len(p.comps) /\ i + 1 # 0 /\ (i + 1) - 1 = i
        /\ i + 1 \in 1 .. Len(p.comps) - 1 /\ i + 1 \in 0 .. Len(DirOf(p).comps)
    BY <1>1
  <2>3. comp \in {".", ".."} /\ DirOf(p).comps[i + 1] = comp
    BY <1>1, <2>1, <2>2 DEF Dotted
  <2>4. f[i + 1] = PathStep(m, f[(i + 1) - 1], p.comps[i + 1], i + 1 < Len(p.comps), i + 1)
    BY <2>2 DEF Trail
  <2>5. g[i + 1] = PathStep(m2, g[(i + 1) - 1], DirOf(p).comps[i + 1],
                            i + 1 < Len(DirOf(p).comps), i + 1)
    BY <2>2 DEF Trail
  <2>6. /\ f[i + 1] = PathStep(m, a, comp, i + 1 < Len(p.comps), i + 1)
        /\ g[i + 1] = PathStep(m2, a, comp, i + 1 < Len(DirOf(p).comps), i + 1)
    <3>1. f[(i + 1) - 1] = a /\ g[(i + 1) - 1] = a
      BY <1>3, <2>1, <2>2
    <3> QED
      BY <2>1, <2>3, <2>4, <2>5, <3>1, Zenon
  <2>7. f[i + 1] = [at |-> DotAt(at, comp), cut |-> cut]
    BY <2>1, <2>3, <2>6, StepDot
  <2>8. g[i + 1] = [at |-> DotAt(at, comp), cut |-> cut]
    BY <2>1, <2>3, <2>6, StepDot
  <2>9. at = NONE \/ Here(d, at)
    BY <1>3, <2>1
  <2>10. DotAt(at, comp) = NONE \/ Here(d, DotAt(at, comp))
    <3>1. CASE at = NONE
      BY <3>1 DEF DotAt
    <3>2. CASE at # NONE
      <4>1. Way(d, at) /\ Here(d, at)
        BY <2>9, <3>2 DEF Here
      <4> QED
        BY <3>2, <4>1, DotHere
    <3> QED
      BY <3>1, <3>2
  <2> QED
    BY <2>1, <2>7, <2>8, <2>10
<1>4. 0 .. Len(p.comps) - 1 \subseteq S
  <2>1. 0 \in S /\ Len(p.comps) - 1 \in Nat
    BY <1>1, <1>2
  <2>2. \A i \in 0 .. (Len(p.comps) - 1) - 1 : i \in S => i + 1 \in S
    BY <1>1, <1>3
  <2> HIDE DEF S
  <2> QED
    BY <2>1, <2>2, InductTo
<1> QED
  BY <1>4

\* What such a path leads to: a last step from its directory.
LEMMA DotPath ==
  ASSUME NEW d, NEW U, NEW r, Plan(d, U, r), Here(d, pwd),
         NEW p \in Path, Dotted(p), NEW m, NEW m2
  PROVE  LastStep(d, m, m2, p)
<1> DEFINE n == Len(p.comps)
<1>1. n \in Nat \ {0} /\ n \in Nat /\ Len(DirOf(p).comps) \in Nat /\ Len(DirOf(p).comps) = n - 1
  BY DirIs DEF Dotted
<1>2. PICK f : /\ Trail(m, p, f) /\ get_path(m, p).at = f[n].at
               /\ get_path(m, p).left = LeftOf(p, f[n].cut)
  BY <1>1, TrailIs
<1>3. PICK g : Trail(m2, DirOf(p), g) /\ get_path(m2, DirOf(p)).at = g[n - 1].at
  BY <1>1, TrailIs
<1>4. /\ f[n - 1] = g[n - 1] /\ f[n - 1] = [at |-> f[n - 1].at, cut |-> 0]
      /\ f[n - 1].at = NONE \/ Here(d, f[n - 1].at)
  <2>1. n - 1 \in 0 .. n - 1
    BY <1>1
  <2> QED
    BY <1>2, <1>3, <2>1, DotTrails
<1>5. f[n] = PathStep(m, f[n - 1], Last(p.comps), FALSE, n)
  <2>1. n \in 0 .. n /\ n # 0 /\ (n < n) = FALSE
    BY <1>1
  <2>2. f[n] = PathStep(m, f[n - 1], p.comps[n], n < n, n)
    BY <1>2, <2>1 DEF Trail
  <2>3. Last(p.comps) = p.comps[n]
    BY DEF Last
  <2> QED
    BY <2>1, <2>2, <2>3, Zenon
<1>6. PICK at, cut, acc, pos, b : /\ at = f[n - 1].at /\ cut = 0 /\ acc = f[n - 1] /\ pos = n
                                  /\ b = f[n]
  OBVIOUS
<1>7. /\ at = get_path(m2, DirOf(p)).at
      /\ at = NONE \/ Here(d, at)
  BY <1>3, <1>4, <1>6
<1>8. acc = [at |-> at, cut |-> cut]
  BY <1>4, <1>6
<1>9. b = PathStep(m, acc, Last(p.comps), FALSE, pos)
  BY <1>5, <1>6, Zenon
<1>10. get_path(m, p).at = b.at /\ get_path(m, p).left = LeftOf(p, b.cut)
  BY <1>2, <1>6
<1> QED
  BY <1>6, <1>7, <1>8, <1>9, <1>10, Zenon DEF LastStep

-----------------------------------------------------------------------------
(* The commands.                                                            *)

\* rm_name splits such a path into its directory and its last component.
LEMMA SplitIs ==
  ASSUME NEW p \in Path, Dotted(p)
  PROVE  rm_name(p).dir = DirOf(p) /\ rm_name(p).name = Last(p.comps)
<1>1. /\ Len(p.comps) \in Nat \ {0} /\ DirOf(p) = [abs |-> p.abs, comps |-> Front(p.comps)]
  BY DirIs DEF Dotted
<1>2. CASE Len(p.comps) > 1
  <2>1. rm_name(p) = [dir |-> [p EXCEPT !.comps = Front(p.comps)], name |-> Last(p.comps)]
    BY <1>2 DEF rm_name
  <2> QED
    BY <2>1 DEF DirOf
<1>3. CASE ~(Len(p.comps) > 1)
  <2>0. \A n \in Nat \ {0} : ~(n > 1) => n = 1
    OBVIOUS
  <2>1. Len(p.comps) = 1
    BY <1>1, <1>3, <2>0
  <2>2. ~p.abs /\ p.abs \in BOOLEAN
    <3>1. p \in [abs : BOOLEAN, comps : Seq(STRING \ {NoEntry.name})]
      BY RequestAssumption
    <3>2. p.abs \in BOOLEAN
      BY <3>1
    <3> QED
      BY <1>3, <3>2 DEF Dotted
  <2>3. rm_name(p) = [dir |-> [abs |-> FALSE, comps |-> <<>>], name |-> p.comps[1]]
    BY <1>3, <2>2, Zenon DEF rm_name
  <2>4. Front(p.comps) = <<>>
    <3>1. Front(p.comps) = SubSeq(p.comps, 1, 0)
      BY <2>1 DEF Front
    <3>2. SubSeq(p.comps, 1, 0) = <<>>
      BY PathIs DEF IsSeq
    <3> QED
      BY <3>1, <3>2
  <2>5. Last(p.comps) = p.comps[1]
    BY <2>1 DEF Last
  <2>6. DirOf(p) = [abs |-> FALSE, comps |-> <<>>]
    BY <1>1, <2>2, <2>4, Zenon
  <2>7. rm_name(p).dir = [abs |-> FALSE, comps |-> <<>>] /\ rm_name(p).name = p.comps[1]
    BY <2>3
  <2> QED
    BY <2>5, <2>6, <2>7
<1> QED
  BY <1>2, <1>3

\* A path that leads nowhere: what it leaves for the caller, and that its last
\* component is no name in its directory.
LEMMA NoSuchName ==
  ASSUME NEW m, NEW U, NEW r, Store(m.zone), Plan(m.zone, U, r), Tally(m.st, m.zone, U),
         Here(m.zone, pwd), NEW p \in Path, Dotted(p), Last(p.comps) \notin {".", ".."},
         get_path(m, p).at = NONE, NEW at, at = get_path(m, DirOf(p)).at
  PROVE  NoName(m, p, at)
<1>1. PICK cut, acc, pos, b, more :
        /\ at = NONE \/ Here(m.zone, at)
        /\ cut = 0 /\ acc = [at |-> at, cut |-> cut] /\ ~more
        /\ b = PathStep(m, acc, Last(p.comps), more, pos)
        /\ get_path(m, p).at = b.at /\ get_path(m, p).left = LeftOf(p, b.cut)
  <2>1. LastStep(m.zone, m, m, p)
    BY DotPath
  <2>2. PICK more : more = FALSE
    OBVIOUS
  <2> QED
    BY <2>1, <2>2, Zenon DEF LastStep
<1>2. PICK comp : comp = Last(p.comps) /\ comp # NoEntry.name
  <2>1. Len(p.comps) \in 1 .. Len(p.comps)
    BY DirIs DEF Dotted
  <2> QED
    BY <2>1, PathIs DEF Last
<1>3. CASE at = NONE
  <2>1. b = [at |-> DotAt(at, comp), cut |-> cut]
    BY <1>1, <1>2, <1>3, StepDot
  <2>2. b.cut = 0
    BY <1>1, <2>1
  <2> QED
    BY <1>1, <1>3, <2>2 DEF LeftOf, NoName
<1>4. CASE at # NONE
  <2>1. Way(m.zone, at) /\ comp \notin {".", ".."}
    BY <1>1, <1>2, <1>4 DEF Here
  <2>2. Stepped(m, at, cut, comp, more, b)
    BY <1>1, <1>2, <2>1, StepTo
  <2>3. b.cut = 0 /\ b.at = NONE
    BY <1>1, <2>2 DEF Stepped
  <2> QED
    BY <1>1, <1>2, <2>2, <2>3 DEF Stepped, LeftOf, NoName
<1> QED
  BY <1>3, <1>4

\* mk_file and mk_dir.
LEMMA MakeKeeps ==
  ASSUME NEW d, NEW m, Sound(d, m, pwd), NEW p \in Path, Creates(m, p),
         NEW state \in {I_OCCUPIED, D_OCCUPIED}, NEW res, res = make(m, p, state)
  PROVE  Sound(d, res.m, pwd) /\ (res.ans = "0" \/ (res.ans = "4" /\ res.m = m))
<1>1. Store(m.zone) /\ Here(m.zone, pwd)
  BY DEF Sound, IsMemory
<1>2. PICK U, r : Plan(m.zone, U, r) /\ Held(m.zone, U) /\ Tally(m.st, m.zone, U)
  BY DEF Sound, Whole
<1>3. \A n : Refused(n).m = n /\ Refused(n).ans = "4" /\ Done(n).m = n /\ Done(n).ans = "0"
  BY DEF Refused, Done
<1>4. CASE get_path(m, p).at # NONE
  <2>1. res = Refused(m)
    BY <1>4 DEF make
  <2> QED
    BY <1>3, <2>1
<1>5. CASE get_path(m, p).at = NONE
  <2>1. PICK at, name, id : /\ at = get_path(m, DirOf(p)).at /\ name = Last(p.comps)
                            /\ id = get_free_id(m)
    OBVIOUS
  <2>2. Dotted(p) /\ name \notin {".", ".."}
    BY <1>5, <2>1 DEF Creates
  <2>3. /\ get_path(m, p).left = p
        /\ at = NONE \/ Here(m.zone, at)
        /\ at # NONE /\ get_state(m.st, Last(at)) = D_OCCUPIED =>
             \A j \in Subs : m.zone[Last(at)].subs[j].name # name
    <3>1. NoName(m, p, at)
      BY <1>1, <1>2, <1>5, <2>1, <2>2, NoSuchName
    <3> QED
      BY <2>1, <3>1 DEF NoName
  <2>4. rm_name(get_path(m, p).left).dir = DirOf(p) /\ rm_name(get_path(m, p).left).name = name
    <3>1. rm_name(p).dir = DirOf(p) /\ rm_name(p).name = name
      BY <2>1, <2>2, SplitIs
    <3> QED
      BY <2>3, <3>1, Zenon
  <2>5. CASE at = NONE \/ get_state(m.st, Last(at)) # D_OCCUPIED \/ id < 0
    <3>1. res = Refused(m)
      BY <2>1, <2>4, <2>5 DEF make
    <3> QED
      BY <1>3, <3>1
  <2>6. CASE ~(at = NONE \/ get_state(m.st, Last(at)) # D_OCCUPIED \/ id < 0)
    <3>1. PICK h, z : h = Last(at) /\ z = IF state = I_OCCUPIED THEN Inode(h) ELSE Dentry(h)
      OBVIOUS
    <3>2. res = Done(add_sub(write_zone(Taken(m, id, state), id, z), h, id, name))
      BY <1>5, <2>1, <2>4, <2>6, <3>1 DEF make
    <3>3. Here(m.zone, at)
      BY <2>3, <2>6
    <3>4. h \in U /\ m.zone[h].type = "dentry"
      BY <1>2, <3>1, <3>3, WayIn DEF Here
    <3>5. Room(m.zone[h])
      BY <1>5, <2>1, <2>6, <3>1, <3>4 DEF Creates
    <3>6. id \in Id /\ m.st[id] = UNOCCUPIED
      BY <2>1, <2>6, FreeZone
    <3>7. name \in STRING /\ \A j \in Subs : m.zone[h].subs[j].name # name
      <4>1. Len(p.comps) \in 1 .. Len(p.comps)
        BY <2>2, DirIs DEF Dotted
      <4>2. name \in STRING
        BY <2>1, <4>1, PathIs DEF Last
      <4> QED
        BY <2>3, <2>6, <3>1, <4>2
    <3>8. Sound(d, add_sub(write_zone(Taken(m, id, state), id, z), h, id, name), pwd)
      BY <1>2, <3>1, <3>4, <3>5, <3>6, <3>7, NewNode
    <3> QED
      BY <1>3, <3>2, <3>8
  <2> QED
    BY <2>5, <2>6
<1> QED
  BY <1>4, <1>5

\* n is m with the last entry of directory p in place of that at i.
Replaced(m, n, p, z, i) ==
  \E k : Reach(z, i, k) /\ n = write_zone(m, p, DentryOf(z.parent, Moved(z.subs, i, k)))

\* rm_sub finds the entry in the directory's one zone, and puts the last one
\* in its place.
LEMMA RmSubIs ==
  ASSUME NEW m, NEW st, st = m.zone, Store(st), NEW p \in Id, NEW z, z = st[p], z.type = "dentry",
         NEW x, NEW i \in Subs, z.subs[i].id = x, x # 0,
         \A j \in Subs : z.subs[j].id = x => j = i, NEW lost
  PROVE  Replaced(m, rm_sub(m, p, x, lost), p, z, i)
<1>1. Formed(z) /\ p \in -1 .. MAX_ID /\ ~(p < Root) /\ z.next = 0
  BY Limits, FormedIs DEF Store
<1>2. SlotOf(z, x) = {i}
  BY <1>1, LastSlot
<1>3. PICK k : RunEnd(z, i, k) /\ Reach(z, i, k)
  BY <1>1, LastSlot
<1>4. Holder(m, p, x) = p
  <2> DEFINE g == [q \in -1 .. MAX_ID |-> q]
             f == CHOOSE f : f = [q \in -1 .. MAX_ID |->
                    IF q < Root \/ SlotOf(m.zone[q], x) # {} \/ NextOf(m.zone[q]) = 0
                    THEN q ELSE f[NextOf(m.zone[q])]]
  <2>1. \A q \in -1 .. MAX_ID : q < Root \/ SlotOf(m.zone[q], x) # {} \/ NextOf(m.zone[q]) = 0
    <3>1. \A q \in Id : NextOf(m.zone[q]) = 0
      BY FormedIs DEF Store
    <3>2. \A q \in -1 .. MAX_ID : q < Root \/ q \in Id
      BY Limits
    <3> QED
      BY <3>1, <3>2
  <2>2. g = [q \in -1 .. MAX_ID |->
               IF q < Root \/ SlotOf(m.zone[q], x) # {} \/ NextOf(m.zone[q]) = 0
               THEN q ELSE g[NextOf(m.zone[q])]]
    BY <2>1
  <2>3. f = [q \in -1 .. MAX_ID |->
               IF q < Root \/ SlotOf(m.zone[q], x) # {} \/ NextOf(m.zone[q]) = 0
               THEN q ELSE f[NextOf(m.zone[q])]]
    <3> HIDE DEF g
    <3> QED
      BY <2>2
  <2>4. f[p] = p
    <3> HIDE DEF f
    <3> QED
      BY <1>1, <2>1, <2>3
  <2> QED
    BY <2>4 DEF Holder
<1>5. (CHOOSE o \in SlotOf(z, x) : TRUE) = i
  BY <1>2
<1>8. rm_sub(m, p, x, lost) = write_zone(m, p, Closed(z, i))
  BY <1>1, <1>2, <1>4, <1>5 DEF rm_sub
<1>9. [z EXCEPT !.subs = Moved(z.subs, i, k)] = DentryOf(z.parent, Moved(z.subs, i, k))
  BY <1>1, OtherSubs
<1>10. Closed(z, i) = [z EXCEPT !.subs = Moved(z.subs, i, k)]
  BY <1>3 DEF Closed, Moved, RunEnd
<1>11. rm_sub(m, p, x, lost) = write_zone(m, p, DentryOf(z.parent, Moved(z.subs, i, k)))
  BY <1>8, <1>9, <1>10
<1> QED
  BY <1>3, <1>11 DEF Replaced

\* In e directory p has no more its entry for x, which has nothing below it.
Dropped(d, e, U, p, x) ==
  /\ \A y \in U \ {p} : e[y] = d[y]
  /\ e[p].type = d[p].type
  /\ \A n, c : Ent(e[p], n, c) <=> Ent(d[p], n, c) /\ c # x
  /\ \A n, c : ~Ent(d[x], n, c)
  /\ \E i : Pt(d[p], i, x)

\* The step from m to n is one write, which takes it out.
Leaving(m, n, U, p, x) ==
  \E y, e, V, q : /\ Written(m, p, y, e, n) /\ Dropped(m.zone, e, U, p, x)
                  /\ V \subseteq U /\ Plan(e, V, q)

\* n is memory without a node that was in directory h, which has room now.
Removed(d, n, at, h) == Sound(d, n, at) /\ n.zone[h].type = "dentry" /\ Room(n.zone[h])

\* rm_sub: the tree without a node that has none below it.
LEMMA RmSub ==
  ASSUME NEW d, NEW m, NEW U, NEW r, IsMemory(m), Logged(d, m),
         Plan(m.zone, U, r), Held(m.zone, U),
         NEW p \in U, m.zone[p].type = "dentry", NEW x \in U, NEW i, Pt(m.zone[p], i, x),
         \A j, c : Pt(m.zone[x], j, c) => m.zone[c].type = "data",
         Tally(m.st, m.zone, U \ NodeOf(m.zone, x)),
         NEW at, Here(m.zone, at), \A k \in 1 .. Len(at) : at[k] # x,
         NEW lost, NEW n, n = rm_sub(m, p, x, lost)
  PROVE  Removed(d, n, at, p) /\ Leaving(m, n, U, p, x)
<1>1. PICK z, st : z = m.zone[p] /\ st = m.zone
  OBVIOUS
<1>2. Store(st) /\ p \in Id /\ x \in Id /\ Formed(z) /\ x # 0
  BY <1>1, Limits DEF IsMemory, Plan, Store
<1>3. \A j, c : Pt(z, j, c) <=> j \in Subs /\ z.subs[j].id = c /\ c # 0
  BY <1>1, <1>2, Points
<1>4. i \in Subs /\ z.subs[i].id = x
  BY <1>1, <1>3
<1>5. \A j, l, c : Pt(z, j, c) /\ Pt(z, l, c) => j = l
  BY <1>1 DEF Plan
<1>6. ASSUME NEW j \in Subs, z.subs[j].id = x
      PROVE  j = i
  <2>1. Pt(z, j, x) /\ Pt(z, i, x)
    BY <1>2, <1>3, <1>4, <1>6
  <2> QED
    BY <1>5, <2>1
<1>7. PICK k :
        /\ Reach(z, i, k)
        /\ n = write_zone(m, p, DentryOf(z.parent, Moved(z.subs, i, k)))
  <2>1. z = st[p] /\ st = m.zone /\ z.type = "dentry" /\ z.subs[i].id = x
    BY <1>1, <1>4
  <2>2. Replaced(m, n, p, z, i)
    BY <1>2, <1>4, <1>6, <2>1, RmSubIs
  <2> QED
    BY <2>2 DEF Replaced
<1>8. PICK s, y : s = Moved(z.subs, i, k) /\ y = DentryOf(z.parent, s)
  OBVIOUS
<1>9. /\ Formed(y) /\ y.type = "dentry" /\ y.parent = z.parent
      /\ \A j, c : Pt(y, j, c) => c # x /\ \E l : Pt(z, l, c)
      /\ \A l, c : Pt(z, l, c) /\ c # x => \E j : Pt(y, j, c)
      /\ \A j, l, c : Pt(y, j, c) /\ Pt(y, l, c) => j = l
      /\ \A v, c : Ent(y, v, c) <=> Ent(z, v, c) /\ c # x
      /\ \E o \in Subs : y.subs[o].id = 0
  <2>1. z.type = "dentry"
    BY <1>1
  <2>2. Without(y, z, x)
    BY <1>2, <1>4, <1>5, <1>7, <1>8, <2>1, WithoutEntry
  <2> QED
    BY <2>2 DEF Without
<1>10. PICK e : e = [m.zone EXCEPT ![p] = y]
  OBVIOUS
<1>11. Store(e) /\ \A q \in Id : e[q] = IF q = p THEN y ELSE st[q]
  BY <1>1, <1>2, <1>9, <1>10, StoreWrite
<1>12. U \subseteq Id /\ e[p] = y /\ st[p] = z
  BY <1>1, <1>2, <1>11 DEF Plan
<1>13. Cut(st, e, U, p, x)
  <2>1. \A q \in U \ {p} : e[q] = st[q]
    BY <1>11, <1>12
  <2> QED
    BY <1>1, <1>9, <1>12, <2>1 DEF Cut
<1>14. PICK V : V = U \ NodeOf(st, x)
  OBVIOUS
<1>15. /\ \E r2 : Plan(e, V, r2)
       /\ Held(e, V)
  <2>1. Plan(st, U, r) /\ Held(st, U) /\ Pt(st[p], i, x)
    BY <1>1
  <2>2. \A j, c : Pt(st[x], j, c) => st[c].type = "data"
    BY <1>1
  <2> QED
    BY <1>13, <1>14, <2>1, <2>2, Cutting
<1>16. Here(e, at)
  <2>1. Plan(st, U, r) /\ Here(st, at)
    BY <1>1
  <2> QED
    BY <1>13, <2>1, HereCut
<1>17. PICK r2 : Plan(e, V, r2)
  BY <1>15
<1>18. IsMemory(n) /\ Logged(d, n) /\ n.zone = e /\ n.st = m.st
  <2>1. n = write_zone(m, p, y) /\ Formed(y) /\ p \in Id
    BY <1>2, <1>7, <1>8, <1>9
  <2> QED
    BY <1>10, <1>17, <2>1, LogWrite
<1>19. Tally(n.st, e, V)
  <2>1. \A q \in Id : e[q].type = st[q].type
    BY <1>1, <1>9, <1>11
  <2> QED
    BY <1>1, <1>14, <1>18, <2>1 DEF Tally
<1>20. Sound(d, n, at)
  <2>1. Whole(n.zone, n.st)
    BY <1>15, <1>17, <1>18, <1>19 DEF Whole
  <2> QED
    BY <1>16, <1>18, <2>1 DEF Sound
<1>21. Room(y)
  BY <1>9 DEF Room
<1>22. n.zone[p].type = "dentry" /\ Room(n.zone[p])
  BY <1>1, <1>9, <1>12, <1>18, <1>21
<1>23. \A v, c : ~Ent(st[x], v, c)
  <2> SUFFICES ASSUME NEW v, NEW c, Ent(st[x], v, c) PROVE FALSE
    OBVIOUS
  <2>1. PICK j : Pt(st[x], j, c) /\ st[x].type = "dentry"
    BY DEF Ent, Pt
  <2>2. st[c].type = "data" /\ st[c].type \in {"dentry", "inode"}
    BY <1>1, <2>1 DEF Plan, Kid
  <2> QED
    BY <2>2
<1>24. Dropped(m.zone, e, U, p, x)
  <2>1. \A q \in U \ {p} : e[q] = m.zone[q]
    BY <1>1, <1>11, <1>12
  <2> QED
    BY <1>1, <1>9, <1>12, <1>23, <2>1 DEF Dropped
<1>25. Written(m, p, y, e, n)
  BY <1>2, <1>7, <1>8, <1>10, <1>11, <1>18 DEF Written
<1>26. Leaving(m, n, U, p, x)
  <2>1. V \subseteq U
    BY <1>14
  <2> QED
    BY <1>17, <1>24, <1>25, <2>1 DEF Leaving
<1> QED
  BY <1>20, <1>22, <1>26 DEF Removed

-----------------------------------------------------------------------------
(* A node is removed.                                                       *)

\* The step from m to n is one that frees zone x and others, and one write,
\* which takes the entry of x out of the directory of x.
Left(m, n, x) ==
  \E S, U, r : /\ Plan(m.zone, U, r) /\ x \in U \cap S /\ m.zone[x].parent \in U
              /\ Leaving(set_free_id(m, S), n, U, m.zone[x].parent, x)

\* rm_file and rm_dir, once they have freed the zones of a node.
LEMMA RemoveNode ==
  ASSUME NEW d, NEW m, NEW at, Sound(d, m, at), NEW U, NEW r,
         Plan(m.zone, U, r), Held(m.zone, U), Tally(m.st, m.zone, U),
         NEW way, Way(m.zone, way), Len(way) # 1, NEW x, x = Last(way),
         \A j, c : Pt(m.zone[x], j, c) => m.zone[c].type = "data",
         NEW S, S = NodeOf(m.zone, x), \A k \in 1 .. Len(at) : at[k] # x,
         NEW lost, NEW n, n = rm_sub(set_free_id(m, S), m.zone[x].parent, x, lost)
  PROVE  Removed(d, n, at, way[Len(way) - 1]) /\ Left(m, n, x)
<1>1. Len(way) >= 2 /\ Len(way) \in Nat
  <2>1. Len(way) \in Nat /\ Len(way) >= 1
    BY WayIn DEF Way
  <2>2. \A k \in Nat : k >= 1 /\ k # 1 => k >= 2
    OBVIOUS
  <2> QED
    BY <2>1, <2>2
<1>2. PICK h : h = way[Len(way) - 1]
  OBVIOUS
<1>3. /\ h \in U /\ m.zone[h].type = "dentry" /\ x \in U /\ m.zone[x].parent = h
      /\ \E i : Pt(m.zone[h], i, x)
  <2>1. Len(way) - 1 \in 1 .. Len(way) - 1 /\ Len(way) - 1 \in 1 .. Len(way)
    BY <1>1
  <2> QED
    BY <1>1, <1>2, <2>1, WayIn
<1>4. PICK i : Pt(m.zone[h], i, x)
  BY <1>3
<1>5. PICK g : g = set_free_id(m, S)
  OBVIOUS
<1>6. IsMemory(m) /\ Logged(d, m) /\ Here(m.zone, at)
  BY DEF Sound
<1>7. /\ IsMemory(g) /\ Logged(d, g) /\ g.zone = m.zone
      /\ \A y \in Id : g.st[y] = IF y \in S THEN UNOCCUPIED ELSE m.st[y]
  BY <1>5, <1>6, FreedFields
<1>8. Tally(g.st, g.zone, U \ NodeOf(g.zone, x))
  BY <1>7 DEF Tally
<1>9. n = rm_sub(g, h, x, lost)
  BY <1>3, <1>5
<1>10. /\ Plan(g.zone, U, r) /\ Held(g.zone, U) /\ Here(g.zone, at)
       /\ g.zone[h].type = "dentry" /\ Pt(g.zone[h], i, x)
       /\ \A j, c : Pt(g.zone[x], j, c) => g.zone[c].type = "data"
  BY <1>3, <1>4, <1>6, <1>7
<1>11. Removed(d, n, at, h) /\ Leaving(g, n, U, h, x)
  <2>1. IsMemory(g) /\ Logged(d, g) /\ h \in U /\ x \in U
    BY <1>3, <1>7
  <2>2. \A k \in 1 .. Len(at) : at[k] # x
    OBVIOUS
  <2>3. \A j, c : Pt(g.zone[x], j, c) => g.zone[c].type = "data"
    BY <1>10
  <2>4. \A l : rm_sub(g, h, x, l) = rm_sub(g, h, x, l) =>
          Removed(d, rm_sub(g, h, x, l), at, h) /\ Leaving(g, rm_sub(g, h, x, l), U, h, x)
    BY <1>8, <1>10, <2>1, <2>2, <2>3, RmSub
  <2> QED
    BY <1>9, <2>4
<1>12. Left(m, n, x)
  <2>1. x \in U \cap S
    BY <1>3 DEF NodeOf
  <2> QED
    BY <1>3, <1>5, <1>11, <2>1 DEF Left
<1> QED
  BY <1>2, <1>11, <1>12

\* What rm_inode frees is the file and its data.
LEMMA RmInodeIs ==
  ASSUME NEW m, Store(m.zone), NEW x \in Id, m.zone[x].type = "inode"
  PROVE  rm_inode(m, x) = set_free_id(m, NodeOf(m.zone, x))
<1>1. PICK z : z = m.zone[x]
  OBVIOUS
<1>2. Formed(z) /\ z.type = "inode"
  BY <1>1 DEF Store
<1>3. z.ptrs \in Seq(Id) /\ Len(z.ptrs) \in Nat
      /\ \A i, c : Pt(z, i, c) <=> i \in 1 .. Len(z.ptrs) /\ z.ptrs[i] = c
  BY <1>2, FormedIs, Pointers
<1>4. Range(z.ptrs) = {z.ptrs[i] : i \in 1 .. Len(z.ptrs)}
  BY <1>3 DEF Range
<1>5. {x} \cup Range(z.ptrs) = {x} \cup {c \in Id : \E i : Pt(z, i, c)}
  <2>1. \A i \in 1 .. Len(z.ptrs) : z.ptrs[i] \in Id
    BY <1>3
  <2>2. \A c : c \in Range(z.ptrs) <=> c \in Id /\ \E i : Pt(z, i, c)
    BY <1>3, <1>4, <2>1
  <2> QED
    BY <2>2
<1>6. rm_inode(m, x) = set_free_id(m, {x} \cup Range(z.ptrs))
  BY <1>1, <1>2 DEF rm_inode
<1> QED
  BY <1>1, <1>5, <1>6 DEF NodeOf

\* A node is not on the way to the working directory if it is no directory.
LEMMA NotOnWay ==
  ASSUME NEW d, NEW at, Here(d, at), NEW x, d[x].type # "dentry"
  PROVE  \A k \in 1 .. Len(at) : at[k] # x
<1>1. Len(at) \in Nat /\ Way(d, at) /\ d[at[Len(at)]].type = "dentry"
  BY DEF Here, Way, Last
<1>2. ASSUME NEW k \in 1 .. Len(at), k # Len(at)
      PROVE  d[at[k]].type = "dentry"
  <2>1. k + 1 \in 2 .. Len(at) /\ (k + 1) - 1 = k
    BY <1>1, <1>2
  <2> QED
    BY <1>1, <2>1 DEF Way
<1> QED
  BY <1>1, <1>2

\* rm_file of a file.
LEMMA RmFileKeeps ==
  ASSUME NEW d, NEW m, Sound(d, m, pwd), NEW p \in Path,
         NEW way, way = get_path(m, p).at,
         way # NONE => m.zone[Last(way)].type = "inode",
         NEW lost, NEW res, res = rm_file(m, p, lost)
  PROVE  /\ way = NONE => res = Refused(m)
         /\ way # NONE => /\ res.ans = "0" /\ Removed(d, res.m, pwd, way[Len(way) - 1])
                          /\ Way(m.zone, way) /\ Len(way) # 1
                          /\ Left(m, res.m, Last(way))
<1>1. CASE way = NONE
  BY <1>1 DEF rm_file
<1>2. CASE way # NONE
  <2>1. IsMemory(m) /\ Store(m.zone) /\ Here(m.zone, pwd)
    BY DEF Sound, IsMemory
  <2>2. PICK U, r : Plan(m.zone, U, r) /\ Held(m.zone, U) /\ Tally(m.st, m.zone, U)
    BY DEF Sound, Whole
  <2>3. Way(m.zone, way)
    BY <1>2, <2>1, <2>2, PathLeads
  <2>4. PICK x : x = Last(way)
    OBVIOUS
  <2>5. x \in U /\ x \in Id /\ m.zone[x].type = "inode"
    BY ZenonT(30), <1>2, <2>2, <2>3, <2>4, WayIn DEF Plan
  <2>6. Len(way) # 1
    <3>1. ASSUME Len(way) = 1
          PROVE  x = Root
      BY <2>3, <2>4, <3>1 DEF Way, Last
    <3> QED
      BY <2>2, <2>5, <3>1 DEF Plan
  <2>7. \A j, c : Pt(m.zone[x], j, c) => m.zone[c].type = "data"
    BY <2>2, <2>5 DEF Plan, Kid
  <2>8. \A k \in 1 .. Len(pwd) : pwd[k] # x
    BY <2>1, <2>5, NotOnWay
  <2>9. ~(x < Root)
    BY <2>5, Limits
  <2>10. res = Done(rm_sub(set_free_id(m, NodeOf(m.zone, x)), m.zone[x].parent, x, lost))
    BY <1>2, <2>1, <2>4, <2>5, <2>9, RmInodeIs DEF rm_file
  <2>11. PICK S, n : S = NodeOf(m.zone, x) /\ n = rm_sub(set_free_id(m, S), m.zone[x].parent, x, lost)
    OBVIOUS
  <2>12. Removed(d, n, pwd, way[Len(way) - 1]) /\ Left(m, n, x)
    BY <2>2, <2>3, <2>4, <2>6, <2>7, <2>8, <2>11, RemoveNode
  <2>13. res.m = n /\ res.ans = "0"
    BY <2>10, <2>11 DEF Done
  <2> QED
    BY <1>2, <2>3, <2>4, <2>6, <2>12, <2>13
<1> QED
  BY <1>1, <1>2

\* An empty directory: no pointers, and rm_dentry frees the one zone.
LEMMA RmDentryIs ==
  ASSUME NEW m, Store(m.zone), NEW x \in Id, m.zone[x].type = "dentry", Used(m.zone[x]) = {}
  PROVE  /\ rm_dentry(m, x) = set_free_id(m, NodeOf(m.zone, x))
         /\ \A i, c : ~Pt(m.zone[x], i, c)
<1>1. PICK z : z = m.zone[x]
  OBVIOUS
<1>2. Formed(z) /\ z.type = "dentry" /\ Used(z) = {}
  BY <1>1 DEF Store
<1>3. \A i, c : ~Pt(z, i, c)
  BY <1>2, Pointers
<1>4. NodeOf(m.zone, x) = {x}
  BY <1>1, <1>3 DEF NodeOf
<1>5. Entries(z) = {}
  BY <1>2 DEF Entries
<1>6. Cardinality(Used(z)) # Len(z.subs)
  <2>1. Len(z.subs) = NUM_OF_DENTRY_SUBS /\ NUM_OF_DENTRY_SUBS # 0
    BY <1>2, Pointers, Limits
  <2>2. Cardinality(Used(z)) = 0
    BY <1>2, FS_EmptySet
  <2> QED
    BY <2>1, <2>2
<1> DEFINE Next1(q) == {q} \cup Entries(m.zone[q])
           g == [q \in -1 .. MAX_ID |-> IF q < Root THEN {} ELSE Next1(q)]
           f == CHOOSE f : f = [q \in -1 .. MAX_ID |->
                  IF q < Root THEN {}
                  ELSE {q} \cup Entries(m.zone[q]) \cup
                       IF Cardinality(Used(m.zone[q])) = Len(m.zone[q].subs)
                       THEN f[NextOf(m.zone[q])] ELSE {}]
<1>7. f[x] = {x}
  <2>1. \A q \in -1 .. MAX_ID : ~(q < Root) => NextOf(m.zone[q]) = 0
    <3>1. \A q \in -1 .. MAX_ID : q < Root \/ q \in Id
      BY Limits
    <3> QED
      BY <3>1, FormedIs DEF Store
  <2>2. g[0] = {} /\ 0 \in -1 .. MAX_ID /\ x \in -1 .. MAX_ID /\ ~(x < Root)
    BY Limits
  <2>3. \A q \in -1 .. MAX_ID :
          g[q] = IF q < Root THEN {}
                 ELSE {q} \cup Entries(m.zone[q]) \cup
                      IF Cardinality(Used(m.zone[q])) = Len(m.zone[q].subs)
                      THEN g[NextOf(m.zone[q])] ELSE {}
    <3> SUFFICES ASSUME NEW q \in -1 .. MAX_ID, ~(q < Root)
                 PROVE  g[q] = {q} \cup Entries(m.zone[q]) \cup
                                 IF Cardinality(Used(m.zone[q])) = Len(m.zone[q].subs)
                                 THEN g[NextOf(m.zone[q])] ELSE {}
      OBVIOUS
    <3>1. g[NextOf(m.zone[q])] = {}
      BY <2>1, <2>2
    <3>2. g[q] = {q} \cup Entries(m.zone[q])
      OBVIOUS
    <3> HIDE DEF g
    <3> QED
      BY <3>1, <3>2
  <2>4. g = [q \in -1 .. MAX_ID |-> g[q]]
    OBVIOUS
  <2> HIDE DEF g
  <2>5. g = [q \in -1 .. MAX_ID |->
                  IF q < Root THEN {}
                  ELSE {q} \cup Entries(m.zone[q]) \cup
                       IF Cardinality(Used(m.zone[q])) = Len(m.zone[q].subs)
                       THEN g[NextOf(m.zone[q])] ELSE {}]
    BY <2>3, <2>4, Zenon
  <2>6. f = [q \in -1 .. MAX_ID |->
                  IF q < Root THEN {}
                  ELSE {q} \cup Entries(m.zone[q]) \cup
                       IF Cardinality(Used(m.zone[q])) = Len(m.zone[q].subs)
                       THEN f[NextOf(m.zone[q])] ELSE {}]
    BY <2>5, Zenon
  <2> HIDE DEF f
  <2> QED
    BY <1>1, <1>5, <1>6, <2>2, <2>6
<1>8. rm_dentry(m, x) = set_free_id(m, f[x])
  <2>1. rm_dentry(m, x) = IF m.zone[x].type = "inode"
                          THEN set_free_id(m, {x, m.zone[x].size})
                          ELSE set_free_id(m, f[x])
    BY DEF rm_dentry
  <2> HIDE DEF f
  <2> QED
    BY <1>1, <1>2, <2>1
<1> HIDE DEF f
<1> QED
  BY <1>1, <1>3, <1>4, <1>7, <1>8

\* rm_dir of an empty directory that no session is in or below.
LEMMA RmDirKeeps ==
  ASSUME NEW d, NEW m, Sound(d, m, pwd), NEW p \in Path,
         NEW way, way = get_path(m, p).at,
         way # NONE => /\ m.zone[Last(way)].type = "dentry" /\ Used(m.zone[Last(way)]) = {}
                       /\ \A k \in 1 .. Len(pwd) : pwd[k] # Last(way),
         NEW lost, NEW res, res = rm_dir(m, p, lost)
  PROVE  /\ way = NONE => res = Refused(m)
         /\ way # NONE => res.ans = "0" /\ Sound(d, res.m, pwd) /\ Left(m, res.m, Last(way))
<1>1. CASE way = NONE
  BY <1>1 DEF rm_dir
<1>2. CASE way # NONE
  <2>1. IsMemory(m) /\ Store(m.zone) /\ Here(m.zone, pwd)
    BY DEF Sound, IsMemory
  <2>2. PICK U, r : Plan(m.zone, U, r) /\ Held(m.zone, U) /\ Tally(m.st, m.zone, U)
    BY DEF Sound, Whole
  <2>3. Way(m.zone, way)
    BY <1>2, <2>1, <2>2, PathLeads
  <2>4. PICK x : x = Last(way)
    OBVIOUS
  <2>5. /\ x \in U /\ x \in Id /\ m.zone[x].type = "dentry" /\ Used(m.zone[x]) = {}
        /\ \A k \in 1 .. Len(pwd) : pwd[k] # x
    BY ZenonT(30), <1>2, <2>2, <2>3, <2>4, WayIn DEF Plan
  <2>6. Len(way) # 1
    <3>1. ASSUME Len(way) = 1
          PROVE  x = Root
      BY <2>3, <2>4, <3>1 DEF Way, Last
    <3>2. pwd[1] = Root /\ 1 \in 1 .. Len(pwd)
      BY <2>1, <2>2, WayIn DEF Here, Way
    <3> QED
      BY <2>5, <3>1, <3>2
  <2>7. /\ rm_dentry(m, x) = set_free_id(m, NodeOf(m.zone, x))
        /\ \A j, c : Pt(m.zone[x], j, c) => m.zone[c].type = "data"
    BY <2>1, <2>5, RmDentryIs
  <2>8. ~(x < Root)
    BY <2>5, Limits
  <2>9. res = Done(rm_sub(set_free_id(m, NodeOf(m.zone, x)), m.zone[x].parent, x, lost))
    BY <1>2, <2>4, <2>7, <2>8 DEF rm_dir
  <2>10. PICK S, n : S = NodeOf(m.zone, x) /\ n = rm_sub(set_free_id(m, S), m.zone[x].parent, x, lost)
    OBVIOUS
  <2>11. \A k \in 1 .. Len(pwd) : pwd[k] # x
    BY <2>5
  <2>12. Removed(d, n, pwd, way[Len(way) - 1]) /\ Left(m, n, x)
    BY <2>2, <2>3, <2>4, <2>6, <2>7, <2>10, <2>11, RemoveNode
  <2>13. res.m = n /\ res.ans = "0"
    BY <2>9, <2>10 DEF Done
  <2> QED
    BY <1>2, <2>4, <2>12, <2>13 DEF Removed
<1> QED
  BY <1>1, <1>2

-----------------------------------------------------------------------------
(* Text.                                                                    *)

\* Where the tree is as it was but for what is in a zone beside its pointers,
\* it is the same tree.
LEMMA Alike ==
  ASSUME NEW d, NEW e, NEW U, NEW r, Plan(d, U, r), NEW h \in U,
         \A x \in U \ {h} : e[x] = d[x], e[h].type = d[h].type, e[h].parent = d[h].parent,
         \A i, c : Pt(e[h], i, c) <=> Pt(d[h], i, c)
  PROVE  /\ Plan(e, U, r)
         /\ Held(d, U) => Held(e, U)
         /\ \A st : Tally(st, d, U) => Tally(st, e, U)
         /\ \A at : Here(d, at) => Here(e, at)
<1>1. \A x \in U : /\ e[x].type = d[x].type /\ e[x].parent = d[x].parent
                   /\ \A i, c : Pt(e[x], i, c) <=> Pt(d[x], i, c)
  OBVIOUS
<1>2. Plan(e, U, r)
  <2>1. \A x \in U : \A i, c : Pt(e[x], i, c) => c \in U /\ Kid(e, x, c, r)
    <3> SUFFICES ASSUME NEW x \in U, NEW i, NEW c, Pt(e[x], i, c)
                 PROVE  c \in U /\ Kid(e, x, c, r)
      OBVIOUS
    <3>1. c \in U /\ Kid(d, x, c, r)
      BY <1>1 DEF Plan
    <3> QED
      BY <1>1, <3>1 DEF Kid
  <2>2. \A x, y \in U : \A i, j, c : Pt(e[x], i, c) /\ Pt(e[y], j, c) => x = y /\ i = j
    BY <1>1 DEF Plan
  <2>3. \A x \in U : e[x].type \in {"dentry", "inode", "data"}
    BY <1>1 DEF Plan
  <2>4. e[Root].type = "dentry"
    BY <1>1 DEF Plan
  <2>5. U \subseteq Id /\ Root \in U /\ r \in [U -> Nat] /\ r[Root] = 0
    BY DEF Plan
  <2> QED
    BY <2>1, <2>2, <2>3, <2>4, <2>5 DEF Plan
<1>3. Held(d, U) => Held(e, U)
  BY <1>1 DEF Held
<1>4. \A st : Tally(st, d, U) => Tally(st, e, U)
  BY <1>1 DEF Tally
<1>5. ASSUME NEW at, Here(d, at)
      PROVE  Here(e, at)
  <2>1. \A k \in 1 .. Len(at) : at[k] \in U
    BY <1>5, WayIn DEF Here
  <2>2. Len(at) \in Nat
    BY <1>5, WayIn DEF Here
  <2>3. \A k \in 1 .. Len(at) : e[at[k]].type = d[at[k]].type
    BY <1>1, <2>1
  <2>4. \A k \in 1 .. Len(at) - 1 : \A i : Pt(d[at[k]], i, at[k + 1]) => Pt(e[at[k]], i, at[k + 1])
    BY <1>1, <2>1, <2>2
  <2> QED
    BY <1>5, <2>3, <2>4, HereKept
<1> QED
  BY <1>2, <1>3, <1>4, <1>5

\* A file with one data zone more, or another size.
LEMMA InodeParts ==
  ASSUME NEW z, Formed(z), z.type = "inode"
  PROVE  /\ \A n : [z EXCEPT !.size = n] = InodeOf(z.parent, n, z.ptrs)
         /\ \A c : [z EXCEPT !.ptrs = Append(@, c)] = InodeOf(z.parent, z.size, Append(z.ptrs, c))
         /\ z.ptrs \in Seq(Id)
<1>1. z = InodeOf(z.parent, z.size, z.ptrs) /\ z.parent \in Id /\ z.ptrs \in Seq(Id)
  BY FormedIs
<1>2. PICK p, n, s : p = z.parent /\ n = z.size /\ s = z.ptrs
  OBVIOUS
<1>3. z = [type |-> "inode", parent |-> p, size |-> n, ptrs |-> s]
  BY <1>1, <1>2 DEF InodeOf
<1>4. \A k : [z EXCEPT !.size = k] = [type |-> "inode", parent |-> p, size |-> k, ptrs |-> s]
  BY <1>3
<1>5. \A c : [z EXCEPT !.ptrs = Append(@, c)]
               = [type |-> "inode", parent |-> p, size |-> n, ptrs |-> Append(s, c)]
  BY <1>3
<1>6. \A k : [z EXCEPT !.size = k] = InodeOf(z.parent, k, z.ptrs)
  BY <1>2, <1>4 DEF InodeOf
<1>7. \A c : [z EXCEPT !.ptrs = Append(@, c)] = InodeOf(z.parent, z.size, Append(z.ptrs, c))
  BY <1>2, <1>5 DEF InodeOf
<1> QED
  BY <1>1, <1>6, <1>7

\* It is a file still.
LEMMA InodeGrows ==
  ASSUME NEW z, Formed(z), z.type = "inode", NEW n, NEW s \in Seq(Id),
         NEW y, y = InodeOf(z.parent, n, s)
  PROVE  Formed(y) /\ y.type = "inode" /\ y.parent = z.parent /\ y.ptrs = s
<1>1. z.parent \in Id
  BY FormedIs
<1> QED
  BY <1>1 DEF Formed, InodeOf

\* Where add_data is that appends to file x, on a disk that was d: the tree on
\* disk lacks the data zones written so far, which are linked from a.inode.
Growth(d, x, at, a, e, W, r, V, q) ==
  /\ IsMemory(a.m) /\ Logged(d, a.m)
  /\ Formed(a.inode) /\ a.inode.type = "inode"
  /\ Plan(a.m.zone, W, r) /\ W \subseteq V /\ x \in W
  /\ e = [a.m.zone EXCEPT ![x] = a.inode]
  /\ Plan(e, V, q) /\ Held(e, V) /\ Tally(a.m.st, e, V) /\ Here(e, at)
Grown(d, x, at, a) == \E e, W, r, V, q : Growth(d, x, at, a, e, W, r, V, q)

\* One zone more.
LEMMA AddZone ==
  ASSUME NEW d, NEW x, NEW at, NEW a, Grown(d, x, at, a)
  PROVE  Grown(d, x, at, add_zone(a))
<1>1. PICK e, W, r, V, q : Growth(d, x, at, a, e, W, r, V, q)
  BY DEF Grown
<1>2. PICK m, z, new, b : m = a.m /\ z = a.inode /\ new = get_free_id(m) /\ b = add_zone(a)
  OBVIOUS
<1>3. /\ IsMemory(m) /\ Logged(d, m) /\ Formed(z) /\ z.type = "inode"
      /\ Plan(m.zone, W, r) /\ W \subseteq V /\ x \in W
      /\ e = [m.zone EXCEPT ![x] = z]
      /\ Plan(e, V, q) /\ Held(e, V) /\ Tally(m.st, e, V) /\ Here(e, at)
  BY <1>1, <1>2 DEF Growth
<1>4. CASE a.full \/ new < 0
  <2>1. b = [m |-> m, inode |-> z, full |-> TRUE]
    BY <1>2, <1>4 DEF add_zone
  <2>2. b.m = m /\ b.inode = z
    BY <2>1
  <2>3. Growth(d, x, at, b, e, W, r, V, q)
    BY <1>3, <2>2 DEF Growth
  <2> QED
    BY <1>2, <2>3 DEF Grown
<1>5. CASE ~(a.full \/ new < 0)
  <2>1. new \in Id /\ m.st[new] = UNOCCUPIED
    BY <1>2, <1>5, FreeZone
  <2>2. new \notin V /\ new \notin W /\ x \in V /\ x \in Id /\ new # x /\ V \subseteq Id
    <3>1. V \subseteq Id /\ \A y \in V : e[y].type \in {"dentry", "inode", "data"}
      BY <1>3 DEF Plan
    <3>2. new \notin V
      BY <1>3, <2>1, <3>1 DEF Tally, UNOCCUPIED, D_OCCUPIED, I_OCCUPIED, F_OCCUPIED
    <3> QED
      BY <1>3, <3>1, <3>2
  <2>3. PICK t : t = Taken(m, new, F_OCCUPIED)
    OBVIOUS
  <2>4. /\ IsMemory(t) /\ Logged(d, t) /\ t.zone = m.zone
        /\ \A y \in Id : t.st[y] = IF y = new THEN F_OCCUPIED ELSE m.st[y]
    BY <1>3, <2>1, <2>3, TakenFields DEF UNOCCUPIED, F_OCCUPIED, I_OCCUPIED
  <2>5. PICK m2, e2 : m2 = write_zone(t, new, Data) /\ e2 = [t.zone EXCEPT ![new] = Data]
    OBVIOUS
  <2>6. Formed(Data) /\ Data.type = "data"
    BY DEF Formed, Data
  <2>7. /\ Store(e2) /\ \A y \in Id : e2[y] = IF y = new THEN Data ELSE m.zone[y]
    BY <2>1, <2>4, <2>5, <2>6, StoreWrite DEF IsMemory
  <2>8. Plan(e2, W, r)
    <3>1. \A y \in W : e2[y] = m.zone[y]
      BY <1>3, <2>2, <2>7
    <3> QED
      BY <1>3, <3>1, Outside
  <2>9. IsMemory(m2) /\ Logged(d, m2) /\ m2.zone = e2 /\ m2.st = t.st
    <3>1. IsMemory(t) /\ Logged(d, t) /\ new \in Id /\ Formed(Data)
      BY <2>1, <2>4, <2>6
    <3>2. \A k : k = [t.zone EXCEPT ![new] = Data] /\ Plan(k, W, r) =>
            /\ IsMemory(write_zone(t, new, Data)) /\ Logged(d, write_zone(t, new, Data))
            /\ write_zone(t, new, Data).zone = k
            /\ write_zone(t, new, Data).st = t.st
      BY <3>1, LogWrite
    <3> QED
      BY <2>5, <2>8, <3>2
  <2>10. PICK c, s : c = Append(z.ptrs, new) /\ s = InodeOf(z.parent, z.size, c)
    OBVIOUS
  <2>11. /\ Formed(s) /\ s.type = "inode" /\ s.parent = z.parent /\ s.ptrs = c
         /\ [z EXCEPT !.ptrs = Append(@, new)] = s /\ z.ptrs \in Seq(Id)
    <3>1. z.ptrs \in Seq(Id) /\ c \in Seq(Id)
      BY <1>3, <2>1, <2>10, InodeParts
    <3>2. Formed(s) /\ s.type = "inode" /\ s.parent = z.parent /\ s.ptrs = c
      <4>1. Formed(z) /\ z.type = "inode" /\ c \in Seq(Id) /\ s = InodeOf(z.parent, z.size, c)
        BY <1>3, <2>10, <3>1
      <4> QED
        BY <4>1, InodeGrows
    <3>3. [z EXCEPT !.ptrs = Append(@, new)] = InodeOf(z.parent, z.size, Append(z.ptrs, new))
      BY <1>3, InodeParts
    <3> QED
      BY <2>10, <3>1, <3>2, <3>3
  <2>12. b = [m |-> m2, inode |-> s, full |-> FALSE]
    BY <1>2, <1>5, <2>3, <2>5, <2>11 DEF add_zone
  <2>13. b.m = m2 /\ b.inode = s
    BY <2>12
  <2>14. PICK g : g = [m2.zone EXCEPT ![x] = s]
    OBVIOUS
  <2>15. \A y \in Id : g[y] = IF y = x THEN s ELSE IF y = new THEN Data ELSE m.zone[y]
    <3>1. Store(g) /\ \A y \in Id : g[y] = IF y = x THEN s ELSE e2[y]
      <4>1. Store(e2) /\ x \in Id /\ Formed(s)
        BY <2>2, <2>7, <2>11
      <4>2. /\ Store([e2 EXCEPT ![x] = s])
            /\ \A y \in Id : [e2 EXCEPT ![x] = s][y] = IF y = x THEN s ELSE e2[y]
        BY <4>1, StoreWrite
      <4>3. g = [e2 EXCEPT ![x] = s]
        BY <2>9, <2>14
      <4> QED
        BY <4>2, <4>3
    <3> QED
      BY <2>7, <3>1
  <2>16. \A y \in Id : e[y] = IF y = x THEN z ELSE m.zone[y]
    BY <1>3, <2>2, StoreWrite DEF IsMemory
  <2>17. Linked(e, g, V, x, Len(z.ptrs) + 1, new)
    <3>1. e[x] = z /\ g[x] = s /\ g[new] = Data
      BY <2>1, <2>2, <2>15, <2>16
    <3>2. \A y \in V \ {x} : g[y] = e[y]
      BY <2>2, <2>15, <2>16
    <3>3. /\ Len(z.ptrs) \in Nat /\ Len(c) = Len(z.ptrs) + 1 /\ c[Len(z.ptrs) + 1] = new
          /\ \A i \in 1 .. Len(z.ptrs) : c[i] = z.ptrs[i]
      BY <2>1, <2>10, <2>11
    <3>4. \A i, y : Pt(z, i, y) <=> i \in 1 .. Len(z.ptrs) /\ z.ptrs[i] = y
      BY <1>3, Pointers
    <3>5. \A i, y : Pt(s, i, y) <=> i \in 1 .. Len(c) /\ c[i] = y
      BY <2>11, Pointers
    <3>6. \A y : ~Pt(z, Len(z.ptrs) + 1, y)
      BY <3>3, <3>4
    <3>7. \A i, y : Pt(s, i, y) <=> Pt(z, i, y) \/ (i = Len(z.ptrs) + 1 /\ y = new)
      <4>1. \A i : i \in 1 .. Len(c) <=> i \in 1 .. Len(z.ptrs) \/ i = Len(z.ptrs) + 1
        BY <3>3
      <4>2. Len(z.ptrs) + 1 \notin 1 .. Len(z.ptrs)
        BY <3>3
      <4> QED
        BY <3>3, <3>4, <3>5, <4>1, <4>2
    <3>8. \A i, y : ~Pt(g[new], i, y)
      BY <2>6, <3>1 DEF Pt
    <3> QED
      BY <1>3, <2>6, <2>11, <3>1, <3>2, <3>6, <3>7, <3>8 DEF Linked
  <2>18. PICK q2 : Plan(g, V \cup {new}, q2) /\ Held(g, V \cup {new})
    BY <1>3, <2>1, <2>2, <2>17, Adding
  <2>19. Here(g, at)
    BY <1>3, <2>2, <2>17, HereAdding
  <2>20. Tally(m2.st, g, V \cup {new})
    <3>1. \A y \in Id : m2.st[y] = IF y = new THEN F_OCCUPIED ELSE m.st[y]
      BY <2>4, <2>9
    <3>2. g[new].type = "data"
      BY <2>1, <2>2, <2>6, <2>15
    <3>3. \A y \in Id \ {new} : g[y].type = e[y].type
      BY <1>3, <2>2, <2>11, <2>15, <2>16
    <3> QED
      BY <1>3, <3>1, <3>2, <3>3 DEF Tally
  <2>21. W \subseteq V \cup {new}
    BY <1>3
  <2>22. Growth(d, x, at, b, g, W, r, V \cup {new}, q2)
    BY <1>3, <2>8, <2>9, <2>11, <2>13, <2>14, <2>18, <2>19, <2>20, <2>21 DEF Growth
  <2> QED
    BY <1>2, <2>22 DEF Grown
<1> QED
  BY <1>4, <1>5

\* It ends with the inode: the tree on disk is then the one that grew.
LEMMA AddEnd ==
  ASSUME NEW d, NEW x, NEW at, NEW a, Grown(d, x, at, a),
         NEW n, NEW y, y = InodeOf(a.inode.parent, n, a.inode.ptrs)
  PROVE  Sound(d, write_zone(a.m, x, y), at)
<1>1. PICK e, W, r, V, q : Growth(d, x, at, a, e, W, r, V, q)
  BY DEF Grown
<1>2. PICK m, z : m = a.m /\ z = a.inode
  OBVIOUS
<1>3. /\ IsMemory(m) /\ Logged(d, m) /\ Formed(z) /\ z.type = "inode"
      /\ x \in V
      /\ e = [m.zone EXCEPT ![x] = z]
      /\ Plan(e, V, q) /\ Held(e, V) /\ Tally(m.st, e, V) /\ Here(e, at)
  BY <1>1, <1>2 DEF Growth
<1>4. x \in Id /\ V \subseteq Id
  BY <1>3 DEF Plan
<1>5. Formed(y) /\ y.type = "inode" /\ y.parent = z.parent /\ y.ptrs = z.ptrs
  <2>1. z.ptrs \in Seq(Id)
    BY <1>3, FormedIs
  <2>2. y = InodeOf(z.parent, n, z.ptrs) /\ Formed(z) /\ z.type = "inode"
    BY <1>2, <1>3
  <2> QED
    BY <2>1, <2>2, InodeGrows
<1>6. PICK g : g = [m.zone EXCEPT ![x] = y]
  OBVIOUS
<1>7. \A o \in Id : g[o] = IF o = x THEN y ELSE m.zone[o]
  <2> PICK s : s = m.zone
    OBVIOUS
  <2>1. Store(s) /\ x \in Id /\ Formed(y)
    BY <1>3, <1>4, <1>5 DEF IsMemory
  <2>2. /\ Store([s EXCEPT ![x] = y])
        /\ \A o \in Id : [s EXCEPT ![x] = y][o] = IF o = x THEN y ELSE s[o]
    BY <2>1, StoreWrite
  <2> QED
    BY <1>6, <2>2
<1>8. \A o \in Id : e[o] = IF o = x THEN z ELSE m.zone[o]
  <2> PICK s : s = m.zone
    OBVIOUS
  <2>1. Store(s) /\ x \in Id /\ Formed(z)
    BY <1>3, <1>4, <1>5 DEF IsMemory
  <2>2. /\ Store([s EXCEPT ![x] = z])
        /\ \A o \in Id : [s EXCEPT ![x] = z][o] = IF o = x THEN z ELSE s[o]
    BY <2>1, StoreWrite
  <2>3. e = [m.zone EXCEPT ![x] = z]
    BY <1>3
  <2> QED
    BY <2>2, <2>3
<1>9. /\ Plan(g, V, q) /\ Held(g, V) /\ Tally(m.st, g, V) /\ Here(g, at)
  <2>1. g[x] = y /\ e[x] = z /\ \A o \in V \ {x} : g[o] = e[o]
    BY <1>4, <1>7, <1>8
  <2>2. \A i, c : Pt(y, i, c) <=> Pt(z, i, c)
    BY <1>3, <1>5 DEF Pt
  <2>3. /\ x \in V /\ Plan(e, V, q) /\ \A o \in V \ {x} : g[o] = e[o]
        /\ g[x].type = e[x].type /\ g[x].parent = e[x].parent
        /\ \A i, c : Pt(g[x], i, c) <=> Pt(e[x], i, c)
    BY <1>3, <1>5, <2>1, <2>2
  <2>4. /\ Plan(g, V, q)
        /\ Held(e, V) => Held(g, V)
        /\ \A st : Tally(st, e, V) => Tally(st, g, V)
        /\ \A w : Here(e, w) => Here(g, w)
    BY <2>3, Alike
  <2> QED
    BY <1>3, <2>4
<1>10. PICK w : w = write_zone(m, x, y)
  OBVIOUS
<1>11. IsMemory(w) /\ Logged(d, w) /\ w.zone = g /\ w.st = m.st
  <2>1. IsMemory(m) /\ Logged(d, m) /\ x \in Id /\ Formed(y)
    BY <1>3, <1>4, <1>5
  <2>2. Plan(g, V, q)
    BY <1>9
  <2> QED
    BY <1>6, <1>10, <2>1, <2>2, LogWrite
<1>12. Sound(d, w, at)
  BY <1>9, <1>11 DEF Sound, Whole
<1> QED
  BY <1>2, <1>10, <1>12

\* What add_data computes, zone by zone.
Growing(m, x, k, f) ==
  /\ f[0] = [m |-> m, inode |-> m.zone[x], full |-> FALSE]
  /\ \A i \in 1 .. k : f[i] = add_zone(f[i - 1])
  /\ add_data(m, x, k) =
       write_zone(f[k].m, x,
         IF f[k].full THEN f[k].inode
         ELSE [f[k].inode EXCEPT !.size = 1 + Len(f[k].inode.ptrs)])

\* The recursion of add_data is well founded.
LEMMA ZonesAdded ==
  ASSUME NEW m, NEW x, NEW k \in Nat
  PROVE  \E f : Growing(m, x, k, f)
<1> DEFINE first == [m |-> m, inode |-> m.zone[x], full |-> FALSE]
           Rec(f, n) == f = [i \in 0 .. n |-> IF i = 0 THEN first ELSE add_zone(f[i - 1])]
           Has == {n \in Nat : \E f : Rec(f, n)}
<1>1. 0 \in Has
  <2> DEFINE f == [i \in 0 .. 0 |-> first]
  <2>1. Rec(f, 0)
    OBVIOUS
  <2> QED
    BY <2>1
<1>2. ASSUME NEW n \in Nat, n \in Has
      PROVE  n + 1 \in Has
  <2> HIDE DEF first
  <2>1. PICK f : Rec(f, n)
    BY <1>2
  <2> DEFINE g == [i \in 0 .. n + 1 |-> IF i <= n THEN f[i] ELSE add_zone(f[n])]
  <2>2. ASSUME NEW i \in 0 .. n + 1
        PROVE  g[i] = IF i = 0 THEN first ELSE add_zone(g[i - 1])
    <3>1. CASE i = 0
      BY <2>1, <3>1
    <3>2. CASE i \in 1 .. n
      BY <2>1, <3>2
    <3>3. CASE i = n + 1
      BY <2>1, <3>3
    <3> QED
      BY <3>1, <3>2, <3>3
  <2>3. Rec(g, n + 1)
    <3> HIDE DEF g
    <3>1. g = [i \in 0 .. n + 1 |-> g[i]]
      BY DEF g
    <3> QED
      BY <2>2, <3>1
  <2>4. \E h : Rec(h, n + 1)
    <3> HIDE DEF g
    <3> QED
      BY <2>3
  <2> QED
    BY <2>4
<1>3. k \in Has
  <2> HIDE DEF Has
  <2> QED
    BY <1>1, <1>2, Induct
<1> DEFINE f == CHOOSE f : f = [i \in 0 .. k |-> IF i = 0 THEN first ELSE add_zone(f[i - 1])]
<1>4. f = [i \in 0 .. k |-> IF i = 0 THEN first ELSE add_zone(f[i - 1])]
  <2>1. PICK h : Rec(h, k)
    BY <1>3
  <2> HIDE DEF first
  <2> QED
    BY <2>1
<1>5. add_data(m, x, k) =
        write_zone(f[k].m, x, IF f[k].full THEN f[k].inode
                              ELSE [f[k].inode EXCEPT !.size = 1 + Len(f[k].inode.ptrs)])
  BY DEF add_data
<1> HIDE DEF f, first
<1>6. f[0] = first
  BY <1>4
<1>7. \A i \in 1 .. k : f[i] = add_zone(f[i - 1])
  BY <1>4
<1> QED
  BY <1>5, <1>6, <1>7 DEF first, Growing

\* add_data: the file grows by its zones.
LEMMA AddDataKeeps ==
  ASSUME NEW d, NEW m, NEW at, Sound(d, m, at), NEW U, NEW r,
         Plan(m.zone, U, r), Held(m.zone, U), Tally(m.st, m.zone, U),
         NEW x \in U, m.zone[x].type = "inode", NEW k \in Nat
  PROVE  Sound(d, add_data(m, x, k), at)
<1>0. PICK f : Growing(m, x, k, f)
  BY ZonesAdded
<1>1. /\ f[0] = [m |-> m, inode |-> m.zone[x], full |-> FALSE]
      /\ \A i \in 1 .. k : f[i] = add_zone(f[i - 1])
      /\ add_data(m, x, k) =
           write_zone(f[k].m, x,
             IF f[k].full THEN f[k].inode
             ELSE [f[k].inode EXCEPT !.size = 1 + Len(f[k].inode.ptrs)])
  BY <1>0 DEF Growing
<1>2. Grown(d, x, at, f[0])
  <2>1. f[0].m = m /\ f[0].inode = m.zone[x]
    BY <1>1
  <2>2. x \in Id
    BY DEF Plan
  <2>3. IsMemory(m) /\ Logged(d, m) /\ Here(m.zone, at) /\ Formed(m.zone[x])
    BY <2>2 DEF Sound, IsMemory, Store
  <2>4. PICK st : st = m.zone
    OBVIOUS
  <2>5. st = [st EXCEPT ![x] = st[x]]
    <3>1. st = [i \in Id |-> st[i]]
      BY <2>3, <2>4 DEF IsMemory, Store
    <3> QED
      BY <2>2, <3>1
  <2>6. m.zone = [m.zone EXCEPT ![x] = m.zone[x]]
    BY <2>4, <2>5
  <2>7. Growth(d, x, at, f[0], m.zone, U, r, U, r)
    BY <2>1, <2>3, <2>6 DEF Growth
  <2> QED
    BY <2>7 DEF Grown
<1>3. Grown(d, x, at, f[k])
  <2> DEFINE T == {i \in 0 .. k : Grown(d, x, at, f[i])}
  <2>1. 0 \in T
    BY <1>2
  <2>2. \A i \in 0 .. k - 1 : i \in T => i + 1 \in T
    <3> SUFFICES ASSUME NEW i \in 0 .. k - 1, Grown(d, x, at, f[i])
                 PROVE  Grown(d, x, at, f[i + 1])
      OBVIOUS
    <3>1. Grown(d, x, at, add_zone(f[i]))
      BY AddZone
    <3>2. i + 1 \in 1 .. k /\ (i + 1) - 1 = i
      OBVIOUS
    <3> QED
      BY <1>1, <3>1, <3>2
  <2>3. 0 .. k \subseteq T
    <3> HIDE DEF T
    <3> QED
      BY <2>1, <2>2, InductTo
  <2> QED
    BY <2>3
<1>4. PICK a : a = f[k]
  OBVIOUS
<1>5. Formed(a.inode) /\ a.inode.type = "inode" /\ Grown(d, x, at, a)
  BY <1>3, <1>4 DEF Grown, Growth
<1>6. a.inode = InodeOf(a.inode.parent, a.inode.size, a.inode.ptrs)
  BY <1>5, FormedIs
<1>7. \A n : [a.inode EXCEPT !.size = n] = InodeOf(a.inode.parent, n, a.inode.ptrs)
  BY <1>5, InodeParts
<1>8. \E n : add_data(m, x, k) = write_zone(a.m, x, InodeOf(a.inode.parent, n, a.inode.ptrs))
  <2>1. CASE a.full
    BY <1>1, <1>4, <1>6, <2>1
  <2>2. CASE ~a.full
    BY <1>1, <1>4, <1>7, <2>2
  <2> QED
    BY <2>1, <2>2
<1>9. PICK n, y : /\ y = InodeOf(a.inode.parent, n, a.inode.ptrs)
                  /\ add_data(m, x, k) = write_zone(a.m, x, y)
  BY <1>8
<1>10. Sound(d, write_zone(a.m, x, y), at)
  BY <1>5, <1>9, AddEnd
<1> QED
  BY <1>9, <1>10

\* append: a path to a file, or refused.
LEMMA AppendKeeps ==
  ASSUME NEW d, NEW m, Sound(d, m, pwd), NEW p \in Path, NEW k \in Nat,
         NEW res, res = append(m, p, k)
  PROVE  res = Refused(m) \/ (res.ans = "0" /\ Sound(d, res.m, pwd))
<1>1. PICK way : way = get_path(m, p).at
  OBVIOUS
<1>2. CASE way = NONE \/ get_state(m.st, Last(way)) # I_OCCUPIED
  BY <1>1, <1>2 DEF append
<1>3. CASE way # NONE /\ get_state(m.st, Last(way)) = I_OCCUPIED
  <2>1. IsMemory(m) /\ Store(m.zone) /\ Here(m.zone, pwd)
    BY DEF Sound, IsMemory
  <2>2. PICK U, r : Plan(m.zone, U, r) /\ Held(m.zone, U) /\ Tally(m.st, m.zone, U)
    BY DEF Sound, Whole
  <2>3. Way(m.zone, way)
    BY <1>1, <1>3, <2>1, <2>2, PathLeads
  <2>4. PICK x : x = Last(way)
    OBVIOUS
  <2>5. x \in U /\ x \in Id /\ ~(x < Root)
    <3>1. x \in U
      BY <2>2, <2>3, <2>4, WayIn
    <3>2. x \in Id
      BY <2>2, <3>1 DEF Plan
    <3> QED
      BY <3>1, <3>2, Limits
  <2>6. m.zone[x].type = "inode"
    <3>1. m.st[x] = I_OCCUPIED /\ m.zone[x].type \in {"dentry", "inode", "data"}
      BY <1>3, <2>2, <2>4, <2>5 DEF get_state, Plan
    <3> QED
      BY <2>2, <2>5, <3>1 DEF Tally, D_OCCUPIED, I_OCCUPIED, F_OCCUPIED
  <2>7. Sound(d, add_data(m, x, k), pwd)
    BY <2>2, <2>5, <2>6, AddDataKeeps
  <2>8. res = Done(add_data(m, x, k))
    BY <1>1, <1>3, <2>4 DEF append
  <2> QED
    BY <2>7, <2>8 DEF Done
<1> QED
  BY <1>2, <1>3

\* p ends in a name that leads to way from its directory at.
FileAt(m, p, way, at) ==
  /\ Dotted(p) /\ Last(p.comps) \notin {".", ".."}
  /\ get_path(m, p).left = p
  /\ way[Len(way) - 1] = Last(at)

\* A path to a file ends in a name; its directory has the file's entry.
LEMMA FileName ==
  ASSUME NEW m, NEW m2, NEW U, NEW r, Store(m.zone), Plan(m.zone, U, r), Tally(m.st, m.zone, U),
         Here(m.zone, pwd), NEW p \in Path, p.comps # <<>> => Dotted(p),
         NEW way, way = get_path(m, p).at, way # NONE, m.zone[Last(way)].type = "inode",
         NEW at, at = get_path(m2, DirOf(p)).at
  PROVE  FileAt(m, p, way, at)
<1>1. p.comps # <<>>
  <2> SUFFICES ASSUME p.comps = <<>>
               PROVE  FALSE
    OBVIOUS
  <2>1. Len(p.comps) = 0
    OBVIOUS
  <2>2. PICK f : Trail(m, p, f) /\ get_path(m, p).at = f[0].at
    BY <2>1, TrailIs
  <2>3. Here(m.zone, f[0].at)
    BY <2>1, <2>2, TrailStart
  <2> QED
    BY <2>2, <2>3 DEF Here
<1>2. Dotted(p)
  BY <1>1
<1>3. LastStep(m.zone, m, m2, p)
  BY <1>2, DotPath
<1>4. PICK cut, acc, pos, b :
        /\ at = NONE \/ Here(m.zone, at)
        /\ cut = 0 /\ acc = [at |-> at, cut |-> cut]
        /\ b = PathStep(m, acc, Last(p.comps), FALSE, pos)
        /\ get_path(m, p).at = b.at /\ get_path(m, p).left = LeftOf(p, b.cut)
  BY <1>3 DEF LastStep
<1>5. PICK name : name = Last(p.comps)
  OBVIOUS
<1>6. name \notin {".", ".."} /\ at # NONE
  <2> SUFFICES ASSUME name \in {".", ".."} \/ at = NONE
               PROVE  FALSE
    BY <1>5
  <2>1. b = [at |-> DotAt(at, name), cut |-> cut]
    <3>1. PICK more : more = FALSE
      OBVIOUS
    <3>2. acc = [at |-> at, cut |-> cut] /\ b = PathStep(m, acc, name, more, pos)
      BY <1>4, <1>5, <3>1
    <3> QED
      BY <3>2, StepDot
  <2>2. way = DotAt(at, name)
    <3>1. way = b.at
      BY <1>4
    <3> QED
      BY <2>1, <3>1
  <2>3. at # NONE
    BY <2>2 DEF DotAt
  <2>4. Here(m.zone, at) /\ Way(m.zone, at)
    BY <1>4, <2>3 DEF Here
  <2>5. DotAt(at, name) = NONE \/ Here(m.zone, DotAt(at, name))
    BY <2>3, <2>4, DotHere
  <2> QED
    BY <2>2, <2>5 DEF Here
<1>7. name # NoEntry.name
  <2>1. Len(p.comps) \in Nat \ {0} /\ IsSeq(p.comps)
    BY <1>1, PathIs, DirIs
  <2>2. Len(p.comps) \in 1 .. Len(p.comps)
    BY <2>1
  <2>3. name = p.comps[Len(p.comps)]
    BY <1>5 DEF Last
  <2> QED
    BY <2>2, <2>3, PathIs
<1>8. Stepped(m, at, cut, name, FALSE, b)
  <2>1. Way(m.zone, at)
    BY <1>4, <1>6 DEF Here
  <2> QED
    BY <1>4, <1>5, <1>6, <1>7, <2>1, StepTo
<1>9. b.cut = 0 /\ Named(m.zone, at, name, way)
  BY <1>4, <1>8 DEF Stepped
<1>10. get_path(m, p).left = p
  BY <1>4, <1>9 DEF LeftOf
<1>11. way[Len(way) - 1] = Last(at)
  <2>1. PICK i \in Subs : /\ m.zone[Last(at)].subs[i].id \in Id
                          /\ way = Append(at, m.zone[Last(at)].subs[i].id)
    BY <1>9 DEF Named
  <2>2. at \in Seq(Id) /\ Len(at) >= 1 /\ Len(at) \in Nat
    BY <1>4, <1>6 DEF Here, Way
  <2>3. Len(way) = Len(at) + 1 /\ way[Len(at)] = at[Len(at)]
    BY SMTT(30), <2>1, <2>2
  <2> QED
    BY <2>2, <2>3 DEF Last
<1> QED
  BY <1>2, <1>5, <1>6, <1>10, <1>11 DEF FileAt

\* wrt of a new file, or of a file in its place.
LEMMA WriteKeeps ==
  ASSUME NEW d, NEW m, Sound(d, m, pwd), NEW p \in Path, p.comps # <<>> => Dotted(p),
         Creates(m, p), NEW way, way = get_path(m, p).at,
         way # NONE => m.zone[Last(way)].type = "inode",
         NEW k \in Nat, NEW lost, NEW res, res = wrt(m, p, k, lost)
  PROVE  Sound(d, res.m, pwd) /\ res.ans \in {"0", "4"}
<1>1. IsMemory(m) /\ Store(m.zone) /\ Here(m.zone, pwd)
  BY DEF Sound, IsMemory
<1>2. PICK U, r : Plan(m.zone, U, r) /\ Held(m.zone, U) /\ Tally(m.st, m.zone, U)
  BY DEF Sound, Whole
<1>3. PICK left, gone, made :
        /\ left = get_path(m, p).left
        /\ gone = IF way = NONE THEN m ELSE rm_file(m, left, lost).m
        /\ made = mk_file(gone, p)
  OBVIOUS
<1>4. Refused(m).m = m /\ Refused(m).ans = "4"
  BY DEF Refused
<1>5. CASE way # NONE /\ get_state(m.st, Last(way)) # I_OCCUPIED
  <2>1. res = Refused(m)
    BY <1>5 DEF wrt
  <2> QED
    BY <1>4, <2>1
<1>6. CASE ~(way # NONE /\ get_state(m.st, Last(way)) # I_OCCUPIED)
  <2>1. res = IF made.ans = "4" THEN made ELSE append(made.m, left, k)
    BY <1>3, <1>6 DEF wrt
  <2>2. left = p /\ Sound(d, gone, pwd) /\ Creates(gone, p)
    <3>1. CASE way = NONE
      <4>1. gone = m /\ Dotted(p) /\ Last(p.comps) \notin {".", ".."}
        BY <1>3, <3>1 DEF Creates
      <4>2. PICK at : at = get_path(m, DirOf(p)).at
        OBVIOUS
      <4>3. NoName(m, p, at)
        BY <1>1, <1>2, <3>1, <4>1, <4>2, NoSuchName
      <4> QED
        BY <1>3, <4>1, <4>3 DEF NoName
    <3>2. CASE way # NONE
      <4>1. PICK at, h, x : at = get_path(gone, DirOf(p)).at /\ h = way[Len(way) - 1] /\ x = Last(way)
        OBVIOUS
      <4>2. m.zone[Last(way)].type = "inode"
        BY <3>2
      <4>3. /\ Dotted(p) /\ Last(p.comps) \notin {".", ".."}
            /\ get_path(m, p).left = p /\ way[Len(way) - 1] = Last(at)
        <5>1. at = get_path(gone, DirOf(p)).at
          BY <4>1
        <5>2. Store(m.zone) /\ Plan(m.zone, U, r) /\ Tally(m.st, m.zone, U) /\ Here(m.zone, pwd)
          BY <1>1, <1>2
        <5>3. FileAt(m, p, way, at)
          BY <3>2, <4>2, <5>1, <5>2, FileName
        <5> QED
          BY <5>3 DEF FileAt
      <4>4. PICK cut : cut = rm_file(m, p, lost)
        OBVIOUS
      <4>5. gone = cut.m
        BY <1>3, <3>2, <4>3, <4>4
      <4>6. Removed(d, cut.m, pwd, way[Len(way) - 1])
        BY <3>2, <4>4, RmFileKeeps
      <4>7. Sound(d, gone, pwd) /\ Room(gone.zone[Last(at)])
        BY <4>3, <4>5, <4>6 DEF Removed
      <4>8. Creates(gone, p)
        BY <4>1, <4>3, <4>7 DEF Creates
      <4> QED
        BY <1>3, <4>3, <4>7, <4>8
    <3> QED
      BY <3>1, <3>2
  <2>3. made = make(gone, p, I_OCCUPIED)
    BY <1>3 DEF mk_file
  <2>4. Sound(d, made.m, pwd) /\ made.ans \in {"0", "4"}
    <3>1. PICK state : state = I_OCCUPIED
      OBVIOUS
    <3>2. state \in {I_OCCUPIED, D_OCCUPIED} /\ made = make(gone, p, state)
      BY <2>3, <3>1
    <3>3. Sound(d, made.m, pwd) /\ (made.ans = "0" \/ (made.ans = "4" /\ made.m = gone))
      BY <2>2, <3>2, MakeKeeps
    <3> QED
      BY <3>3
  <2>5. PICK n, out : n = made.m /\ out = append(n, p, k)
    OBVIOUS
  <2>6. out = Refused(n) \/ (out.ans = "0" /\ Sound(d, out.m, pwd))
    <3>1. Sound(d, n, pwd)
      BY <2>4, <2>5
    <3> QED
      BY <2>5, <3>1, AppendKeeps
  <2>7. Sound(d, out.m, pwd) /\ out.ans \in {"0", "4"}
    BY <2>4, <2>5, <2>6 DEF Refused
  <2>8. res = made \/ res = out
    BY <2>1, <2>2, <2>5
  <2> QED
    BY <2>4, <2>7, <2>8
<1> QED
  BY <1>5, <1>6

-----------------------------------------------------------------------------
(* Ways and the names along them.                                           *)

\* s is a way on disk d, and w are the names along it.
Spelled(d, s, w) ==
  /\ s \in Seq(Id) /\ w \in Seq(STRING) /\ Len(s) = Len(w) + 1 /\ s[1] = Root
  /\ \A k \in 1 .. Len(w) : Ent(d[s[k]], w[k], s[k + 1])

KindOf(z) == IF z.type = "inode" THEN "file" ELSE "dir"

\* The files and directories of disk d, by their names.
TreeOf(d) ==
  {n \in [at : Seq(STRING), kind : {"dir", "file"}] :
     n.at # <<>> /\ \E s : Spelled(d, s, n.at) /\ n.kind = KindOf(d[Last(s)])}

\* A sequence less the last of it.
LEMMA FrontOf ==
  ASSUME NEW s, IsSeq(s), NEW e
  PROVE  Front(Append(s, e)) = s /\ Append(s, e) # <<>>
<1>1. PICK S : s \in Seq(S)
  BY DEF IsSeq
<1>2. PICK n, t : n = Len(s) /\ t = Append(s, e)
  OBVIOUS
<1>3. n \in Nat /\ Len(t) = n + 1 /\ s = [k \in 1 .. n |-> s[k]] /\ t \in Seq(S \cup {e})
      /\ \A k \in 1 .. n : t[k] = s[k]
  BY <1>1, <1>2
<1>4. SubSeq(t, 1, n) = [k \in 1 .. n |-> t[k]]
  BY <1>3
<1>5. Front(t) = SubSeq(t, 1, n)
  BY <1>3 DEF Front
<1>6. Front(t) = s
  BY <1>3, <1>4, <1>5
<1>7. t # <<>>
  BY <1>3
<1> QED
  BY <1>2, <1>6, <1>7

\* A sequence and all of it but the last.
LEMMA FrontParts ==
  ASSUME NEW S, NEW s \in Seq(S), s # <<>>
  PROVE  /\ Front(s) \in Seq(S) /\ Last(s) \in S /\ Last(s) = s[Len(s)]
         /\ Len(s) \in Nat \ {0} /\ Len(Front(s)) = Len(s) - 1
         /\ \A k \in 1 .. Len(s) - 1 : Front(s)[k] = s[k]
         /\ s = Append(Front(s), Last(s))
<1>1. Len(s) \in Nat \ {0} /\ Front(s) = SubSeq(s, 1, Len(s) - 1) /\ Last(s) = s[Len(s)]
  BY DEF Front, Last
<1>2. PICK n \in Nat : n = Len(s) - 1
  BY <1>1
<1>3. /\ Front(s) \in Seq(S) /\ Len(Front(s)) = n
      /\ \A k \in 1 .. n : Front(s)[k] = s[k]
  BY <1>1, <1>2
<1>4. Last(s) \in S
  BY <1>1
<1>5. s = Append(Front(s), Last(s))
  <2>1. PICK t : t = Append(Front(s), Last(s))
    OBVIOUS
  <2>2. t \in Seq(S) /\ Len(t) = n + 1 /\ (\A k \in 1 .. n : t[k] = s[k]) /\ t[n + 1] = Last(s)
    BY <1>3, <1>4, <2>1
  <2>3. \A k \in 1 .. Len(s) : t[k] = s[k]
    BY <1>1, <1>2, <2>2
  <2>4. Len(t) = Len(s)
    BY <1>2, <1>1, <2>2
  <2> QED
    BY <2>1, <2>2, <2>3, <2>4
<1> QED
  BY <1>1, <1>2, <1>3, <1>4, <1>5

\* One longer.
LEMMA AppendParts ==
  ASSUME NEW S, NEW s \in Seq(S), NEW e \in S
  PROVE  /\ Append(s, e) \in Seq(S) /\ Len(Append(s, e)) = Len(s) + 1 /\ Len(s) \in Nat
         /\ \A k \in 1 .. Len(s) : Append(s, e)[k] = s[k]
         /\ Append(s, e)[Len(s) + 1] = e /\ Last(Append(s, e)) = e /\ Append(s, e) # <<>>
         /\ Front(Append(s, e)) = s
<1>1. PICK t : t = Append(s, e)
  OBVIOUS
<1>2. /\ t \in Seq(S) /\ Len(t) = Len(s) + 1 /\ Len(s) \in Nat
      /\ (\A k \in 1 .. Len(s) : t[k] = s[k]) /\ t[Len(s) + 1] = e
  BY <1>1
<1>3. Last(t) = e /\ t # <<>>
  BY <1>2 DEF Last
<1>4. Front(t) = s /\ t # <<>>
  BY <1>1, FrontOf DEF IsSeq
<1> QED
  BY <1>1, <1>2, <1>3, <1>4

\* An entry is a pointer, and its name a string.
LEMMA EntIs ==
  ASSUME NEW z, Formed(z)
  PROVE  /\ \A n, c : Ent(z, n, c) => /\ z.type = "dentry" /\ c \in Id /\ n \in STRING
                                      /\ \E i \in Subs : Pt(z, i, c) /\ z.subs[i].name = n
         /\ \A i, c : z.type = "dentry" /\ Pt(z, i, c) =>
              i \in Subs /\ Ent(z, z.subs[i].name, c) /\ z.subs[i].name \in STRING
         /\ \A n, c, b : Ent(z, n, c) /\ Ent(z, n, b) => c = b
<1>1. CASE z.type = "dentry"
  <2>1. IsSubs(z.subs)
    BY <1>1, FormedIs
  <2>2. \A i, c : Pt(z, i, c) <=> i \in Subs /\ z.subs[i].id = c /\ c # 0
    BY <1>1, Points
  <2>3. \A i \in Subs : /\ z.subs[i].id \in {0} \cup Id
                        /\ z.subs[i].id # 0 => z.subs[i].name \in STRING
    BY <2>1 DEF IsSubs
  <2>4. \A i, j \in Subs : z.subs[i].name = z.subs[j].name /\ z.subs[i].id # 0 /\ z.subs[j].id # 0
                             => i = j
    BY <2>1 DEF IsSubs
  <2> QED
    BY <1>1, <2>2, <2>3, <2>4 DEF Ent
<1>2. CASE z.type # "dentry"
  BY <1>2 DEF Ent
<1> QED
  BY <1>1, <1>2

\* Names spell a way.
LEMMA SpelledWay ==
  ASSUME NEW d, Store(d), NEW s, NEW w, Spelled(d, s, w)
  PROVE  /\ Way(d, s) /\ Len(w) \in Nat /\ Len(s) = Len(w) + 1 /\ s # <<>>
         /\ \A k \in 1 .. Len(s) : s[k] \in Id
<1>1. /\ s \in Seq(Id) /\ w \in Seq(STRING) /\ Len(s) = Len(w) + 1 /\ s[1] = Root
      /\ \A k \in 1 .. Len(w) : Ent(d[s[k]], w[k], s[k + 1])
  BY DEF Spelled
<1>2. Len(w) \in Nat /\ Len(s) >= 1 /\ s # <<>> /\ \A k \in 1 .. Len(s) : s[k] \in Id
  BY <1>1
<1>3. ASSUME NEW k \in 2 .. Len(s)
      PROVE  d[s[k - 1]].type = "dentry" /\ \E i : Pt(d[s[k - 1]], i, s[k])
  <2>1. k - 1 \in 1 .. Len(w) /\ (k - 1) + 1 = k /\ k - 1 \in 1 .. Len(s)
    BY <1>1, <1>2
  <2>2. Ent(d[s[k - 1]], w[k - 1], s[k])
    BY <1>1, <2>1
  <2>3. Formed(d[s[k - 1]])
    BY <1>2, <2>1 DEF Store
  <2> QED
    BY <2>2, <2>3, EntIs
<1> QED
  BY <1>1, <1>2, <1>3 DEF Way

\* A way is spelled by names.
LEMMA WaySpelled ==
  ASSUME NEW d, Store(d), NEW s, Way(d, s)
  PROVE  \E w : Spelled(d, s, w)
<1>1. /\ s \in Seq(Id) /\ Len(s) >= 1 /\ s[1] = Root
      /\ \A k \in 2 .. Len(s) :
           d[s[k - 1]].type = "dentry" /\ \E i : Pt(d[s[k - 1]], i, s[k])
  BY DEF Way
<1>2. PICK n \in Nat : Len(s) = n + 1
  <2>1. Len(s) - 1 \in Nat /\ Len(s) = (Len(s) - 1) + 1
    BY <1>1
  <2> QED
    BY <2>1
<1>3. ASSUME NEW k \in 1 .. n
      PROVE  \E v \in STRING : Ent(d[s[k]], v, s[k + 1])
  <2>1. k + 1 \in 2 .. Len(s) /\ (k + 1) - 1 = k /\ k \in 1 .. Len(s)
    BY <1>2
  <2>2. d[s[k]].type = "dentry" /\ \E i : Pt(d[s[k]], i, s[k + 1])
    BY <1>1, <2>1
  <2>3. Formed(d[s[k]])
    BY <1>1, <2>1 DEF Store
  <2>4. PICK i : Pt(d[s[k]], i, s[k + 1])
    BY <2>2
  <2>5. PICK v : v = d[s[k]].subs[i].name
    OBVIOUS
  <2>6. v \in STRING /\ Ent(d[s[k]], v, s[k + 1])
    BY <2>2, <2>3, <2>4, <2>5, EntIs
  <2> QED
    BY <2>6
<1> DEFINE w == [k \in 1 .. n |-> CHOOSE v \in STRING : Ent(d[s[k]], v, s[k + 1])]
<1>4. \A k \in 1 .. n : w[k] \in STRING /\ Ent(d[s[k]], w[k], s[k + 1])
  BY <1>3
<1>5. w \in Seq(STRING) /\ Len(w) = n
  BY <1>4
<1> HIDE DEF w
<1> QED
  BY <1>1, <1>2, <1>4, <1>5 DEF Spelled

\* A way has one spelling.
LEMMA OneSpelling ==
  ASSUME NEW d, NEW U, NEW r, Store(d), Plan(d, U, r), NEW s, NEW w, Spelled(d, s, w),
         NEW v, Spelled(d, s, v)
  PROVE  w = v
<1>1. /\ w \in Seq(STRING) /\ v \in Seq(STRING) /\ Len(w) = Len(v)
      /\ \A k \in 1 .. Len(w) : Ent(d[s[k]], w[k], s[k + 1]) /\ Ent(d[s[k]], v[k], s[k + 1])
  <2>1. /\ w \in Seq(STRING) /\ Len(s) = Len(w) + 1 /\ v \in Seq(STRING) /\ Len(s) = Len(v) + 1
        /\ \A k \in 1 .. Len(w) : Ent(d[s[k]], w[k], s[k + 1])
        /\ \A k \in 1 .. Len(v) : Ent(d[s[k]], v[k], s[k + 1])
    BY DEF Spelled
  <2>2. Len(w) \in Nat /\ Len(v) \in Nat
    BY <2>1
  <2>3. Len(w) = Len(v)
    BY <2>1, <2>2
  <2> QED
    BY <2>1, <2>3
<1>2. Way(d, s) /\ Len(w) \in Nat /\ Len(s) = Len(w) + 1
  BY SpelledWay
<1>3. ASSUME NEW k \in 1 .. Len(w)
      PROVE  w[k] = v[k]
  <2>1. PICK x, c : x = s[k] /\ c = s[k + 1]
    OBVIOUS
  <2>2. k \in 1 .. Len(s)
    BY <1>2
  <2>3. x \in U /\ Formed(d[x])
    BY <1>2, <2>1, <2>2, WayIn DEF Plan, Store
  <2>4. Ent(d[x], w[k], c) /\ Ent(d[x], v[k], c)
    BY <1>1, <2>1
  <2>5. PICK i \in Subs : Pt(d[x], i, c) /\ d[x].subs[i].name = w[k]
    BY <2>3, <2>4, EntIs
  <2>6. PICK j \in Subs : Pt(d[x], j, c) /\ d[x].subs[j].name = v[k]
    BY <2>3, <2>4, EntIs
  <2>7. i = j
    BY <2>3, <2>5, <2>6 DEF Plan
  <2> QED
    BY <2>5, <2>6, <2>7
<1> QED
  BY <1>1, <1>3

\* A zone is at the end of one way.
LEMMA OneWay ==
  ASSUME NEW d, NEW U, NEW r, Plan(d, U, r), NEW s, Way(d, s), NEW t, Way(d, t),
         Last(s) = Last(t)
  PROVE  s = t
<1>1. /\ s \in Seq(Id) /\ Len(s) >= 1 /\ s[1] = Root /\ t \in Seq(Id) /\ Len(t) >= 1
      /\ \A k \in 2 .. Len(s) : \E i : Pt(d[s[k - 1]], i, s[k])
      /\ \A k \in 2 .. Len(t) : \E i : Pt(d[t[k - 1]], i, t[k])
  BY DEF Way
<1>2. /\ Len(s) \in Nat /\ \A k \in 1 .. Len(s) : s[k] \in U /\ r[s[k]] = k - 1
      /\ Len(t) \in Nat /\ \A k \in 1 .. Len(t) : t[k] \in U /\ r[t[k]] = k - 1
  BY WayIn
<1>3. PICK n \in Nat : n = Len(s) /\ n = Len(t)
  <2>1. Len(s) \in 1 .. Len(s) /\ Len(t) \in 1 .. Len(t) /\ s[Len(s)] = t[Len(t)]
    BY <1>1, <1>2 DEF Last
  <2>2. r[s[Len(s)]] = Len(s) - 1 /\ r[t[Len(t)]] = Len(t) - 1
    BY <1>2, <2>1
  <2> QED
    BY <1>2, <2>1, <2>2
<1> DEFINE S == {k \in Nat : k < n => s[n - k] = t[n - k]}
<1>4. 0 \in S
  BY <1>3 DEF Last
<1>5. ASSUME NEW k \in Nat, k \in S
      PROVE  k + 1 \in S
  <2> SUFFICES ASSUME k + 1 < n
               PROVE  s[n - (k + 1)] = t[n - (k + 1)]
    OBVIOUS
  <2>1. s[n - k] = t[n - k]
    BY <1>3, <1>5
  <2>2. PICK j : j = n - k
    OBVIOUS
  <2>3. j \in 2 .. Len(s) /\ j \in 2 .. Len(t) /\ j - 1 \in 1 .. Len(s) /\ j - 1 \in 1 .. Len(t)
        /\ n - (k + 1) = j - 1
    BY <1>3, <2>2
  <2>4. PICK c : c = s[j] /\ c = t[j]
    BY <2>1, <2>2
  <2>5. PICK i : Pt(d[s[j - 1]], i, c)
    BY <1>1, <2>3, <2>4
  <2>6. PICK l : Pt(d[t[j - 1]], l, c)
    BY <1>1, <2>3, <2>4
  <2>7. s[j - 1] \in U /\ t[j - 1] \in U
    BY <1>2, <2>3
  <2>8. s[j - 1] = t[j - 1]
    BY <2>5, <2>6, <2>7 DEF Plan
  <2> QED
    BY <2>3, <2>8
<1>6. Nat \subseteq S
  <2> HIDE DEF S
  <2> QED
    BY <1>4, <1>5, Induct
<1>7. ASSUME NEW k \in 1 .. n
      PROVE  s[k] = t[k]
  <2>1. n - k \in Nat /\ n - k < n /\ n - (n - k) = k
    BY <1>3
  <2>2. n - k \in S
    <3> HIDE DEF S
    <3> QED
      BY <1>6, <2>1
  <2> QED
    BY <2>1, <2>2
<1> HIDE DEF S
<1>8. s \in Seq(Id) /\ t \in Seq(Id) /\ Len(s) = Len(t) /\ \A k \in 1 .. Len(s) : s[k] = t[k]
  BY <1>1, <1>3, <1>7
<1> QED
  BY <1>8

\* Names lead one way.
LEMMA OneTarget ==
  ASSUME NEW d, Store(d), NEW s, NEW w, Spelled(d, s, w), NEW t, Spelled(d, t, w)
  PROVE  s = t
<1>1. /\ s \in Seq(Id) /\ s[1] = Root /\ t \in Seq(Id) /\ t[1] = Root
      /\ Len(s) = Len(w) + 1 /\ Len(t) = Len(w) + 1
      /\ \A k \in 1 .. Len(w) : Ent(d[s[k]], w[k], s[k + 1])
      /\ \A k \in 1 .. Len(w) : Ent(d[t[k]], w[k], t[k + 1])
  BY DEF Spelled
<1>2. PICK n \in Nat : n = Len(w) /\ \A k \in 1 .. n + 1 : s[k] \in Id
  BY <1>1, SpelledWay
<1> DEFINE S == {k \in Nat : k <= n => s[k + 1] = t[k + 1]}
<1>3. 0 \in S
  BY <1>1
<1>4. ASSUME NEW k \in Nat, k \in S
      PROVE  k + 1 \in S
  <2> SUFFICES ASSUME k + 1 <= n
               PROVE  s[(k + 1) + 1] = t[(k + 1) + 1]
    OBVIOUS
  <2>1. k + 1 \in 1 .. Len(w) /\ s[k + 1] = t[k + 1] /\ k + 1 \in 1 .. n + 1
    BY <1>2, <1>4
  <2>2. Formed(d[s[k + 1]])
    BY <1>2, <2>1 DEF Store
  <2>3. Ent(d[s[k + 1]], w[k + 1], s[(k + 1) + 1]) /\ Ent(d[s[k + 1]], w[k + 1], t[(k + 1) + 1])
    BY <1>1, <2>1
  <2> QED
    BY <2>2, <2>3, EntIs
<1>5. Nat \subseteq S
  <2> HIDE DEF S
  <2> QED
    BY <1>3, <1>4, Induct
<1>6. ASSUME NEW k \in 1 .. n + 1
      PROVE  s[k] = t[k]
  <2>1. k - 1 \in Nat /\ k - 1 <= n /\ (k - 1) + 1 = k
    BY <1>2
  <2>2. k - 1 \in S
    <3> HIDE DEF S
    <3> QED
      BY <1>5, <2>1
  <2> QED
    BY <2>1, <2>2
<1> HIDE DEF S
<1> QED
  BY <1>1, <1>2, <1>6

\* One name more.
LEMMA SpelledFurther ==
  ASSUME NEW d, Store(d), NEW s, NEW w, Spelled(d, s, w), NEW n, NEW c, Ent(d[Last(s)], n, c)
  PROVE  /\ Spelled(d, Append(s, c), Append(w, n)) /\ Last(Append(s, c)) = c
         /\ Append(w, n) # <<>>
<1>1. /\ s \in Seq(Id) /\ w \in Seq(STRING) /\ Len(s) = Len(w) + 1 /\ s[1] = Root
      /\ \A k \in 1 .. Len(w) : Ent(d[s[k]], w[k], s[k + 1])
  BY DEF Spelled
<1>2. PICK m \in Nat : m = Len(w) /\ Len(s) = m + 1 /\ \A k \in 1 .. m + 1 : s[k] \in Id
  BY <1>1, SpelledWay
<1>3. m + 1 \in 1 .. m + 1 /\ Last(s) = s[m + 1]
  BY <1>2 DEF Last
<1>4. c \in Id /\ n \in STRING
  BY <1>2, <1>3, EntIs DEF Store
<1>5. PICK t, v : t = Append(s, c) /\ v = Append(w, n)
  OBVIOUS
<1>6. /\ t \in Seq(Id) /\ Len(t) = m + 2 /\ (\A k \in 1 .. m + 1 : t[k] = s[k]) /\ t[m + 2] = c
      /\ Last(t) = c
  BY <1>1, <1>2, <1>4, <1>5, AppendParts
<1>7. /\ v \in Seq(STRING) /\ Len(v) = m + 1 /\ (\A k \in 1 .. m : v[k] = w[k]) /\ v[m + 1] = n
      /\ v # <<>>
  BY <1>1, <1>2, <1>4, <1>5, AppendParts
<1>8. ASSUME NEW k \in 1 .. m + 1
      PROVE  Ent(d[t[k]], v[k], t[k + 1])
  <2>1. CASE k = m + 1
    BY <1>2, <1>3, <1>6, <1>7, <2>1
  <2>2. CASE k # m + 1
    <3>1. k \in 1 .. m /\ k + 1 \in 1 .. m + 1
      BY <2>2
    <3> QED
      BY <1>1, <1>2, <1>6, <1>7, <3>1
  <2> QED
    BY <2>1, <2>2
<1>9. Len(t) = Len(v) + 1 /\ t[1] = Root
  BY <1>1, <1>2, <1>6, <1>7
<1> QED
  BY <1>5, <1>6, <1>7, <1>8, <1>9 DEF Spelled

\* One name less.
LEMMA SpelledFront ==
  ASSUME NEW d, Store(d), NEW s, NEW w, Spelled(d, s, w), w # <<>>
  PROVE  /\ Spelled(d, Front(s), Front(w)) /\ Ent(d[Last(Front(s))], Last(w), Last(s))
         /\ s = Append(Front(s), Last(s)) /\ w = Append(Front(w), Last(w))
<1>1. /\ s \in Seq(Id) /\ w \in Seq(STRING) /\ Len(s) = Len(w) + 1 /\ s[1] = Root
      /\ \A k \in 1 .. Len(w) : Ent(d[s[k]], w[k], s[k + 1])
  BY DEF Spelled
<1>2. PICK m \in Nat : /\ Len(w) = m + 1 /\ Len(s) = m + 2 /\ s # <<>>
                      /\ Len(w) - 1 = m /\ Len(s) - 1 = m + 1
  <2>1. Len(w) \in Nat \ {0} /\ s # <<>>
    BY <1>1
  <2>2. Len(w) - 1 \in Nat /\ Len(w) = (Len(w) - 1) + 1 /\ Len(s) = (Len(w) - 1) + 2
        /\ Len(s) - 1 = (Len(w) - 1) + 1
    BY <1>1, <2>1
  <2> QED
    BY <2>1, <2>2
<1>3. PICK t, v : t = Front(s) /\ v = Front(w)
  OBVIOUS
<1>4. /\ t \in Seq(Id) /\ Len(t) = m + 1 /\ \A k \in 1 .. m + 1 : t[k] = s[k]
      /\ Last(s) = s[m + 2] /\ s = Append(t, Last(s))
  BY <1>1, <1>2, <1>3, FrontParts
<1>5. /\ v \in Seq(STRING) /\ Len(v) = m /\ \A k \in 1 .. m : v[k] = w[k]
      /\ Last(w) = w[m + 1] /\ w = Append(v, Last(w))
  BY <1>1, <1>2, <1>3, FrontParts
<1>6. \A k \in 1 .. m : Ent(d[t[k]], v[k], t[k + 1])
  <2>1. \A k \in 1 .. m : k \in 1 .. m + 1 /\ k + 1 \in 1 .. m + 1 /\ k \in 1 .. Len(w)
    BY <1>2
  <2> QED
    BY <1>1, <1>4, <1>5, <2>1
<1>7. Spelled(d, t, v)
  BY <1>1, <1>4, <1>5, <1>6 DEF Spelled
<1>8. Ent(d[Last(t)], Last(w), Last(s))
  <2>1. Last(t) = s[m + 1] /\ m + 1 \in 1 .. Len(w) /\ s[(m + 1) + 1] = Last(s)
    BY <1>2, <1>4 DEF Last
  <2> QED
    BY <1>1, <1>5, <2>1
<1> QED
  BY <1>3, <1>4, <1>5, <1>7, <1>8

-----------------------------------------------------------------------------
(* What a write changes of it.                                              *)

\* What is on a way by names.
LEMMA OnWay ==
  ASSUME NEW d, NEW U, NEW r, Store(d), Plan(d, U, r), NEW s, NEW w, Spelled(d, s, w)
  PROVE  /\ \A k \in 1 .. Len(w) : /\ s[k] \in U /\ s[k + 1] \in U
                                  /\ Ent(d[s[k]], w[k], s[k + 1])
         /\ Last(s) \in U /\ Last(s) \in Id
<1>1. Way(d, s) /\ Len(w) \in Nat /\ Len(s) = Len(w) + 1
  BY SpelledWay
<1>2. \A k \in 1 .. Len(s) : s[k] \in U
  BY <1>1, WayIn
<1>3. Last(s) \in U
  BY <1>1, WayIn
<1>4. \A k \in 1 .. Len(w) : k \in 1 .. Len(s) /\ k + 1 \in 1 .. Len(s)
  BY <1>1
<1>5. \A k \in 1 .. Len(w) : Ent(d[s[k]], w[k], s[k + 1])
  BY DEF Spelled
<1>6. U \subseteq Id
  BY DEF Plan
<1> QED
  BY <1>2, <1>3, <1>4, <1>5, <1>6

\* The way is there on another disk if the entries are.
LEMMA SpelledOn ==
  ASSUME NEW d, NEW e, NEW s, NEW w, Spelled(d, s, w),
         \A k \in 1 .. Len(w) : Ent(e[s[k]], w[k], s[k + 1])
  PROVE  Spelled(e, s, w)
<1> QED
  BY DEF Spelled

\* Two disks with the same directories.
AsBefore(d, e, U) ==
  \A x \in U : e[x].type = d[x].type /\ \A n, c : Ent(e[x], n, c) <=> Ent(d[x], n, c)

\* Names lead there on the one that lead there on the other.
LEMMA TreeWithin ==
  ASSUME NEW d, NEW e, NEW U, NEW r, Store(d), Plan(d, U, r), AsBefore(d, e, U)
  PROVE  /\ \A s, w : Spelled(d, s, w) => Spelled(e, s, w)
         /\ TreeOf(d) \subseteq TreeOf(e)
<1>1. ASSUME NEW s, NEW w, Spelled(d, s, w)
      PROVE  Spelled(e, s, w) /\ KindOf(e[Last(s)]) = KindOf(d[Last(s)])
  <2>1. /\ \A k \in 1 .. Len(w) : s[k] \in U /\ Ent(d[s[k]], w[k], s[k + 1])
        /\ Last(s) \in U
    BY <1>1, OnWay
  <2>2. \A k \in 1 .. Len(w) : Ent(e[s[k]], w[k], s[k + 1])
    BY <2>1 DEF AsBefore
  <2>3. Spelled(e, s, w)
    BY <1>1, <2>2, SpelledOn
  <2> QED
    BY <2>1, <2>3 DEF AsBefore, KindOf
<1> QED
  BY <1>1 DEF TreeOf

\* They show the same tree.
LEMMA TreeSame ==
  ASSUME NEW d, NEW e, NEW U, NEW r, Store(d), Plan(d, U, r), Store(e), Plan(e, U, r),
         AsBefore(d, e, U)
  PROVE  /\ TreeOf(e) = TreeOf(d)
         /\ \A s, w : Spelled(d, s, w) => Spelled(e, s, w)
<1>1. AsBefore(e, d, U)
  BY DEF AsBefore
<1>2. TreeOf(d) \subseteq TreeOf(e) /\ \A s, w : Spelled(d, s, w) => Spelled(e, s, w)
  BY TreeWithin
<1>3. TreeOf(e) \subseteq TreeOf(d)
  BY <1>1, TreeWithin
<1> QED
  BY <1>2, <1>3

\* The ways there were are there.
LEMMA WaysAdded ==
  ASSUME NEW d, NEW e, NEW U, NEW r, Store(d), Plan(d, U, r),
         NEW h \in U, NEW name, NEW new, Added(d, e, U, h, name, new),
         NEW s, NEW w, Spelled(d, s, w)
  PROVE  Spelled(e, s, w) /\ KindOf(e[Last(s)]) = KindOf(d[Last(s)])
<1>1. /\ \A k \in 1 .. Len(w) : s[k] \in U /\ Ent(d[s[k]], w[k], s[k + 1])
      /\ Last(s) \in U
  BY OnWay
<1>2. \A k \in 1 .. Len(w) : Ent(e[s[k]], w[k], s[k + 1])
  BY <1>1 DEF Added
<1>3. Spelled(e, s, w)
  BY <1>2, SpelledOn
<1>4. e[Last(s)].type = d[Last(s)].type
  BY <1>1 DEF Added
<1> QED
  BY <1>3, <1>4 DEF KindOf

\* The others lead to the new zone.
LEMMA WaysNew ==
  ASSUME NEW d, NEW e, NEW U, NEW V, NEW r, NEW q, Store(d), Plan(d, U, r), Store(e), Plan(e, V, q),
         NEW h \in U, NEW name, NEW new, new \notin U, V = U \cup {new},
         Added(d, e, U, h, name, new), NEW hs, NEW dw, Spelled(d, hs, dw), Last(hs) = h,
         NEW s, NEW w, Spelled(e, s, w), w # <<>>
  PROVE  \/ Last(s) = new /\ w = Append(dw, name)
         \/ Spelled(d, s, w) /\ KindOf(e[Last(s)]) = KindOf(d[Last(s)])
<1>1. /\ \A k \in 1 .. Len(w) : s[k] \in V /\ s[k + 1] \in V /\ Ent(e[s[k]], w[k], s[k + 1])
      /\ Last(s) \in V
  BY OnWay
<1>2. CASE Last(s) = new
  <2>1. PICK t, v, n : t = Front(s) /\ v = Front(w) /\ n = Last(w)
    OBVIOUS
  <2>2. Spelled(e, t, v) /\ Ent(e[Last(t)], n, new) /\ w = Append(v, n)
    BY <1>2, <2>1, SpelledFront
  <2>3. Last(t) \in V /\ Last(t) \in Id
    BY <2>2, OnWay
  <2>4. Ent(e[h], name, new) /\ h \in V /\ h \in Id
    BY DEF Added, Plan
  <2>5. Formed(e[h]) /\ Formed(e[Last(t)])
    BY <2>3, <2>4 DEF Store
  <2>6. PICK i : Pt(e[h], i, new)
    BY <2>4, <2>5, EntIs
  <2>7. PICK j : Pt(e[Last(t)], j, new)
    BY <2>2, <2>5, EntIs
  <2>8. Last(t) = h
    BY <2>3, <2>4, <2>6, <2>7 DEF Plan
  <2>9. ~Ent(d[h], n, new)
    <3> SUFFICES ASSUME Ent(d[h], n, new) PROVE FALSE
      OBVIOUS
    <3>1. Formed(d[h])
      BY <2>4 DEF Store
    <3>2. PICK l : Pt(d[h], l, new)
      BY <3>1, EntIs
    <3> QED
      BY <3>2 DEF Plan
  <2>10. n = name
    BY <2>2, <2>8, <2>9 DEF Added
  <2>11. Spelled(e, hs, dw)
    BY WaysAdded
  <2>12. Way(e, t) /\ Way(e, hs)
    BY <2>2, <2>11, SpelledWay
  <2>13. t = hs
    BY <2>8, <2>12, OneWay
  <2>14. v = dw
    BY <2>2, <2>11, <2>13, OneSpelling
  <2> QED
    BY <1>2, <2>2, <2>10, <2>14
<1>3. CASE Last(s) # new
  <2>1. Len(w) \in Nat /\ Len(s) = Len(w) + 1
    BY SpelledWay
  <2>2. \A k \in 1 .. Len(w) : s[k] # new
    BY <1>1 DEF Added
  <2>3. \A k \in 1 .. Len(w) : s[k + 1] # new
    <3> SUFFICES ASSUME NEW k \in 1 .. Len(w)
                 PROVE  s[k + 1] # new
      OBVIOUS
    <3>1. CASE k = Len(w)
      BY <1>3, <2>1, <3>1 DEF Last
    <3>2. CASE k # Len(w)
      BY <2>1, <2>2, <3>2
    <3> QED
      BY <3>1, <3>2
  <2>4. \A k \in 1 .. Len(w) : s[k] \in U /\ s[k + 1] # new
    BY <1>1, <2>2, <2>3
  <2>5. \A k \in 1 .. Len(w) : Ent(d[s[k]], w[k], s[k + 1])
    BY <1>1, <2>4 DEF Added
  <2>6. Spelled(d, s, w)
    BY <2>5, SpelledOn
  <2>7. Last(s) \in U
    BY <1>1, <1>3
  <2>8. e[Last(s)].type = d[Last(s)].type
    BY <2>7 DEF Added
  <2> QED
    BY <2>6, <2>8 DEF KindOf
<1> QED
  BY <1>2, <1>3

\* The tree has one node more.
LEMMA TreeAdd ==
  ASSUME NEW d, NEW e, NEW U, NEW V, NEW r, NEW q, Store(d), Plan(d, U, r), Store(e), Plan(e, V, q),
         NEW h \in U, NEW name, NEW new, new \notin U, V = U \cup {new},
         Added(d, e, U, h, name, new), NEW hs, NEW dw, Spelled(d, hs, dw), Last(hs) = h
  PROVE  TreeOf(e) = TreeOf(d) \cup {[at |-> Append(dw, name), kind |-> KindOf(e[new])]}
<1>1. PICK x, w1 : w1 = Append(dw, name) /\ x = [at |-> w1, kind |-> KindOf(e[new])]
  OBVIOUS
<1>2. x.at = w1 /\ x.kind = KindOf(e[new])
  BY <1>1
<1>3. x \in TreeOf(e)
  <2>1. Spelled(e, hs, dw) /\ Ent(e[Last(hs)], name, new)
    BY WaysAdded DEF Added
  <2>2. Spelled(e, Append(hs, new), w1) /\ Last(Append(hs, new)) = new /\ w1 # <<>>
    BY <1>1, <2>1, SpelledFurther
  <2>3. w1 \in Seq(STRING)
    BY <2>2 DEF Spelled
  <2>4. x \in [at : Seq(STRING), kind : {"dir", "file"}]
    BY <1>1, <2>3 DEF KindOf
  <2> QED
    BY <1>2, <2>2, <2>4 DEF TreeOf
<1>4. ASSUME NEW n \in TreeOf(d)
      PROVE  n \in TreeOf(e)
  <2>1. n \in [at : Seq(STRING), kind : {"dir", "file"}] /\ n.at # <<>>
    BY DEF TreeOf
  <2>2. PICK s : Spelled(d, s, n.at) /\ n.kind = KindOf(d[Last(s)])
    BY DEF TreeOf
  <2>3. Spelled(e, s, n.at) /\ KindOf(e[Last(s)]) = KindOf(d[Last(s)])
    BY <2>2, WaysAdded
  <2> QED
    BY <2>1, <2>2, <2>3 DEF TreeOf
<1>5. ASSUME NEW n \in TreeOf(e), n # x
      PROVE  n \in TreeOf(d)
  <2>1. n \in [at : Seq(STRING), kind : {"dir", "file"}] /\ n.at # <<>>
    BY DEF TreeOf
  <2>2. PICK s : Spelled(e, s, n.at) /\ n.kind = KindOf(e[Last(s)])
    BY DEF TreeOf
  <2>3. \/ Last(s) = new /\ n.at = Append(dw, name)
        \/ Spelled(d, s, n.at) /\ KindOf(e[Last(s)]) = KindOf(d[Last(s)])
    BY <2>1, <2>2, WaysNew
  <2>4. ~(Last(s) = new /\ n.at = Append(dw, name))
    BY <1>1, <1>5, <2>1, <2>2
  <2> QED
    BY <2>1, <2>2, <2>3, <2>4 DEF TreeOf
<1> QED
  BY <1>1, <1>3, <1>4, <1>5

\* The ways that do not lead to x are there.
LEMMA WaysKept ==
  ASSUME NEW d, NEW e, NEW U, NEW r, Store(d), Plan(d, U, r),
         NEW p \in U, NEW x, Dropped(d, e, U, p, x),
         NEW s, NEW w, Spelled(d, s, w), Last(s) # x
  PROVE  Spelled(e, s, w) /\ KindOf(e[Last(s)]) = KindOf(d[Last(s)])
<1>1. /\ \A k \in 1 .. Len(w) : s[k] \in U /\ Ent(d[s[k]], w[k], s[k + 1])
      /\ Last(s) \in U
  BY OnWay
<1>2. Len(w) \in Nat /\ Len(s) = Len(w) + 1
  BY SpelledWay
<1>3. \A k \in 1 .. Len(w) : s[k] # x
  BY <1>1 DEF Dropped
<1>4. \A k \in 1 .. Len(w) : s[k + 1] # x
  <2> SUFFICES ASSUME NEW k \in 1 .. Len(w)
               PROVE  s[k + 1] # x
    OBVIOUS
  <2>1. CASE k = Len(w)
    BY <1>2, <2>1 DEF Last
  <2>2. CASE k # Len(w)
    BY <1>2, <1>3, <2>2
  <2> QED
    BY <2>1, <2>2
<1>5. \A k \in 1 .. Len(w) : Ent(e[s[k]], w[k], s[k + 1])
  BY <1>1, <1>4 DEF Dropped
<1>6. Spelled(e, s, w)
  BY <1>5, SpelledOn
<1>7. e[Last(s)].type = d[Last(s)].type
  BY <1>1 DEF Dropped
<1> QED
  BY <1>6, <1>7 DEF KindOf

\* No way leads to x any more.
LEMMA WaysLeft ==
  ASSUME NEW d, NEW e, NEW U, NEW V, NEW r, NEW q, Store(d), Plan(d, U, r), Store(e), Plan(e, V, q),
         V \subseteq U, NEW p \in U, NEW x, Dropped(d, e, U, p, x),
         NEW s, NEW w, Spelled(e, s, w), w # <<>>
  PROVE  /\ Spelled(d, s, w) /\ KindOf(e[Last(s)]) = KindOf(d[Last(s)])
         /\ Last(s) # x
<1>1. /\ \A k \in 1 .. Len(w) : s[k] \in V /\ Ent(e[s[k]], w[k], s[k + 1])
      /\ Last(s) \in V
  BY OnWay
<1>2. \A k \in 1 .. Len(w) : s[k] \in U
  BY <1>1
<1>3. \A k \in 1 .. Len(w) : Ent(d[s[k]], w[k], s[k + 1])
  BY <1>1, <1>2 DEF Dropped
<1>4. Spelled(d, s, w)
  BY <1>3, SpelledOn
<1>5. e[Last(s)].type = d[Last(s)].type
  BY <1>1 DEF Dropped
<1>6. Last(s) # x
  <2> SUFFICES ASSUME Last(s) = x PROVE FALSE
    OBVIOUS
  <2>1. PICK y, n : y = Last(Front(s)) /\ n = Last(w)
    OBVIOUS
  <2>2. Spelled(e, Front(s), Front(w)) /\ Ent(e[y], n, x)
    BY <2>1, SpelledFront
  <2>3. y \in V /\ y \in Id
    BY <2>1, <2>2, OnWay
  <2>4. Ent(d[y], n, x) /\ y # p
    BY <2>2, <2>3 DEF Dropped
  <2>5. Formed(d[y])
    BY <2>3 DEF Store
  <2>6. PICK i : Pt(d[y], i, x)
    BY <2>4, <2>5, EntIs
  <2>7. PICK j : Pt(d[p], j, x)
    BY DEF Dropped
  <2> QED
    BY <2>3, <2>4, <2>6, <2>7 DEF Plan
<1> QED
  BY <1>4, <1>5, <1>6 DEF KindOf

\* The tree has one node less.
LEMMA TreeCut ==
  ASSUME NEW d, NEW e, NEW U, NEW V, NEW r, NEW q, Store(d), Plan(d, U, r), Store(e), Plan(e, V, q),
         V \subseteq U, NEW p \in U, NEW x, Dropped(d, e, U, p, x),
         NEW xs, NEW xw, Spelled(d, xs, xw), Last(xs) = x
  PROVE  TreeOf(e) = TreeOf(d) \ {[at |-> xw, kind |-> KindOf(d[x])]}
<1>1. PICK y : y = [at |-> xw, kind |-> KindOf(d[x])]
  OBVIOUS
<1>2. y.at = xw /\ y.kind = KindOf(d[x])
  BY <1>1
<1>3. ASSUME NEW n \in TreeOf(e)
      PROVE  n \in TreeOf(d) /\ n # y
  <2>1. n \in [at : Seq(STRING), kind : {"dir", "file"}] /\ n.at # <<>>
    BY DEF TreeOf
  <2>2. PICK s : Spelled(e, s, n.at) /\ n.kind = KindOf(e[Last(s)])
    BY DEF TreeOf
  <2>3. Spelled(d, s, n.at) /\ KindOf(e[Last(s)]) = KindOf(d[Last(s)]) /\ Last(s) # x
    BY <2>1, <2>2, WaysLeft
  <2>4. n \in TreeOf(d)
    BY <2>1, <2>2, <2>3 DEF TreeOf
  <2>5. n.at # xw
    BY <2>3, OneTarget
  <2> QED
    BY <1>2, <2>4, <2>5
<1>4. ASSUME NEW n \in TreeOf(d), n # y
      PROVE  n \in TreeOf(e)
  <2>1. n \in [at : Seq(STRING), kind : {"dir", "file"}] /\ n.at # <<>>
    BY DEF TreeOf
  <2>2. PICK s : Spelled(d, s, n.at) /\ n.kind = KindOf(d[Last(s)])
    BY DEF TreeOf
  <2>3. Last(s) # x
    <3> SUFFICES ASSUME Last(s) = x PROVE FALSE
      OBVIOUS
    <3>1. Way(d, s) /\ Way(d, xs)
      BY <2>2, SpelledWay
    <3>2. s = xs
      BY <3>1, OneWay
    <3>3. n.at = xw
      BY <2>2, <3>2, OneSpelling
    <3> QED
      BY <1>1, <1>4, <2>1, <2>2, <3>3
  <2>4. Spelled(e, s, n.at) /\ KindOf(e[Last(s)]) = KindOf(d[Last(s)])
    BY <2>2, <2>3, WaysKept
  <2> QED
    BY <2>1, <2>2, <2>4 DEF TreeOf
<1> QED
  BY <1>1, <1>3, <1>4

-----------------------------------------------------------------------------
(* What a command sets out to do: A.op, for the node A.node, while the      *)
(* session is at A.at, which names spell A.cwd.                             *)

\* A write of a command that is not its last: only a command write lets the
\* user see it, who sees the file go, or come.
Still(A, S, T) ==
  \/ T = S
  \/ A.op = "write" /\ A.node \in S /\ T = S \ {A.node}
  \/ A.op = "write" /\ (\A n \in S : n.at # A.node.at) /\ T = S \cup {A.node}

\* Its last write.
Ends(A, S, T) ==
  \/ A.op \in {"touch", "mkdir"} /\ T = S \cup {A.node}
  \/ A.op \in {"rm", "rmdir"} /\ T = S \ {A.node}
  \/ A.op = "append" /\ T = S
  \/ A.op = "write" /\ A.node \in S /\ T = S

\* h are the disks from d on, write by write.
Thread(d, ws, h) ==
  /\ Len(ws) \in Nat /\ h[0] = d
  /\ \A k \in 1 .. Len(ws) : h[k] = [h[k - 1] EXCEPT ![ws[k][1]] = ws[k][2]]

\* So far the command on memory m has done nothing but its aim,
Told(d, m, A) ==
  \E h : /\ Thread(d, m.writes, h) /\ h[Len(m.writes)] = m.zone
         /\ \A k \in 0 .. Len(m.writes) : Spelled(h[k], A.at, A.cwd)
         /\ \A k \in 1 .. Len(m.writes) : Still(A, TreeOf(h[k - 1]), TreeOf(h[k]))

\* and with all its writes it does that.
Story(d, ws, A) ==
  \E h : /\ Thread(d, ws, h) /\ Len(ws) # 0
         /\ \A k \in 0 .. Len(ws) : Spelled(h[k], A.at, A.cwd)
         /\ \A k \in 1 .. Len(ws) - 1 : Still(A, TreeOf(h[k - 1]), TreeOf(h[k]))
         /\ Ends(A, TreeOf(h[Len(ws) - 1]), TreeOf(h[Len(ws)]))

\* The disks are those there were, and e.
Longer(d, m, h, e, n) ==
  /\ Len(m.writes) \in Nat /\ Len(n.writes) = Len(m.writes) + 1 /\ n.zone = e /\ n.writes # <<>>
  /\ \E g : /\ Thread(d, n.writes, g) /\ g[Len(m.writes) + 1] = e
            /\ \A k \in 0 .. Len(m.writes) : g[k] = h[k]

\* One write more.
LEMMA ThreadMore ==
  ASSUME NEW d, NEW m, IsMemory(m), NEW h, Thread(d, m.writes, h), h[Len(m.writes)] = m.zone,
         NEW id, NEW z, NEW e, NEW n, Written(m, id, z, e, n)
  PROVE  Longer(d, m, h, e, n)
<1> DEFINE L == Len(m.writes)
<1>0. id \in Id /\ e = [m.zone EXCEPT ![id] = z] /\ n = write_zone(m, id, z)
  BY DEF Written
<1>1. n = [zone |-> e, st |-> m.st, writes |-> Append(m.writes, <<id, z>>)]
  BY <1>0, MemoryFields
<1>2. PICK ws : ws = Append(m.writes, <<id, z>>)
  OBVIOUS
<1>3. /\ IsSeq(ws) /\ L \in Nat /\ Len(ws) = L + 1
      /\ \A k \in 1 .. L : ws[k] = m.writes[k]
      /\ ws[L + 1] = <<id, z>>
  BY <1>2, SeqGrows DEF IsMemory
<1>4. n.zone = e /\ n.writes = ws
  BY <1>1, <1>2
<1>5. h[0] = d /\ \A k \in 1 .. L : h[k] = [h[k - 1] EXCEPT ![m.writes[k][1]] = m.writes[k][2]]
  BY DEF Thread
<1> DEFINE g == [k \in 0 .. L + 1 |-> IF k = L + 1 THEN e ELSE h[k]]
<1>6. (\A k \in 0 .. L : g[k] = h[k]) /\ g[L + 1] = e
  BY <1>3
<1> HIDE DEF g
<1>7. ASSUME NEW k \in 1 .. L + 1
      PROVE  g[k] = [g[k - 1] EXCEPT ![ws[k][1]] = ws[k][2]]
  <2>1. CASE k = L + 1
    <3>1. k - 1 = L /\ L \in 0 .. L
      BY <1>3, <2>1
    <3>2. g[k - 1] = m.zone
      BY <1>6, <3>1
    <3>3. ws[k][1] = id /\ ws[k][2] = z
      BY <1>3, <2>1
    <3> QED
      BY <1>0, <1>6, <2>1, <3>2, <3>3
  <2>2. CASE k \in 1 .. L
    <3>1. k \in 0 .. L /\ k - 1 \in 0 .. L
      BY <1>3, <2>2
    <3>2. g[k] = h[k] /\ g[k - 1] = h[k - 1] /\ ws[k] = m.writes[k]
      BY <1>3, <1>6, <2>2, <3>1
    <3> QED
      BY <1>5, <2>2, <3>2
  <2> QED
    BY <1>3, <2>1, <2>2
<1>8. g[0] = d
  BY <1>3, <1>5, <1>6
<1>9. Thread(d, ws, g)
  <2>1. Len(ws) \in Nat /\ Len(ws) = L + 1
    BY <1>3
  <2>2. \A k \in 1 .. L + 1 : g[k] = [g[k - 1] EXCEPT ![ws[k][1]] = ws[k][2]]
    BY <1>7, Zenon
  <2>3. \A k \in 1 .. Len(ws) : g[k] = [g[k - 1] EXCEPT ![ws[k][1]] = ws[k][2]]
    BY <2>1, <2>2, Zenon
  <2> QED
    BY <1>8, <2>1, <2>3, Zenon DEF Thread
<1>10. ws # <<>>
  BY <1>3
<1> QED
  BY <1>3, <1>4, <1>6, <1>9, <1>10 DEF Longer

\* It does no more than the aim,
LEMMA TellMore ==
  ASSUME NEW d, NEW m, IsMemory(m), NEW A, Told(d, m, A),
         NEW id, NEW z, NEW e, NEW n, Written(m, id, z, e, n),
         Still(A, TreeOf(m.zone), TreeOf(e)), Spelled(e, A.at, A.cwd)
  PROVE  Told(d, n, A)
<1>1. PICK L : L = Len(m.writes)
  OBVIOUS
<1>2. PICK h : /\ Thread(d, m.writes, h) /\ h[L] = m.zone
               /\ \A k \in 0 .. L : Spelled(h[k], A.at, A.cwd)
               /\ \A k \in 1 .. L : Still(A, TreeOf(h[k - 1]), TreeOf(h[k]))
  BY <1>1 DEF Told
<1>3. /\ L \in Nat /\ Len(n.writes) = L + 1 /\ n.zone = e /\ n.writes # <<>>
      /\ \E g : Thread(d, n.writes, g) /\ g[L + 1] = e /\ \A k \in 0 .. L : g[k] = h[k]
  <2>1. h[Len(m.writes)] = m.zone /\ Thread(d, m.writes, h)
    BY <1>1, <1>2
  <2>2. Longer(d, m, h, e, n)
    BY <2>1, ThreadMore
  <2> QED
    BY <1>1, <2>2 DEF Longer
<1>4. PICK g : Thread(d, n.writes, g) /\ g[L + 1] = e /\ \A k \in 0 .. L : g[k] = h[k]
  BY <1>3
<1>5. \A k \in 0 .. L + 1 : Spelled(g[k], A.at, A.cwd)
  <2>1. \A k \in 0 .. L + 1 : k \in 0 .. L \/ k = L + 1
    BY <1>3
  <2> QED
    BY <1>2, <1>4, <2>1
<1>6. \A k \in 1 .. L + 1 : Still(A, TreeOf(g[k - 1]), TreeOf(g[k]))
  <2>1. \A k \in 1 .. L + 1 : \/ k \in 1 .. L /\ k \in 0 .. L /\ k - 1 \in 0 .. L
                              \/ k = L + 1 /\ k - 1 = L /\ k - 1 \in 0 .. L
    BY <1>3
  <2> QED
    BY <1>2, <1>4, <2>1
<1>7. g[Len(n.writes)] = n.zone
  BY <1>3, <1>4
<1> QED
  BY <1>3, <1>4, <1>5, <1>6, <1>7 DEF Told

\* and ends with it.
LEMMA TellLast ==
  ASSUME NEW d, NEW m, IsMemory(m), NEW A, Told(d, m, A),
         NEW id, NEW z, NEW e, NEW n, Written(m, id, z, e, n),
         Ends(A, TreeOf(m.zone), TreeOf(e)), Spelled(e, A.at, A.cwd)
  PROVE  Story(d, n.writes, A) /\ n.writes # <<>>
<1>1. PICK L, ws : L = Len(m.writes) /\ n.writes = ws
  OBVIOUS
<1>2. PICK h : /\ Thread(d, m.writes, h) /\ h[L] = m.zone
               /\ \A k \in 0 .. L : Spelled(h[k], A.at, A.cwd)
               /\ \A k \in 1 .. L : Still(A, TreeOf(h[k - 1]), TreeOf(h[k]))
  BY <1>1 DEF Told
<1>3. /\ L \in Nat /\ Len(n.writes) = L + 1 /\ n.zone = e /\ n.writes # <<>>
      /\ \E g : Thread(d, n.writes, g) /\ g[L + 1] = e /\ \A k \in 0 .. L : g[k] = h[k]
  <2>1. h[Len(m.writes)] = m.zone /\ Thread(d, m.writes, h)
    BY <1>1, <1>2
  <2>2. Longer(d, m, h, e, n)
    BY <2>1, ThreadMore
  <2> QED
    BY <1>1, <2>2 DEF Longer
<1>4. PICK g : Thread(d, ws, g) /\ g[L + 1] = e /\ \A k \in 0 .. L : g[k] = h[k]
  BY <1>1, <1>3
<1>5. \A k \in 0 .. L + 1 : Spelled(g[k], A.at, A.cwd)
  <2>1. \A k \in 0 .. L + 1 : k \in 0 .. L \/ k = L + 1
    BY <1>3
  <2> QED
    BY <1>2, <1>4, <2>1
<1>6. \A k \in 1 .. L : Still(A, TreeOf(g[k - 1]), TreeOf(g[k]))
  <2>1. \A k \in 1 .. L : k \in 0 .. L /\ k - 1 \in 0 .. L
    BY <1>3
  <2> QED
    BY <1>2, <1>4, <2>1
<1>7. Ends(A, TreeOf(g[L]), TreeOf(g[L + 1]))
  <2>1. L \in 0 .. L
    BY <1>3
  <2> QED
    BY <1>2, <1>4, <2>1
<1>8. Len(ws) = L + 1 /\ Len(ws) - 1 = L /\ Len(ws) # 0
  BY <1>1, <1>3
<1> QED
  BY <1>1, <1>3, <1>4, <1>5, <1>6, <1>7, <1>8 DEF Story

\* Before its first write it has done nothing.
LEMMA TellNothing ==
  ASSUME NEW m, m.writes = <<>>, NEW A, Spelled(m.zone, A.at, A.cwd)
  PROVE  Told(m.zone, m, A)
<1> DEFINE h == [k \in {0} |-> m.zone]
<1>1. h[0] = m.zone
  OBVIOUS
<1> HIDE DEF h
<1>2. Len(m.writes) = 0 /\ (\A k \in 1 .. 0 : FALSE) /\ \A k \in 0 .. 0 : k = 0
  OBVIOUS
<1>3. Thread(m.zone, m.writes, h)
  BY <1>1, <1>2 DEF Thread
<1>4. \A k \in 0 .. Len(m.writes) : Spelled(h[k], A.at, A.cwd)
  BY <1>1, <1>2
<1>5. \A k \in 1 .. Len(m.writes) : Still(A, TreeOf(h[k - 1]), TreeOf(h[k]))
  BY <1>2
<1>6. h[Len(m.writes)] = m.zone
  BY <1>1, <1>2
<1> QED
  BY <1>3, <1>4, <1>5, <1>6 DEF Told

\* States do not matter.
LEMMA SameTold ==
  ASSUME NEW d, NEW m, NEW A, Told(d, m, A), NEW n, n.zone = m.zone, n.writes = m.writes
  PROVE  Told(d, n, A)
<1> QED
  BY DEF Told

\* A write reaches the disk: the first of the story.
LEMMA StoryPut ==
  ASSUME NEW d, NEW ws, IsSeq(ws), NEW A, Story(d, ws, A),
         NEW e, e = [d EXCEPT ![Head(ws)[1]] = Head(ws)[2]]
  PROVE  /\ Spelled(d, A.at, A.cwd) /\ Spelled(e, A.at, A.cwd)
         /\ Tail(ws) = <<>> => Ends(A, TreeOf(d), TreeOf(e))
         /\ Tail(ws) # <<>> => Still(A, TreeOf(d), TreeOf(e)) /\ Story(e, Tail(ws), A)
<1>1. PICK L : L = Len(ws)
  OBVIOUS
<1>2. PICK h : /\ Thread(d, ws, h) /\ L # 0
               /\ \A k \in 0 .. L : Spelled(h[k], A.at, A.cwd)
               /\ \A k \in 1 .. L - 1 : Still(A, TreeOf(h[k - 1]), TreeOf(h[k]))
               /\ Ends(A, TreeOf(h[L - 1]), TreeOf(h[L]))
  BY <1>1 DEF Story
<1>3. /\ L \in Nat \ {0} /\ h[0] = d
      /\ \A k \in 1 .. L : h[k] = [h[k - 1] EXCEPT ![ws[k][1]] = ws[k][2]]
  BY <1>1, <1>2 DEF Thread
<1>4. /\ Len(Tail(ws)) = L - 1 /\ Head(ws) = ws[1] /\ \A k \in 1 .. L - 1 : Tail(ws)[k] = ws[k + 1]
      /\ Tail(ws) = <<>> <=> L = 1
  <2>1. PICK S : ws \in Seq(S)
    BY DEF IsSeq
  <2>2. ws # <<>>
    BY <1>1, <1>2
  <2>3. /\ Tail(ws) \in Seq(S) /\ Len(Tail(ws)) = L - 1
        /\ Head(ws) = ws[1] /\ \A k \in 1 .. L - 1 : Tail(ws)[k] = ws[k + 1]
    BY <1>1, <2>1, <2>2
  <2>4. Tail(ws) = <<>> <=> Len(Tail(ws)) = 0
    <3>1. PICK u : u = Tail(ws)
      OBVIOUS
    <3>2. u \in Seq(S)
      BY <2>3, <3>1
    <3>3. u = <<>> <=> Len(u) = 0
      BY <3>2
    <3> QED
      BY <3>1, <3>3
  <2> QED
    BY <1>3, <2>3, <2>4
<1>5. h[1] = e
  <2>1. 1 \in 1 .. L /\ 1 - 1 = 0
    BY <1>3
  <2>2. h[1] = [h[0] EXCEPT ![ws[1][1]] = ws[1][2]]
    BY <1>3, <2>1
  <2> QED
    BY <1>3, <1>4, <2>2
<1>6. Spelled(d, A.at, A.cwd) /\ Spelled(e, A.at, A.cwd)
  <2>1. 0 \in 0 .. L /\ 1 \in 0 .. L
    BY <1>3
  <2> QED
    BY <1>2, <1>3, <1>5, <2>1
<1>7. CASE L = 1
  <2>1. L - 1 = 0
    BY <1>7
  <2>2. Ends(A, TreeOf(d), TreeOf(e))
    BY <1>2, <1>3, <1>5, <1>7, <2>1
  <2> QED
    BY <1>4, <1>6, <1>7, <2>2
<1>8. CASE L # 1
  <2>1. 1 \in 1 .. L - 1 /\ 1 - 1 = 0
    BY <1>3, <1>8
  <2>2. Still(A, TreeOf(d), TreeOf(e))
    BY <1>2, <1>3, <1>5, <2>1
  <2> DEFINE g == [k \in 0 .. L - 1 |-> h[k + 1]]
  <2>3. \A k \in 0 .. L - 1 : g[k] = h[k + 1]
    OBVIOUS
  <2> HIDE DEF g
  <2>4. PICK n \in Nat \ {0} : n = L - 1 /\ n + 1 = L
    <3>1. L - 1 \in Nat \ {0} /\ (L - 1) + 1 = L
      BY <1>3, <1>8
    <3> QED
      BY <3>1
  <2>5. PICK us : us = Tail(ws)
    OBVIOUS
  <2>6. Len(us) = n /\ \A k \in 1 .. n : us[k] = ws[k + 1]
    BY <1>4, <2>4, <2>5
  <2>7. ASSUME NEW k \in 1 .. n
        PROVE  g[k] = [g[k - 1] EXCEPT ![us[k][1]] = us[k][2]]
    <3>1. k + 1 \in 1 .. L /\ k \in 0 .. L - 1 /\ k - 1 \in 0 .. L - 1 /\ (k - 1) + 1 = k
          /\ (k + 1) - 1 = k
      BY <2>4
    <3>2. us[k] = ws[k + 1] /\ g[k] = h[k + 1] /\ g[k - 1] = h[k]
      BY <2>3, <2>6, <3>1
    <3>3. h[k + 1] = [h[k] EXCEPT ![ws[k + 1][1]] = ws[k + 1][2]]
      BY <1>3, <3>1
    <3> QED
      BY <3>2, <3>3
  <2>8. g[0] = e
    <3>1. 0 \in 0 .. L - 1 /\ 0 + 1 = 1
      BY <1>3
    <3> QED
      BY <1>5, <2>3, <3>1
  <2>9. Thread(e, us, g)
    BY <2>6, <2>7, <2>8 DEF Thread
  <2>10. \A k \in 0 .. n : Spelled(g[k], A.at, A.cwd)
    <3>1. \A k \in 0 .. n : k \in 0 .. L - 1 /\ k + 1 \in 0 .. L
      BY <2>4
    <3> QED
      BY <1>2, <2>3, <3>1
  <2>11. \A k \in 1 .. n - 1 : Still(A, TreeOf(g[k - 1]), TreeOf(g[k]))
    <3>1. \A k \in 1 .. n - 1 : /\ k \in 0 .. L - 1 /\ k - 1 \in 0 .. L - 1 /\ (k - 1) + 1 = k
                                /\ k + 1 \in 1 .. L - 1 /\ (k + 1) - 1 = k
      BY <2>4
    <3> QED
      BY <1>2, <2>3, <3>1
  <2>12. Ends(A, TreeOf(g[n - 1]), TreeOf(g[n]))
    <3>1. n \in 0 .. L - 1 /\ n - 1 \in 0 .. L - 1 /\ (n - 1) + 1 = L - 1
      BY <2>4
    <3>2. g[n] = h[L] /\ g[n - 1] = h[L - 1]
      BY <2>3, <2>4, <3>1
    <3> QED
      BY <1>2, <3>2
  <2>13. Story(e, us, A)
    BY <2>6, <2>9, <2>10, <2>11, <2>12 DEF Story
  <2> QED
    BY <1>4, <1>6, <1>8, <2>2, <2>5, <2>13
<1> QED
  BY <1>7, <1>8

-----------------------------------------------------------------------------
(* What the functions of fs_lib.c do for an aim.                            *)

\* From m to n is one step more for every aim it fits, and then S is the tree.
Shows(d, m, n, at, S) ==
  /\ TreeOf(n.zone) = S
  /\ \A A : A.at = at /\ Told(d, m, A) =>
       /\ n.writes # <<>>
       /\ Still(A, TreeOf(m.zone), S) => Told(d, n, A)
       /\ Ends(A, TreeOf(m.zone), S) => Story(d, n.writes, A)

\* From m to n the user sees nothing.
Quiet(d, m, n, at) ==
  /\ TreeOf(n.zone) = TreeOf(m.zone)
  /\ \A A : A.at = at /\ Told(d, m, A) => Told(d, n, A)

\* The session is still where it was.
LEMMA ToldHere ==
  ASSUME NEW d, NEW m, NEW A, Told(d, m, A)
  PROVE  Spelled(m.zone, A.at, A.cwd)
<1>1. PICK h : /\ Thread(d, m.writes, h) /\ h[Len(m.writes)] = m.zone
               /\ \A k \in 0 .. Len(m.writes) : Spelled(h[k], A.at, A.cwd)
  BY DEF Told
<1>2. Len(m.writes) \in 0 .. Len(m.writes)
  BY <1>1 DEF Thread
<1> QED
  BY <1>1, <1>2

\* A write that leaves the session where it is.
LEMMA ShowsWrite ==
  ASSUME NEW d, NEW m, IsMemory(m), NEW id, NEW z, NEW e, NEW n, Written(m, id, z, e, n),
         NEW at, \A w : Spelled(m.zone, at, w) => Spelled(e, at, w)
  PROVE  Shows(d, m, n, at, TreeOf(e))
<1>1. n.zone = e
  BY DEF Written
<1>2. ASSUME NEW A, A.at = at, Told(d, m, A)
      PROVE  /\ n.writes # <<>>
             /\ Still(A, TreeOf(m.zone), TreeOf(e)) => Told(d, n, A)
             /\ Ends(A, TreeOf(m.zone), TreeOf(e)) => Story(d, n.writes, A)
  <2>1. Spelled(e, A.at, A.cwd)
    BY <1>2, ToldHere
  <2>2. n.writes # <<>>
    <3>1. PICK h : Thread(d, m.writes, h) /\ h[Len(m.writes)] = m.zone
      BY <1>2 DEF Told
    <3>2. Longer(d, m, h, e, n)
      BY <3>1, ThreadMore
    <3> QED
      BY <3>2 DEF Longer
  <2>3. ASSUME Still(A, TreeOf(m.zone), TreeOf(e))
        PROVE  Told(d, n, A)
    BY <1>2, <2>1, <2>3, TellMore
  <2>4. ASSUME Ends(A, TreeOf(m.zone), TreeOf(e))
        PROVE  Story(d, n.writes, A)
    BY <1>2, <2>1, <2>4, TellLast
  <2> QED
    BY <2>2, <2>3, <2>4
<1> QED
  BY <1>1, <1>2 DEF Shows

\* Where it shows nothing it is quiet.
LEMMA ShowsNothing ==
  ASSUME NEW d, NEW m, NEW n, NEW at, NEW S, Shows(d, m, n, at, S), S = TreeOf(m.zone)
  PROVE  Quiet(d, m, n, at)
<1> QED
  BY DEF Shows, Quiet, Still

\* A quiet step before.
LEMMA QuietShows ==
  ASSUME NEW d, NEW m, NEW n, NEW b, NEW at, NEW S, Quiet(d, m, b, at), Shows(d, b, n, at, S)
  PROVE  Shows(d, m, n, at, S)
<1> QED
  BY DEF Shows, Quiet

\* Two quiet steps.
LEMMA QuietTwice ==
  ASSUME NEW d, NEW m, NEW n, NEW b, NEW at, Quiet(d, m, b, at), Quiet(d, b, n, at)
  PROVE  Quiet(d, m, n, at)
<1> QED
  BY DEF Quiet

\* States do not matter.
LEMMA QuietStates ==
  ASSUME NEW d, NEW m, NEW n, n.zone = m.zone, n.writes = m.writes, NEW at
  PROVE  Quiet(d, m, n, at)
<1> QED
  BY SameTold DEF Quiet

\* In n zone new is z, and all else is as in m.
Beside(m, n, new, z) ==
  /\ IsMemory(n) /\ n.st = m.st
  /\ \A x \in Id : n.zone[x] = IF x = new THEN z ELSE m.zone[x]

\* Nor does a zone outside the tree.
LEMMA QuietOutside ==
  ASSUME NEW d, NEW m, IsMemory(m), NEW U, NEW r, Plan(m.zone, U, r),
         NEW new \in Id, new \notin U, NEW z, Formed(z), NEW n, n = write_zone(m, new, z), NEW at
  PROVE  Quiet(d, m, n, at) /\ Beside(m, n, new, z)
<1>1. PICK e : e = [m.zone EXCEPT ![new] = z]
  OBVIOUS
<1>2. Store(m.zone) /\ Store(e) /\ \A x \in Id : e[x] = IF x = new THEN z ELSE m.zone[x]
  <2>1. Store(m.zone)
    BY DEF IsMemory
  <2> QED
    BY <1>1, <2>1, StoreWrite
<1>3. n = [zone |-> e, st |-> m.st, writes |-> Append(m.writes, <<new, z>>)]
  BY <1>1, MemoryFields
<1>4. n.zone = e /\ n.st = m.st
  BY <1>3
<1>5. Written(m, new, z, e, n)
  BY <1>1, <1>2, <1>4 DEF Written
<1>6. \A x \in U : e[x] = m.zone[x]
  BY <1>2 DEF Plan
<1>7. Plan(e, U, r)
  BY <1>6, Outside
<1>8. AsBefore(m.zone, e, U)
  BY <1>6 DEF AsBefore
<1>9. TreeOf(e) = TreeOf(m.zone) /\ \A s, w : Spelled(m.zone, s, w) => Spelled(e, s, w)
  BY <1>2, <1>7, <1>8, TreeSame
<1>10. Shows(d, m, n, at, TreeOf(e))
  BY <1>5, <1>9, ShowsWrite
<1>11. Quiet(d, m, n, at)
  BY <1>9, <1>10, ShowsNothing
<1>12. IsMemory(n)
  <2>1. IsSeq(Append(m.writes, <<new, z>>))
    BY SeqGrows DEF IsMemory
  <2> QED
    BY <1>2, <1>3, <2>1 DEF IsMemory
<1> QED
  BY <1>2, <1>4, <1>11, <1>12 DEF Beside

\* add_sub shows the new node.
LEMMA EnterShows ==
  ASSUME NEW d, NEW m, IsMemory(m), NEW U, NEW r, Plan(m.zone, U, r),
         NEW h \in U, NEW new, new \notin U, NEW name, NEW n, Entering(m, n, U, h, name, new),
         NEW hs, NEW dw, Spelled(m.zone, hs, dw), Last(hs) = h, NEW at
  PROVE  Shows(d, m, n, at,
               TreeOf(m.zone) \cup {[at |-> Append(dw, name), kind |-> KindOf(m.zone[new])]})
<1>1. PICK y, e, V, q : /\ Written(m, h, y, e, n) /\ Added(m.zone, e, U, h, name, new)
                        /\ V = U \cup {new} /\ Plan(e, V, q)
  BY DEF Entering
<1>2. Store(e) /\ Store(m.zone)
  BY <1>1 DEF Written, IsMemory
<1>3. TreeOf(e) = TreeOf(m.zone) \cup {[at |-> Append(dw, name), kind |-> KindOf(e[new])]}
  BY <1>1, <1>2, TreeAdd
<1>4. \A s, w : Spelled(m.zone, s, w) => Spelled(e, s, w)
  BY <1>1, <1>2, WaysAdded
<1>5. Shows(d, m, n, at, TreeOf(e))
  BY <1>1, <1>4, ShowsWrite
<1>6. e[new] = m.zone[new]
  BY <1>1 DEF Added
<1> QED
  BY <1>3, <1>5, <1>6

\* rm_sub shows that the node is gone.
LEMMA LeaveShows ==
  ASSUME NEW d, NEW m, IsMemory(m), NEW U, NEW r, Plan(m.zone, U, r),
         NEW p \in U, NEW x, NEW n, Leaving(m, n, U, p, x),
         NEW xs, NEW xw, Spelled(m.zone, xs, xw), Last(xs) = x, NEW at, Last(at) # x
  PROVE  Shows(d, m, n, at, TreeOf(m.zone) \ {[at |-> xw, kind |-> KindOf(m.zone[x])]})
<1>1. PICK y, e, V, q : /\ Written(m, p, y, e, n) /\ Dropped(m.zone, e, U, p, x)
                        /\ V \subseteq U /\ Plan(e, V, q)
  BY DEF Leaving
<1>2. Store(e) /\ Store(m.zone)
  BY <1>1 DEF Written, IsMemory
<1>3. TreeOf(e) = TreeOf(m.zone) \ {[at |-> xw, kind |-> KindOf(m.zone[x])]}
  BY <1>1, <1>2, TreeCut
<1>4. \A w : Spelled(m.zone, at, w) => Spelled(e, at, w)
  BY <1>1, <1>2, WaysKept
<1>5. Shows(d, m, n, at, TreeOf(e))
  BY <1>1, <1>4, ShowsWrite
<1> QED
  BY <1>3, <1>5

\* mk_file and mk_dir, once they have a zone and a directory with an entry left.
LEMMA NewShows ==
  ASSUME NEW d, NEW m, NEW at, Sound(d, m, at), NEW U, NEW r,
         Plan(m.zone, U, r), Held(m.zone, U), Tally(m.st, m.zone, U),
         NEW h \in U, m.zone[h].type = "dentry", Room(m.zone[h]),
         NEW name \in STRING, \A j \in Subs : m.zone[h].subs[j].name # name,
         NEW id \in Id, m.st[id] = UNOCCUPIED,
         NEW state \in {I_OCCUPIED, D_OCCUPIED},
         NEW z, z = IF state = I_OCCUPIED THEN Inode(h) ELSE Dentry(h),
         NEW n, n = add_sub(write_zone(Taken(m, id, state), id, z), h, id, name),
         NEW hs, NEW dw, Spelled(m.zone, hs, dw), Last(hs) = h,
         NEW kind, kind = IF state = I_OCCUPIED THEN "file" ELSE "dir"
  PROVE  Shows(d, m, n, at, TreeOf(m.zone) \cup {[at |-> Append(dw, name), kind |-> kind]})
<1>1. PICK t, b : t = Taken(m, id, state) /\ b = write_zone(t, id, z)
  OBVIOUS
<1>2. Entering(b, n, U, h, name, id) /\ Formed(z) /\ id \notin U
  <2>1. /\ Sound(d, add_sub(write_zone(Taken(m, id, state), id, z), h, id, name), at)
        /\ Entering(write_zone(Taken(m, id, state), id, z),
                    add_sub(write_zone(Taken(m, id, state), id, z), h, id, name), U, h, name, id)
        /\ Formed(z) /\ id \notin U
    BY NewNode
  <2> QED
    BY <1>1, <2>1
<1>3. IsMemory(m) /\ Logged(d, m)
  BY DEF Sound
<1>4. IsMemory(t) /\ t.zone = m.zone
  <2>1. state \in UNOCCUPIED .. I_OCCUPIED
    BY DEF UNOCCUPIED, I_OCCUPIED, D_OCCUPIED
  <2> QED
    BY <1>1, <1>3, <2>1, TakenFields
<1>5. t.writes = m.writes
  BY <1>1, <1>3, MemoryFields
<1>6. Quiet(d, m, t, at)
  BY <1>4, <1>5, QuietStates
<1>7. Plan(t.zone, U, r)
  BY <1>4
<1>8. /\ Quiet(d, t, b, at) /\ IsMemory(b) /\ b.st = t.st /\ Store(b.zone)
      /\ \A x \in Id : b.zone[x] = IF x = id THEN z ELSE t.zone[x]
  <2>1. IsMemory(t) /\ Plan(t.zone, U, r) /\ Formed(z) /\ b = write_zone(t, id, z) /\ id \notin U
    BY <1>1, <1>2, <1>4, <1>7
  <2>2. Plan(t.zone, U, r)
    BY <2>1
  <2>3. Quiet(d, t, b, at) /\ Beside(t, b, id, z)
    BY <2>1, <2>2, QuietOutside
  <2> QED
    BY <2>3 DEF Beside, IsMemory
<1>9. Quiet(d, m, b, at)
  BY <1>6, <1>8, QuietTwice
<1>10. Store(b.zone) /\ \A x \in Id : b.zone[x] = IF x = id THEN z ELSE m.zone[x]
  BY <1>4, <1>8
<1>11. \A x \in U : b.zone[x] = m.zone[x]
  BY <1>2, <1>10 DEF Plan
<1>12. Plan(b.zone, U, r)
  BY <1>11, Outside
<1>13. Spelled(b.zone, hs, dw) /\ TreeOf(b.zone) = TreeOf(m.zone)
  <2>1. AsBefore(m.zone, b.zone, U)
    BY <1>11 DEF AsBefore
  <2>2. Store(m.zone)
    BY <1>3 DEF IsMemory
  <2> QED
    BY <1>10, <1>12, <2>1, <2>2, TreeSame
<1>14. KindOf(b.zone[id]) = kind
  <2>1. z.type = IF state = I_OCCUPIED THEN "inode" ELSE "dentry"
    <3>1. h \in Id
      BY DEF Plan
    <3> QED
      BY <3>1, NewZone
  <2> QED
    BY <1>10, <2>1 DEF KindOf
<1>15. Shows(d, b, n, at, TreeOf(m.zone) \cup {[at |-> Append(dw, name), kind |-> kind]})
  <2>1. Shows(d, b, n, at, TreeOf(b.zone)
                \cup {[at |-> Append(dw, name), kind |-> KindOf(b.zone[id])]})
    BY <1>2, <1>8, <1>12, <1>13, EnterShows
  <2> QED
    BY <1>13, <1>14, <2>1
<1> QED
  BY <1>9, <1>15, QuietShows

\* rm_file and rm_dir show that the node is gone.
LEMMA LeftShows ==
  ASSUME NEW d, NEW m, NEW at, Sound(d, m, at), NEW x, NEW n, Left(m, n, x),
         NEW xs, NEW xw, Spelled(m.zone, xs, xw), Last(xs) = x, Last(at) # x
  PROVE  Shows(d, m, n, at, TreeOf(m.zone) \ {[at |-> xw, kind |-> KindOf(m.zone[x])]})
<1>1. PICK S, U, r : /\ Plan(m.zone, U, r) /\ x \in U /\ x \in S /\ m.zone[x].parent \in U
                     /\ Leaving(set_free_id(m, S), n, U, m.zone[x].parent, x)
  BY DEF Left
<1>2. PICK g, p : g = set_free_id(m, S) /\ p = m.zone[x].parent
  OBVIOUS
<1>3. IsMemory(m) /\ Logged(d, m)
  BY DEF Sound
<1>4. /\ IsMemory(g) /\ Logged(d, g) /\ g.zone = m.zone
      /\ \A y \in Id : g.st[y] = IF y \in S THEN UNOCCUPIED ELSE m.st[y]
  BY <1>2, <1>3, FreedFields
<1>5. g.writes = m.writes
  BY <1>2, <1>3, MemoryFields
<1>6. Quiet(d, m, g, at)
  BY <1>4, <1>5, QuietStates
<1>7. Plan(g.zone, U, r) /\ p \in U /\ Leaving(g, n, U, p, x) /\ Spelled(g.zone, xs, xw)
  BY <1>1, <1>2, <1>4
<1>8. Shows(d, g, n, at, TreeOf(g.zone) \ {[at |-> xw, kind |-> KindOf(g.zone[x])]})
  BY <1>4, <1>7, LeaveShows
<1>9. Shows(d, g, n, at, TreeOf(m.zone) \ {[at |-> xw, kind |-> KindOf(m.zone[x])]})
  BY <1>4, <1>8
<1> QED
  BY <1>6, <1>9, QuietShows

\* Where add_data is: the user has seen nothing yet.
Longing(d, m, x, at, a) ==
  Grown(d, x, at, a) /\ Quiet(d, m, a.m, at) /\ a.m.zone[x].type = "inode"

\* One zone more.
LEMMA AddShows ==
  ASSUME NEW d, NEW m, NEW x, NEW at, NEW a, Longing(d, m, x, at, a)
  PROVE  Longing(d, m, x, at, add_zone(a))
<1>1. Grown(d, x, at, a) /\ Quiet(d, m, a.m, at) /\ a.m.zone[x].type = "inode"
  BY DEF Longing
<1>2. Grown(d, x, at, add_zone(a))
  BY <1>1, AddZone
<1>3. PICK e, W, r, V, q : Growth(d, x, at, a, e, W, r, V, q)
  BY <1>1 DEF Grown
<1>4. PICK g, new, b : g = a.m /\ new = get_free_id(g) /\ b = add_zone(a)
  OBVIOUS
<1>5. /\ IsMemory(g) /\ Logged(d, g) /\ Plan(g.zone, W, r) /\ W \subseteq V /\ x \in W
      /\ e = [g.zone EXCEPT ![x] = a.inode] /\ Plan(e, V, q) /\ Tally(g.st, e, V)
  BY <1>3, <1>4 DEF Growth
<1>6. CASE a.full \/ new < 0
  <2>1. b = [m |-> g, inode |-> a.inode, full |-> TRUE]
    BY <1>4, <1>6 DEF add_zone
  <2>2. b.m = g
    BY <2>1
  <2> QED
    BY <1>1, <1>2, <1>4, <2>2 DEF Longing
<1>7. CASE ~(a.full \/ new < 0)
  <2>1. new \in Id /\ g.st[new] = UNOCCUPIED
    BY <1>4, <1>7, FreeZone
  <2>2. new \notin W /\ x \in Id /\ new # x
    <3>1. V \subseteq Id /\ \A y \in V : e[y].type \in {"dentry", "inode", "data"}
      BY <1>5 DEF Plan
    <3>2. new \notin V
      BY <1>5, <2>1, <3>1 DEF Tally, UNOCCUPIED, D_OCCUPIED, I_OCCUPIED, F_OCCUPIED
    <3> QED
      BY <1>5, <3>1, <3>2
  <2>3. PICK t, c : t = Taken(g, new, F_OCCUPIED) /\ c = write_zone(t, new, Data)
    OBVIOUS
  <2>4. /\ IsMemory(t) /\ Logged(d, t) /\ t.zone = g.zone
        /\ \A y \in Id : t.st[y] = IF y = new THEN F_OCCUPIED ELSE g.st[y]
    BY <1>5, <2>1, <2>3, TakenFields DEF UNOCCUPIED, F_OCCUPIED, I_OCCUPIED
  <2>5. t.writes = g.writes
    BY <1>5, <2>1, <2>3, MemoryFields
  <2>6. Quiet(d, g, t, at)
    BY <2>4, <2>5, QuietStates
  <2>7. Formed(Data)
    BY DEF Formed
  <2>8. Plan(t.zone, W, r)
    BY <1>5, <2>4
  <2>9. Quiet(d, t, c, at) /\ Beside(t, c, new, Data)
    BY <2>1, <2>2, <2>3, <2>4, <2>7, <2>8, QuietOutside
  <2>10. c.zone[x] = g.zone[x]
    BY <2>2, <2>4, <2>9 DEF Beside
  <2>11. b.m = c
    <3>1. b = [m |-> c, inode |-> [a.inode EXCEPT !.ptrs = Append(@, new)], full |-> FALSE]
      BY <1>4, <1>7, <2>3 DEF add_zone
    <3> QED
      BY <3>1
  <2>12. Quiet(d, g, c, at)
    BY <2>6, <2>9, QuietTwice
  <2>13. Quiet(d, m, g, at)
    BY <1>1, <1>4
  <2>14. Quiet(d, m, c, at)
    BY <2>12, <2>13, QuietTwice
  <2> QED
    BY <1>1, <1>2, <1>4, <2>10, <2>11, <2>14 DEF Longing
<1> QED
  BY <1>6, <1>7

\* It ends with a write that shows nothing either.
LEMMA AddEndShows ==
  ASSUME NEW d, NEW m, NEW x, NEW at, NEW a, Longing(d, m, x, at, a),
         NEW k, NEW y, y = InodeOf(a.inode.parent, k, a.inode.ptrs),
         NEW n, n = write_zone(a.m, x, y)
  PROVE  Shows(d, m, n, at, TreeOf(m.zone))
<1>1. Grown(d, x, at, a) /\ Quiet(d, m, a.m, at) /\ a.m.zone[x].type = "inode"
  BY DEF Longing
<1>2. PICK e, W, r, V, q : Growth(d, x, at, a, e, W, r, V, q)
  BY <1>1 DEF Grown
<1>3. PICK g, z : g = a.m /\ z = a.inode
  OBVIOUS
<1>4. /\ IsMemory(g) /\ Plan(g.zone, W, r) /\ x \in W /\ Formed(z) /\ z.type = "inode"
  BY <1>2, <1>3 DEF Growth
<1>5. x \in Id /\ Store(g.zone)
  BY <1>4 DEF Plan, IsMemory
<1>6. Formed(y) /\ y.type = "inode" /\ y.parent = z.parent /\ y.ptrs = z.ptrs
  <2>1. z.ptrs \in Seq(Id)
    BY <1>4, FormedIs
  <2>2. y = InodeOf(z.parent, k, z.ptrs) /\ Formed(z) /\ z.type = "inode"
    BY <1>3, <1>4
  <2> QED
    BY <2>1, <2>2, InodeGrows
<1>7. Sound(d, write_zone(a.m, x, y), at)
  BY <1>1, AddEnd
<1>8. PICK f : f = [g.zone EXCEPT ![x] = y]
  OBVIOUS
<1>9. Store(f) /\ \A c \in Id : f[c] = IF c = x THEN y ELSE g.zone[c]
  BY <1>5, <1>6, <1>8, StoreWrite
<1>10. n.zone = f
  <2>1. n = write_zone(g, x, y)
    BY <1>3
  <2>2. /\ \A o \in Id : \A c : write_zone(g, o, c) =
              [zone |-> [g.zone EXCEPT ![o] = c], st |-> g.st,
               writes |-> Append(g.writes, <<o, c>>)]
        /\ \A o \in Id : \A s : Taken(g, o, s) =
              [zone |-> g.zone, st |-> [g.st EXCEPT ![o] = s], writes |-> g.writes]
        /\ \A S : set_free_id(g, S) =
              [zone |-> g.zone, st |-> [i \in Id |-> IF i \in S THEN UNOCCUPIED ELSE g.st[i]],
               writes |-> g.writes]
    BY <1>4, MemoryFields
  <2>3. write_zone(g, x, y).zone = [g.zone EXCEPT ![x] = y]
    BY <1>5, <2>2
  <2> QED
    BY <1>8, <2>1, <2>3
<1>11. PICK X, s : Plan(f, X, s)
  BY <1>7, <1>10 DEF Sound, Whole
<1>12. \A c \in Id : f[c].type = g.zone[c].type /\ \A o, l : Ent(f[c], o, l) <=> Ent(g.zone[c], o, l)
  <2> SUFFICES ASSUME NEW c \in Id
               PROVE  f[c].type = g.zone[c].type /\ \A o, l : Ent(f[c], o, l) <=> Ent(g.zone[c], o, l)
    OBVIOUS
  <2>1. CASE c = x
    <3>1. f[c].type = "inode" /\ g.zone[c].type = "inode"
      BY <1>1, <1>3, <1>6, <1>9, <2>1
    <3> QED
      BY <3>1 DEF Ent
  <2>2. CASE c # x
    BY <1>9, <2>2
  <2> QED
    BY <2>1, <2>2
<1>13. AsBefore(g.zone, f, W) /\ AsBefore(f, g.zone, X)
  BY <1>4, <1>11, <1>12 DEF AsBefore, Plan
<1>14. TreeOf(g.zone) \subseteq TreeOf(f) /\ \A o, w : Spelled(g.zone, o, w) => Spelled(f, o, w)
  BY <1>4, <1>5, <1>13, TreeWithin
<1>15. TreeOf(f) \subseteq TreeOf(g.zone)
  BY <1>9, <1>11, <1>13, TreeWithin
<1>16. Written(g, x, y, f, n)
  BY <1>3, <1>5, <1>8, <1>9, <1>10 DEF Written
<1>17. Shows(d, g, n, at, TreeOf(f))
  BY <1>4, <1>14, <1>16, ShowsWrite
<1>18. TreeOf(f) = TreeOf(m.zone)
  BY <1>1, <1>3, <1>14, <1>15 DEF Quiet
<1>19. Quiet(d, m, g, at)
  BY <1>1, <1>3
<1>20. Shows(d, m, n, at, TreeOf(f))
  BY <1>17, <1>19, QuietShows
<1> QED
  BY <1>18, <1>20

\* add_data shows nothing.
LEMMA AddDataShows ==
  ASSUME NEW d, NEW m, NEW at, Sound(d, m, at), NEW U, NEW r,
         Plan(m.zone, U, r), Held(m.zone, U), Tally(m.st, m.zone, U),
         NEW x \in U, m.zone[x].type = "inode", NEW k \in Nat
  PROVE  Shows(d, m, add_data(m, x, k), at, TreeOf(m.zone))
<1>0. PICK f : Growing(m, x, k, f)
  BY ZonesAdded
<1>1. /\ f[0] = [m |-> m, inode |-> m.zone[x], full |-> FALSE]
      /\ \A i \in 1 .. k : f[i] = add_zone(f[i - 1])
      /\ add_data(m, x, k) =
           write_zone(f[k].m, x,
             IF f[k].full THEN f[k].inode
             ELSE [f[k].inode EXCEPT !.size = 1 + Len(f[k].inode.ptrs)])
  BY <1>0 DEF Growing
<1>2. Longing(d, m, x, at, f[0])
  <2>1. f[0].m = m /\ f[0].inode = m.zone[x]
    BY <1>1
  <2>2. x \in Id
    BY DEF Plan
  <2>3. IsMemory(m) /\ Logged(d, m) /\ Here(m.zone, at) /\ Formed(m.zone[x])
    BY <2>2 DEF Sound, IsMemory, Store
  <2>4. PICK st : st = m.zone
    OBVIOUS
  <2>5. st = [st EXCEPT ![x] = st[x]]
    <3>1. st = [i \in Id |-> st[i]]
      BY <2>3, <2>4 DEF IsMemory, Store
    <3> QED
      BY <2>2, <3>1
  <2>6. m.zone = [m.zone EXCEPT ![x] = m.zone[x]]
    BY <2>4, <2>5
  <2>7. Growth(d, x, at, f[0], m.zone, U, r, U, r)
    BY <2>1, <2>3, <2>6 DEF Growth
  <2>8. Quiet(d, m, m, at)
    BY QuietStates
  <2> QED
    BY <2>1, <2>7, <2>8 DEF Grown, Longing
<1>3. Longing(d, m, x, at, f[k])
  <2> DEFINE T == {i \in 0 .. k : Longing(d, m, x, at, f[i])}
  <2>1. 0 \in T
    BY <1>2
  <2>2. \A i \in 0 .. k - 1 : i \in T => i + 1 \in T
    <3> SUFFICES ASSUME NEW i \in 0 .. k - 1, Longing(d, m, x, at, f[i])
                 PROVE  Longing(d, m, x, at, f[i + 1])
      OBVIOUS
    <3>1. Longing(d, m, x, at, add_zone(f[i]))
      BY AddShows
    <3>2. i + 1 \in 1 .. k /\ (i + 1) - 1 = i
      OBVIOUS
    <3> QED
      BY <1>1, <3>1, <3>2
  <2>3. 0 .. k \subseteq T
    <3> HIDE DEF T
    <3> QED
      BY <2>1, <2>2, InductTo
  <2> QED
    BY <2>3
<1>4. PICK a : a = f[k]
  OBVIOUS
<1>5. Formed(a.inode) /\ a.inode.type = "inode" /\ Longing(d, m, x, at, a)
  BY <1>3, <1>4 DEF Longing, Grown, Growth
<1>6. a.inode = InodeOf(a.inode.parent, a.inode.size, a.inode.ptrs)
  BY <1>5, FormedIs
<1>7. \A n : [a.inode EXCEPT !.size = n] = InodeOf(a.inode.parent, n, a.inode.ptrs)
  BY <1>5, InodeParts
<1>8. \E n : add_data(m, x, k) = write_zone(a.m, x, InodeOf(a.inode.parent, n, a.inode.ptrs))
  <2>1. CASE a.full
    BY <1>1, <1>4, <1>6, <2>1
  <2>2. CASE ~a.full
    BY <1>1, <1>4, <1>7, <2>2
  <2> QED
    BY <2>1, <2>2
<1>9. PICK n, y, b : /\ y = InodeOf(a.inode.parent, n, a.inode.ptrs)
                     /\ b = add_data(m, x, k) /\ b = write_zone(a.m, x, y)
  BY <1>8
<1>10. Shows(d, m, b, at, TreeOf(m.zone))
  BY <1>5, <1>9, AddEndShows
<1> QED
  BY <1>9, <1>10

-----------------------------------------------------------------------------
(* What hangs below a zone.                                                 *)

\* With a zone C has all it points to.
Onward(d, C) == \A a \in C : \A i, c : Pt(d[a], i, c) => c \in C

\* The zones x leads to, and x.
Hang(d, U, x) == {y \in U : \A C \in SUBSET U : x \in C /\ Onward(d, C) => y \in C}

\* It is closed, and the least.
LEMMA HangIs ==
  ASSUME NEW d, NEW U, NEW r, Plan(d, U, r), NEW x \in U
  PROVE  /\ x \in Hang(d, U, x) /\ Hang(d, U, x) \subseteq U
         /\ Onward(d, Hang(d, U, x))
         /\ \A C : C \subseteq U /\ x \in C /\ Onward(d, C) => Hang(d, U, x) \subseteq C
<1>1. x \in Hang(d, U, x) /\ Hang(d, U, x) \subseteq U
  BY DEF Hang
<1>2. ASSUME NEW a \in Hang(d, U, x), NEW i, NEW c, Pt(d[a], i, c)
      PROVE  c \in Hang(d, U, x)
  <2>1. a \in U /\ \A C \in SUBSET U : x \in C /\ Onward(d, C) => a \in C
    BY DEF Hang
  <2>2. c \in U
    BY <1>2, <2>1 DEF Plan
  <2>3. ASSUME NEW C \in SUBSET U, x \in C, Onward(d, C)
        PROVE  c \in C
    BY <1>2, <2>1, <2>3 DEF Onward
  <2> QED
    BY <2>2, <2>3 DEF Hang
<1>3. Onward(d, Hang(d, U, x))
  BY <1>2 DEF Onward
<1>4. ASSUME NEW C, C \subseteq U, x \in C, Onward(d, C)
      PROVE  Hang(d, U, x) \subseteq C
  BY <1>4 DEF Hang
<1> QED
  BY <1>1, <1>3, <1>4

\* Anything in it but x is pointed to from it.
LEMMA HangHeld ==
  ASSUME NEW d, NEW U, NEW r, Plan(d, U, r), NEW x \in U, NEW y \in Hang(d, U, x), y # x
  PROVE  \E a \in Hang(d, U, x) : \E i : Pt(d[a], i, y)
<1> SUFFICES ASSUME \A a \in Hang(d, U, x) : \A i : ~Pt(d[a], i, y)
             PROVE  FALSE
  OBVIOUS
<1> DEFINE C == Hang(d, U, x) \ {y}
<1>1. x \in C /\ C \subseteq U
  BY HangIs
<1>2. Onward(d, C)
  <2>1. Onward(d, Hang(d, U, x))
    BY HangIs
  <2> QED
    BY <2>1 DEF Onward
<1>3. Hang(d, U, x) \subseteq C
  <2> HIDE DEF C
  <2> QED
    BY <1>1, <1>2, HangIs
<1> QED
  BY <1>3

\* Files and directories in it are no higher than x.
LEMMA HangLow ==
  ASSUME NEW d, NEW U, NEW r, Plan(d, U, r), NEW x \in U, d[x].type \in {"dentry", "inode"},
         NEW y \in Hang(d, U, x), d[y].type \in {"dentry", "inode"}
  PROVE  r[x] <= r[y]
<1> DEFINE C == {c \in U : d[c].type \in {"dentry", "inode"} => r[x] <= r[c]}
<1>1. r \in [U -> Nat]
  BY DEF Plan
<1>2. x \in C /\ C \subseteq U
  BY <1>1
<1>3. ASSUME NEW a \in C, NEW i, NEW c, Pt(d[a], i, c)
      PROVE  c \in C
  <2>1. c \in U /\ Kid(d, a, c, r)
    BY <1>3 DEF Plan
  <2>2. d[a].type \in {"dentry", "inode"}
    BY <1>3 DEF Pt
  <2>3. r[a] \in Nat /\ r[c] \in Nat /\ r[x] \in Nat /\ r[x] <= r[a]
    BY <1>1, <2>1, <2>2
  <2>4. CASE d[a].type = "dentry"
    <3>1. r[c] = r[a] + 1
      BY <2>1, <2>4 DEF Kid
    <3> QED
      BY <2>1, <2>3, <3>1
  <2>5. CASE d[a].type = "inode"
    <3>1. d[c].type = "data"
      BY <2>1, <2>5 DEF Kid
    <3> QED
      BY <2>1, <3>1
  <2> QED
    BY <2>2, <2>4, <2>5
<1>4. Onward(d, C)
  <2> HIDE DEF C
  <2> QED
    BY <1>3 DEF Onward
<1>5. Hang(d, U, x) \subseteq C
  <2> HIDE DEF C
  <2> QED
    BY <1>2, <1>4, HangIs
<1> QED
  BY <1>5

\* What hangs below two entries of a directory is apart.
LEMMA HangsApart ==
  ASSUME NEW d, NEW U, NEW r, Plan(d, U, r), NEW x \in U, d[x].type = "dentry",
         NEW i, NEW a, Pt(d[x], i, a), NEW j, NEW b, Pt(d[x], j, b), a # b
  PROVE  Hang(d, U, a) \cap Hang(d, U, b) = {}
<1>0. r \in [U -> Nat]
  BY DEF Plan
<1>1. /\ a \in U /\ d[a].type \in {"dentry", "inode"} /\ r[a] = r[x] + 1
      /\ b \in U /\ d[b].type \in {"dentry", "inode"} /\ r[b] = r[x] + 1
  <2>1. a \in U /\ Kid(d, x, a, r) /\ b \in U /\ Kid(d, x, b, r)
    BY DEF Plan
  <2> QED
    BY <2>1 DEF Kid
<1>2. x \notin Hang(d, U, a) /\ x \notin Hang(d, U, b)
  <2>1. r[x] \in Nat /\ ~(r[a] <= r[x]) /\ ~(r[b] <= r[x])
    BY <1>0, <1>1
  <2> QED
    BY <1>1, <2>1, HangLow
<1>3. ASSUME NEW y, NEW k, NEW c, y \in U, Pt(d[y], k, c), c \in {a, b}
      PROVE  y = x
  BY <1>3 DEF Plan
<1> DEFINE C == Hang(d, U, a) \ Hang(d, U, b)
<1>4. a \in C /\ C \subseteq U
  <2>1. a \notin Hang(d, U, b)
    <3> SUFFICES ASSUME a \in Hang(d, U, b)
                 PROVE  FALSE
      OBVIOUS
    <3>1. PICK y \in Hang(d, U, b) : \E k : Pt(d[y], k, a)
      BY <1>1, HangHeld
    <3>2. y \in U
      BY <1>1, HangIs
    <3> QED
      BY <1>2, <1>3, <3>1, <3>2
  <2> QED
    BY <1>1, <2>1, HangIs
<1>5. ASSUME NEW y \in C, NEW k, NEW c, Pt(d[y], k, c)
      PROVE  c \in C
  <2>1. y \in U /\ c \in Hang(d, U, a)
    <3>1. Onward(d, Hang(d, U, a))
      BY <1>1, HangIs
    <3> QED
      BY <1>4, <1>5, <3>1 DEF Onward
  <2>2. ASSUME c \in Hang(d, U, b)
        PROVE  FALSE
    <3>1. c # b
      BY <1>2, <1>3, <1>5, <2>1
    <3>2. PICK z \in Hang(d, U, b) : \E l : Pt(d[z], l, c)
      BY <1>1, <2>2, <3>1, HangHeld
    <3>3. z \in U
      BY <1>1, HangIs
    <3>4. z = y
      BY <1>5, <2>1, <3>2, <3>3 DEF Plan
    <3> QED
      BY <3>2, <3>4
  <2> QED
    BY <2>1, <2>2
<1>6. Onward(d, C)
  <2> HIDE DEF C
  <2> QED
    BY <1>5 DEF Onward
<1>7. Hang(d, U, a) \subseteq C
  <2> HIDE DEF C
  <2> QED
    BY <1>1, <1>4, <1>6, HangIs
<1> QED
  BY <1>7

\* All there is in some sets.
Union(H, s) == UNION {H[i] : i \in s}

\* What zone z points to, and what hangs there.
Leading(z, K, g) == \A c : (\E i : Pt(z, i, c)) <=> \E i \in K : g[i] = c
Hangs(d, U, K, g, H) == \A i \in K : H[i] = Hang(d, U, g[i])

\* x, and what hangs below its entries, is what hangs below x.
LEMMA HangParts ==
  ASSUME NEW d, NEW U, NEW r, Plan(d, U, r), NEW x \in U, d[x].type = "dentry", NEW K, NEW g,
         Leading(d[x], K, g), NEW H, Hangs(d, U, K, g, H)
  PROVE  /\ Hang(d, U, x) = {x} \cup Union(H, K)
         /\ x \notin Union(H, K)
<1> DEFINE C == {x} \cup UNION {Hang(d, U, g[i]) : i \in K}
<1>0. r \in [U -> Nat]
  BY DEF Plan
<1>1. ASSUME NEW i \in K
      PROVE  /\ g[i] \in U /\ d[g[i]].type \in {"dentry", "inode"} /\ r[g[i]] = r[x] + 1
             /\ g[i] \in Hang(d, U, x)
  <2>1. PICK j : Pt(d[x], j, g[i])
    BY DEF Leading
  <2>2. Kid(d, x, g[i], r) /\ g[i] \in U
    BY <2>1 DEF Plan
  <2>3. g[i] \in Hang(d, U, x)
    BY <2>1, HangIs DEF Onward
  <2> QED
    BY <2>2, <2>3 DEF Kid
<1>2. C \subseteq U /\ x \in C
  BY <1>1, HangIs
<1>3. ASSUME NEW y \in C, NEW k, NEW c, Pt(d[y], k, c)
      PROVE  c \in C
  <2>1. CASE y = x
    <3>1. PICK i \in K : g[i] = c
      BY <1>3, <2>1 DEF Leading
    <3>2. c \in Hang(d, U, g[i])
      BY <1>1, <3>1, HangIs
    <3> QED
      BY <3>2
  <2>2. ASSUME NEW i \in K, y \in Hang(d, U, g[i])
        PROVE  c \in C
    <3>1. c \in Hang(d, U, g[i])
      BY <1>1, <1>3, <2>2, HangIs DEF Onward
    <3> QED
      BY <3>1
  <2> QED
    BY <2>1, <2>2
<1>4. Onward(d, C)
  <2> HIDE DEF C
  <2> QED
    BY <1>3 DEF Onward
<1>5. Hang(d, U, x) \subseteq C
  <2> HIDE DEF C
  <2> QED
    BY <1>2, <1>4, HangIs
<1>6. ASSUME NEW i \in K
      PROVE  Hang(d, U, g[i]) \subseteq Hang(d, U, x)
  <2>1. Hang(d, U, x) \subseteq U /\ Onward(d, Hang(d, U, x))
    BY HangIs
  <2> QED
    BY <1>1, <2>1, HangIs
<1>7. C \subseteq Hang(d, U, x)
  <2>1. x \in Hang(d, U, x)
    BY HangIs
  <2> QED
    BY <1>6, <2>1
<1>8. ASSUME NEW i \in K
      PROVE  x \notin Hang(d, U, g[i])
  <2>1. r[x] \in Nat /\ ~(r[g[i]] <= r[x])
    BY <1>0, <1>1
  <2> QED
    BY <1>1, <2>1, HangLow
<1>9. Union(H, K) = UNION {Hang(d, U, g[i]) : i \in K}
  BY DEF Union, Hangs
<1> QED
  BY <1>5, <1>7, <1>8, <1>9

\* A file has its data zones.
LEMMA HangFile ==
  ASSUME NEW d, NEW U, NEW r, Store(d), Plan(d, U, r), NEW x \in U, d[x].type = "inode"
  PROVE  /\ IsFiniteSet(Hang(d, U, x))
         /\ Cardinality(Hang(d, U, x)) = 1 + Len(d[x].ptrs)
<1>1. PICK p : p = d[x].ptrs
  OBVIOUS
<1>2. PICK n : n = Len(p)
  OBVIOUS
<1>3. n \in Nat /\ \A i, c : Pt(d[x], i, c) <=> i \in 1 .. n /\ p[i] = c
  <2>1. Formed(d[x])
    BY DEF Store, Plan
  <2> QED
    BY <1>1, <1>2, <2>1, Pointers
<1> DEFINE Z == {p[i] : i \in 1 .. n}
           C == {x} \cup Z
<1>4. ASSUME NEW i \in 1 .. n
      PROVE  p[i] \in U /\ d[p[i]].type = "data" /\ p[i] \in Hang(d, U, x) /\ p[i] # x
  <2>1. Pt(d[x], i, p[i])
    BY <1>3
  <2>2. Kid(d, x, p[i], r) /\ p[i] \in U
    BY <2>1 DEF Plan
  <2>3. p[i] \in Hang(d, U, x)
    BY <2>1, HangIs DEF Onward
  <2>4. d[p[i]].type = "data"
    BY <2>2 DEF Kid
  <2> QED
    BY <2>2, <2>3, <2>4
<1>5. C \subseteq U /\ x \in C
  BY <1>4
<1>6. ASSUME NEW y \in C, NEW k, NEW c, Pt(d[y], k, c)
      PROVE  c \in C
  <2>1. y = x
    BY <1>4, <1>6 DEF Pt
  <2> QED
    BY <1>3, <1>6, <2>1
<1>7. Onward(d, C)
  <2> HIDE DEF C
  <2> QED
    BY <1>6 DEF Onward
<1>8. Hang(d, U, x) \subseteq C
  <2> HIDE DEF C
  <2> QED
    BY <1>5, <1>7, HangIs
<1>9. C \subseteq Hang(d, U, x)
  BY <1>4, HangIs
<1>10. IsFiniteSet(Z) /\ Cardinality(Z) = n
  <2> DEFINE f == [i \in 1 .. n |-> p[i]]
  <2>1. \A i, j \in 1 .. n : p[i] = p[j] => i = j
    <3> SUFFICES ASSUME NEW i \in 1 .. n, NEW j \in 1 .. n, p[i] = p[j]
                 PROVE  i = j
      OBVIOUS
    <3>1. Pt(d[x], i, p[i]) /\ Pt(d[x], j, p[i])
      BY <1>3
    <3> QED
      BY <3>1 DEF Plan
  <2>2. f \in Bijection(1 .. n, Z)
    <3>1. f \in [1 .. n -> Z] /\ \A i \in 1 .. n : f[i] = p[i]
      OBVIOUS
    <3>2. f \in Injection(1 .. n, Z)
      BY <2>1, <3>1 DEF Injection, IsInjective
    <3>3. f \in Surjection(1 .. n, Z)
      BY <3>1 DEF Surjection
    <3> QED
      BY <3>2, <3>3 DEF Bijection
  <2>3. IsFiniteSet(1 .. n) /\ Cardinality(1 .. n) = n
    BY <1>3, FS_Interval
  <2>4. ExistsBijection(1 .. n, Z)
    BY <2>2 DEF ExistsBijection
  <2> HIDE DEF Z
  <2> QED
    BY <2>3, <2>4, FS_Bijection
<1>11. x \notin Z
  BY <1>4
<1>12. IsFiniteSet(Z \cup {x}) /\ Cardinality(Z \cup {x}) = n + 1
  <2> HIDE DEF Z
  <2> QED
    BY <1>10, <1>11, FS_AddElement
<1>13. Hang(d, U, x) = Z \cup {x}
  BY <1>8, <1>9
<1> QED
  BY <1>1, <1>2, <1>3, <1>12, <1>13

\* All hangs below the root.
LEMMA HangAll ==
  ASSUME NEW d, NEW U, NEW r, Plan(d, U, r), Held(d, U)
  PROVE  Hang(d, U, Root) = U
<1> DEFINE H == Hang(d, U, Root)
<1>0. Root \in U /\ r \in [U -> Nat]
  BY DEF Plan
<1>1. Root \in H /\ H \subseteq U /\ Onward(d, H)
  BY <1>0, HangIs
<1> HIDE DEF H
<1>2. ASSUME NEW y \in U \ H
      PROVE  \E a \in U \ H : \E i : Pt(d[a], i, y)
  BY <1>1 DEF Held, Onward
<1> DEFINE T == {r[y] : y \in {c \in U \ H : d[c].type \in {"dentry", "inode"}}}
<1>3. T = {}
  <2> SUFFICES ASSUME T # {}
               PROVE  FALSE
    OBVIOUS
  <2>1. T \subseteq Nat
    BY <1>0
  <2>2. PICK n \in T : \A k \in T : n <= k
    <3> HIDE DEF T
    <3> QED
      BY <2>1, LeastNat
  <2>3. PICK y \in U \ H : d[y].type \in {"dentry", "inode"} /\ r[y] = n
    BY <2>2
  <2>4. PICK a \in U \ H : \E i : Pt(d[a], i, y)
    BY <1>2
  <2>5. d[a].type \in {"dentry", "inode"} /\ Kid(d, a, y, r)
    BY <2>4 DEF Plan, Pt
  <2>6. d[a].type = "dentry" /\ r[y] = r[a] + 1
    BY <2>3, <2>5 DEF Kid
  <2>7. r[a] \in T
    BY <2>5
  <2>8. r[a] \in Nat /\ n <= r[a]
    BY <2>1, <2>2, <2>7
  <2> QED
    BY <2>3, <2>6, <2>8
<1>4. ASSUME NEW y \in U \ H
      PROVE  FALSE
  <2>1. PICK a \in U \ H : \E i : Pt(d[a], i, y)
    BY <1>2
  <2>2. d[a].type \in {"dentry", "inode"}
    BY <2>1 DEF Pt
  <2> QED
    BY <1>3, <2>2
<1>5. H = U
  BY <1>1, <1>4
<1> QED
  BY <1>5 DEF H

-----------------------------------------------------------------------------
(* Sums.                                                                    *)

\* A sum is the size of a union, if its terms are the sizes of sets apart.
Terms(w, S, H) ==
  /\ IsFiniteSet(S) /\ DOMAIN w = S
  /\ \A i \in S : IsFiniteSet(H[i]) /\ w[i] = Cardinality(H[i])
  /\ \A i, j \in S : i # j => H[i] \cap H[j] = {}
SumRec(w, S, h) ==
  h = [s \in SUBSET S |-> IF s = {} THEN 0
                          ELSE w[CHOOSE x \in s : TRUE] + h[s \ {CHOOSE x \in s : TRUE}]]

\* The sum of the community modules.
Total(w) == FoldFunction(+, 0, w)

\* One term more.
LEMMA UnionMore ==
  ASSUME NEW w, NEW S, NEW H, Terms(w, S, H), NEW s \in SUBSET S, NEW x \in s,
         IsFiniteSet(Union(H, s \ {x}))
  PROVE  /\ IsFiniteSet(Union(H, s))
         /\ Cardinality(Union(H, s)) = w[x] + Cardinality(Union(H, s \ {x}))
         /\ Cardinality(Union(H, s)) \in Nat
<1>1. PICK A, B : A = H[x] /\ B = Union(H, s \ {x})
  OBVIOUS
<1>2. Union(H, s) = A \cup B
  BY <1>1 DEF Union
<1>3. A \cap B = {}
  BY <1>1 DEF Union, Terms
<1>4. IsFiniteSet(A) /\ IsFiniteSet(B) /\ w[x] = Cardinality(A)
  BY <1>1 DEF Terms
<1>5. /\ IsFiniteSet(A \cup B) /\ Cardinality(A \cap B) = 0
      /\ Cardinality(A \cup B) = Cardinality(A) + Cardinality(B) - Cardinality(A \cap B)
  BY <1>3, <1>4, FS_Union, FS_EmptySet
<1>6. Cardinality(A) \in Nat /\ Cardinality(B) \in Nat
  BY <1>4, FS_CardinalityType
<1>7. Cardinality(A \cup B) = Cardinality(A) + Cardinality(B)
  BY <1>5, <1>6
<1> QED
  BY <1>1, <1>2, <1>4, <1>5, <1>6, <1>7

\* All unions are finite.
LEMMA UnionFinite ==
  ASSUME NEW w, NEW S, NEW H, Terms(w, S, H), NEW s \in SUBSET S
  PROVE  IsFiniteSet(Union(H, s))
<1> DEFINE Q == {H[i] : i \in s}
<1>1. IsFiniteSet(s)
  BY FS_Subset DEF Terms
<1>2. IsFiniteSet(Q)
  <2> DEFINE f == [i \in s |-> H[i]]
  <2>1. f \in [s -> Q] /\ \A T \in Q : \E i \in s : f[i] = T
    OBVIOUS
  <2>2. f \in Surjection(s, Q)
    BY <2>1 DEF Surjection
  <2> HIDE DEF Q, f
  <2> QED
    BY <1>1, <2>2, FS_Surjection
<1>3. \A T \in Q : IsFiniteSet(T)
  BY DEF Terms
<1>4. IsFiniteSet(UNION Q)
  <2> HIDE DEF Q
  <2> QED
    BY <1>2, <1>3, FS_UNION
<1> QED
  BY <1>4 DEF Union

\* The sum, set by set.
LEMMA SumRecIs ==
  ASSUME NEW w, NEW S, NEW H, Terms(w, S, H), NEW h, SumRec(w, S, h)
  PROVE  h[S] = Cardinality(Union(H, S))
<1> DEFINE Bad == {s \in SUBSET S : h[s] # Cardinality(Union(H, s))}
           T == {Cardinality(s) : s \in Bad}
<1>1. ASSUME NEW s \in SUBSET S
      PROVE  /\ IsFiniteSet(s) /\ Cardinality(s) \in Nat
             /\ h[s] = IF s = {} THEN 0
                       ELSE w[CHOOSE x \in s : TRUE] + h[s \ {CHOOSE x \in s : TRUE}]
  <2>1. IsFiniteSet(s)
    BY FS_Subset DEF Terms
  <2>2. Cardinality(s) \in Nat
    BY <2>1, FS_CardinalityType
  <2> QED
    BY <2>1, <2>2 DEF SumRec
<1>2. T = {}
  <2> SUFFICES ASSUME T # {}
               PROVE  FALSE
    OBVIOUS
  <2>1. T \subseteq Nat
    BY <1>1
  <2>2. PICK n \in T : \A k \in T : n <= k
    <3> HIDE DEF T
    <3> QED
      BY <2>1, LeastNat
  <2>3. PICK s \in SUBSET S : n = Cardinality(s) /\ h[s] # Cardinality(Union(H, s))
    BY <2>2
  <2>4. s # {}
    <3> SUFFICES ASSUME s = {}
                 PROVE  FALSE
      OBVIOUS
    <3>1. h[s] = 0
      BY <1>1
    <3>2. Union(H, s) = {}
      BY DEF Union
    <3> QED
      BY <2>3, <3>1, <3>2, FS_EmptySet
  <2>5. PICK x \in s : x = CHOOSE y \in s : TRUE
    BY <2>4
  <2>6. h[s] = w[x] + h[s \ {x}]
    BY <1>1, <2>4, <2>5
  <2>7. s \ {x} \in SUBSET S /\ Cardinality(s \ {x}) = Cardinality(s) - 1
    BY <1>1, FS_RemoveElement
  <2>8. n \in Nat /\ Cardinality(s \ {x}) = n - 1
    BY <2>1, <2>3, <2>7
  <2>9. h[s \ {x}] = Cardinality(Union(H, s \ {x}))
    <3> SUFFICES ASSUME h[s \ {x}] # Cardinality(Union(H, s \ {x}))
                 PROVE  FALSE
      OBVIOUS
    <3>1. Cardinality(s \ {x}) \in T
      BY <2>7
    <3>2. n <= Cardinality(s \ {x})
      <4> HIDE DEF T
      <4> QED
        BY <2>2, <3>1
    <3> QED
      BY <2>8, <3>2
  <2>10. IsFiniteSet(Union(H, s \ {x}))
    BY <2>7, UnionFinite
  <2>11. Cardinality(Union(H, s)) = w[x] + Cardinality(Union(H, s \ {x}))
    BY <2>10, UnionMore
  <2> QED
    BY <2>3, <2>6, <2>9, <2>11
<1>3. S \in SUBSET S
  OBVIOUS
<1> QED
  BY <1>2, <1>3

\* The sum of the terms.
LEMMA SumIs ==
  ASSUME NEW w, NEW S, NEW H, Terms(w, S, H)
  PROVE  Total(w) = Cardinality(Union(H, S))
<1> DEFINE g == [s \in SUBSET S |-> Cardinality(Union(H, s))]
<1>1. SumRec(w, S, g)
  <2>1. ASSUME NEW s \in SUBSET S
        PROVE  g[s] = IF s = {} THEN 0
                      ELSE w[CHOOSE x \in s : TRUE] + g[s \ {CHOOSE x \in s : TRUE}]
    <3>1. CASE s = {}
      <4>1. Union(H, s) = {}
        BY <3>1 DEF Union
      <4> QED
        BY <3>1, <4>1, FS_EmptySet
    <3>2. CASE s # {}
      <4>1. PICK x \in s : x = CHOOSE y \in s : TRUE
        BY <3>2
      <4>2. s \ {x} \in SUBSET S
        OBVIOUS
      <4>3. IsFiniteSet(Union(H, s \ {x}))
        BY <4>2, UnionFinite
      <4>4. Cardinality(Union(H, s)) = w[x] + Cardinality(Union(H, s \ {x}))
        BY <4>3, UnionMore
      <4>5. g[s] = w[x] + g[s \ {x}]
        BY <4>2, <4>4
      <4> QED
        BY <3>2, <4>1, <4>5
    <3> QED
      BY <3>1, <3>2
  <2>2. g = [s \in SUBSET S |-> g[s]]
    OBVIOUS
  <2> HIDE DEF g
  <2> QED
    BY <2>1, <2>2 DEF SumRec
<1>2. PICK h : h = CHOOSE f : SumRec(w, S, f)
  OBVIOUS
<1>3. SumRec(w, S, h)
  <2> HIDE DEF g
  <2> QED
    BY <1>1, <1>2
<1>4. Total(w) = h[S]
  <2>1. DOMAIN w = S
    BY DEF Terms
  <2> QED
    BY <1>2, <2>1, Zenon DEF Total, FoldFunction, FoldFunctionOnSet, MapThenFoldSet, SumRec
<1> QED
  BY <1>3, <1>4, SumRecIs
=============================================================================

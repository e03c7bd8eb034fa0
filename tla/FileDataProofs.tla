--------------------------- MODULE FileDataProofs ---------------------------
(***************************************************************************)
(* What TLAPS proves of FileData, for every number of files, zones and     *)
(* pointers: what the zones hold, that nothing in use has two pointers to  *)
(* it at any moment at which the server may die, and that between commands *)
(* the bitmap says which zones are in use and the size of a file is the    *)
(* number of its zones.                                                    *)
(***************************************************************************)
EXTENDS FileData, Basics, FiniteSetTheorems

\* What a zone is when it is written: one of the five things, as a whole.
Formed(z) ==
  \/ z = Blank
  \/ \E t : IsSeq(t) /\ Len(t) < ZONESIZE /\ z = Data(t)
  \/ \E s \in Seq(Id) : Len(s) <= IDX /\ z = Idx(s)
  \/ \E s \in Seq(Id) : \E n : Len(s) <= Pointers /\ z = Inode(s, n)
  \/ \E s \in [File -> {0} \cup Id] : z = Dentry(s)

Store(d) == d = [id \in Id |-> d[id]] /\ \A id \in Id : Formed(d[id])

\* Pointer i of zone z leads to c.
Pt(z, i, c) == i \in DOMAIN Refs(z) /\ Refs(z)[i] = c /\ c # 0

\* A zone has a level: 4 the root, 3 an inode, 2 and 1 index zones, 0 data.
KidLevel(l, i) == IF l = 4 THEN 3 ELSE IF l = 3 THEN Level(i) ELSE l - 1

Fits(z, l) ==
  /\ l = 4 => z.type = "dentry"
  /\ l = 3 => z.type = "inode"
  /\ l \in {1, 2} => z.type \in {"idx", "blank"}
  /\ l = 0 => z.type \in {"data", "blank"}

\* The zones of U are a forest on disk d that no pointer of U leaves.
Plan(d, U, lev) ==
  /\ U \subseteq Id /\ Root \in U
  /\ lev \in [U -> 0 .. 4]
  /\ \A z \in U : lev[z] = 4 <=> z = Root
  /\ \A z \in U : Fits(d[z], lev[z])
  /\ \A z \in U : \A i, c : Pt(d[z], i, c) => c \in U /\ lev[c] = KidLevel(lev[z], i)
  /\ \A z, y \in U : \A i, j, c : Pt(d[z], i, c) /\ Pt(d[y], j, c) => z = y /\ i = j

\* Each of them but the root is pointed to: the forest is one tree.
Held(d, U) == \A c \in U \ {Root} : \E z \in U : \E i : Pt(d[z], i, c)

Safe(d) == Store(d) /\ \E U, lev : Plan(d, U, lev)

\* The zones in U of d have no pointer that those of v do not have.
Within(d, v, U, lev) ==
  \A z \in U : Fits(d[z], lev[z]) /\ \A i, c : Pt(d[z], i, c) => Pt(v[z], i, c)

-----------------------------------------------------------------------------
(* Zones and memory.                                                        *)

\* The pointers of each kind of zone.
LEMMA RefsOf ==
  /\ Refs(Blank) = <<>>
  /\ \A t : Refs(Data(t)) = <<>>
  /\ \A s : Refs(Idx(s)) = s
  /\ \A s, n : Refs(Inode(s, n)) = s
  /\ \A s : Refs(Dentry(s)) = s
BY DEF Refs, Blank, Data, Idx, Inode, Dentry

\* What the type of a zone says of it.
LEMMA FormedIs ==
  ASSUME NEW z, Formed(z)
  PROVE  /\ z.type \in {"blank", "data", "idx", "inode", "dentry"}
         /\ z.type = "blank" => z = Blank
         /\ z.type = "data" => IsSeq(z.text) /\ Len(z.text) < ZONESIZE
         /\ z.type = "idx" => z = Idx(z.zones) /\ z.zones \in Seq(Id) /\ Len(z.zones) <= IDX
         /\ z.type = "inode" => /\ z = Inode(z.ptrs, z.size) /\ z.ptrs \in Seq(Id)
                                /\ Len(z.ptrs) <= Pointers
         /\ z.type = "dentry" => z = Dentry(z.subs) /\ z.subs \in [File -> {0} \cup Id]
<1>1. CASE z = Blank
  BY <1>1 DEF Blank
<1>2. CASE \E t : IsSeq(t) /\ Len(t) < ZONESIZE /\ z = Data(t)
  BY <1>2 DEF Data
<1>3. CASE \E s \in Seq(Id) : Len(s) <= IDX /\ z = Idx(s)
  BY <1>3 DEF Idx
<1>4. CASE \E s \in Seq(Id) : \E n : Len(s) <= Pointers /\ z = Inode(s, n)
  BY <1>4 DEF Inode
<1>5. CASE \E s \in [File -> {0} \cup Id] : z = Dentry(s)
  BY <1>5 DEF Dentry
<1> QED
  BY <1>1, <1>2, <1>3, <1>4, <1>5 DEF Formed

\* The memory a command computes on.
IsMemory(m) ==
  /\ m = [zone |-> m.zone, st |-> m.st, short |-> m.short, writes |-> m.writes]
  /\ Store(m.zone)
  /\ m.st \in [Id -> UNOCCUPIED .. I_OCCUPIED]
  /\ m.short \subseteq {"file", "index"}
  /\ IsSeq(m.writes)

\* What the functions of alloc.c and the flag of a shortage change of it.
LEMMA MemoryFields ==
  ASSUME NEW m, IsMemory(m)
  PROVE  /\ \A id, z : write_zone(m, id, z) =
              [zone |-> [m.zone EXCEPT ![id] = z], st |-> m.st, short |-> m.short,
               writes |-> Append(m.writes, <<id, z>>)]
         /\ \A id, s : TakenAs(m, id, s) =
              [zone |-> m.zone, st |-> [m.st EXCEPT ![id] = s], short |-> m.short,
               writes |-> m.writes]
         /\ \A where : Short(m, where) =
              [zone |-> m.zone, st |-> m.st, short |-> m.short \cup {where}, writes |-> m.writes]
         /\ \A S : set_free_id(m, S) =
              [zone |-> m.zone, st |-> [i \in Id |-> IF i \in S THEN UNOCCUPIED ELSE m.st[i]],
               short |-> m.short, writes |-> m.writes]
<1>1. m = [zone |-> m.zone, st |-> m.st, short |-> m.short, writes |-> m.writes]
  BY DEF IsMemory
<1>2. ASSUME NEW id, NEW z
      PROVE  write_zone(m, id, z) =
               [zone |-> [m.zone EXCEPT ![id] = z], st |-> m.st, short |-> m.short,
                writes |-> Append(m.writes, <<id, z>>)]
  <2>1. PICK a, ws : a = [m.zone EXCEPT ![id] = z] /\ ws = Append(m.writes, <<id, z>>)
    OBVIOUS
  <2>2. PICK n : n = [zone |-> a, st |-> m.st, short |-> m.short, writes |-> m.writes]
    OBVIOUS
  <2>3. [m EXCEPT !.zone = a] = n
    BY <1>1, <2>2
  <2>4. [m EXCEPT !.zone[id] = z] = n
    BY <1>1, <2>1, <2>3
  <2>5. write_zone(m, id, z) = [n EXCEPT !.writes = Append(n.writes, <<id, z>>)]
    BY <2>4 DEF write_zone
  <2>6. write_zone(m, id, z) = [n EXCEPT !.writes = ws]
    BY <2>1, <2>2, <2>5
  <2>7. [n EXCEPT !.writes = ws]
          = [zone |-> a, st |-> m.st, short |-> m.short, writes |-> ws]
    BY <2>2
  <2> QED
    BY <2>1, <2>6, <2>7
<1>3. ASSUME NEW id, NEW s
      PROVE  TakenAs(m, id, s) =
               [zone |-> m.zone, st |-> [m.st EXCEPT ![id] = s], short |-> m.short,
                writes |-> m.writes]
  BY <1>1 DEF TakenAs
<1>4. ASSUME NEW where
      PROVE  Short(m, where) =
               [zone |-> m.zone, st |-> m.st, short |-> m.short \cup {where}, writes |-> m.writes]
  BY <1>1 DEF Short
<1>5. ASSUME NEW S
      PROVE  set_free_id(m, S) =
               [zone |-> m.zone, st |-> [i \in Id |-> IF i \in S THEN UNOCCUPIED ELSE m.st[i]],
                short |-> m.short, writes |-> m.writes]
  BY <1>1 DEF set_free_id
<1> QED
  BY <1>2, <1>3, <1>4, <1>5, Zenon

-----------------------------------------------------------------------------
(* Where a command is: on disk it began with d, its memory is m.  In v its  *)
(* copies of the zones in O, which it has not yet written back, are in      *)
(* place; U are the zones in use then.                                      *)

\* Each disk between two of the writes of the command is safe.
Logged(d, m) ==
  \E h : /\ h[0] = d /\ h[Len(m.writes)] = m.zone
         /\ \A k \in 0 .. Len(m.writes) : Safe(h[k])
         /\ \A k \in 1 .. Len(m.writes) :
              h[k] = [h[k - 1] EXCEPT ![m.writes[k][1]] = m.writes[k][2]]

\* The zones in use are taken, and none else is but for what an index lost.
Tally(m, v, U) ==
  /\ room \in Id
  /\ \A z \in U : z <= room /\ m.st[z] # UNOCCUPIED
  /\ \A z \in Id : z > room => m.st[z] # UNOCCUPIED
  /\ "index" \notin m.short =>
       Held(v, U) /\ \A z \in Id : z <= room /\ m.st[z] # UNOCCUPIED => z \in U

\* What rm_inode comes by: z points to x, or does so through others.
Below(v, z, x) == \E i : Pt(v[z], i, x)

\* A zone c of level l that has all the pointers there can be below it.
Full(v, c, l) ==
  /\ l # 0 => Len(Refs(v[c])) = IDX
  /\ l = 2 => \A e : Below(v, c, e) => Len(Refs(v[e])) = IDX

\* A zone z of level l whose pointers all lead to full zones but for the last.
Packed(v, z, l) ==
  \A i, c : Pt(v[z], i, c) /\ i # Len(Refs(v[z])) => Full(v, c, KidLevel(l, i))

\* Copies are taken from an inode down.
Rooted(v, lev, O) == \A x \in O : lev[x] < 3 => \E y \in O : Below(v, y, x)

\* The size of inode z counts its zones.
Sized(v, z) == v[z].size = Cardinality(ZonesOfFile(v, z))

\* While no zone was missing, files are filled in order, and the size of each
\* that is not being written is right.
Tidy(m, v, U, lev, O) ==
  m.short = {} => /\ \A z \in U : lev[z] \in {2, 3} => Packed(v, z, lev[z])
                  /\ \A z \in U \ O : lev[z] = 3 => Sized(v, z)

Amid(d, m, v, U, lev, O) ==
  /\ IsMemory(m) /\ Logged(d, m)
  /\ Store(v) /\ Plan(v, U, lev) /\ Within(m.zone, v, U, lev)
  /\ O \subseteq U /\ \A z \in Id \ O : v[z] = m.zone[z]
  /\ Rooted(v, lev, O)
  /\ Tally(m, v, U) /\ Tidy(m, v, U, lev, O)

\* A part of a forest is a forest.
LEMMA PlanWithin ==
  ASSUME NEW d, NEW v, NEW U, NEW lev, Plan(v, U, lev), Within(d, v, U, lev)
  PROVE  Plan(d, U, lev)
<1>1. \A z \in U : Fits(d[z], lev[z])
  BY DEF Within
<1>2. \A z \in U : \A i, c : Pt(d[z], i, c) => Pt(v[z], i, c)
  BY DEF Within
<1>3. \A z \in U : \A i, c : Pt(d[z], i, c) => c \in U /\ lev[c] = KidLevel(lev[z], i)
  BY ZenonT(30), <1>2 DEF Plan
<1>4. \A z, y \in U : \A i, j, c : Pt(d[z], i, c) /\ Pt(d[y], j, c) => z = y /\ i = j
  <2>1. \A z, y \in U : \A i, j, c : Pt(v[z], i, c) /\ Pt(v[y], j, c) => z = y /\ i = j
    BY DEF Plan
  <2> QED
    BY <1>2, <2>1
<1> QED
  BY <1>1, <1>3, <1>4 DEF Plan

\* A disk with one zone written.
LEMMA StoreWrite ==
  ASSUME NEW d, NEW id \in Id, NEW z, Store(d), Formed(z)
  PROVE  /\ Store([d EXCEPT ![id] = z])
         /\ \A x \in Id : [d EXCEPT ![id] = z][x] = IF x = id THEN z ELSE d[x]
<1> DEFINE e == [d EXCEPT ![id] = z]
<1>1. d = [x \in Id |-> d[x]]
  BY DEF Store
<1>2. DOMAIN d = Id
  BY <1>1
<1>3. e = [x \in Id |-> IF x = id THEN z ELSE d[x]]
  BY <1>1, <1>2
<1>4. \A x \in Id : e[x] = IF x = id THEN z ELSE d[x]
  BY <1>3
<1> HIDE DEF e
<1>5. e = [x \in Id |-> e[x]]
  BY <1>3, <1>4
<1>6. \A x \in Id : Formed(e[x])
  BY <1>4 DEF Store
<1>7. Store(e)
  BY <1>5, <1>6 DEF Store
<1> QED
  BY <1>4, <1>7 DEF e

\* A write of a command is one step more in its log.
LEMMA LogWrite ==
  ASSUME NEW d, NEW m, NEW id \in Id, NEW z, NEW U, NEW lev,
         IsMemory(m), Logged(d, m), Formed(z),
         NEW e, e = [m.zone EXCEPT ![id] = z], Plan(e, U, lev)
  PROVE  /\ IsMemory(write_zone(m, id, z)) /\ Logged(d, write_zone(m, id, z))
         /\ write_zone(m, id, z).zone = e
         /\ write_zone(m, id, z).st = m.st
         /\ write_zone(m, id, z).short = m.short
<1> DEFINE n == write_zone(m, id, z)
           L == Len(m.writes)
<1>1. n = [zone |-> e, st |-> m.st, short |-> m.short, writes |-> Append(m.writes, <<id, z>>)]
  BY MemoryFields
<1>2. Store(e)
  BY StoreWrite DEF IsMemory
<1>3. /\ IsSeq(Append(m.writes, <<id, z>>)) /\ L \in Nat
      /\ Len(Append(m.writes, <<id, z>>)) = L + 1
      /\ \A k \in 1 .. L : Append(m.writes, <<id, z>>)[k] = m.writes[k]
      /\ Append(m.writes, <<id, z>>)[L + 1] = <<id, z>>
  BY SeqGrows DEF IsMemory
<1> HIDE DEF n, L
<1>4. /\ n = [zone |-> n.zone, st |-> n.st, short |-> n.short, writes |-> n.writes]
      /\ n.zone = e /\ n.st = m.st /\ n.short = m.short
      /\ n.writes = Append(m.writes, <<id, z>>)
  BY <1>1
<1>5. IsMemory(n)
  BY <1>2, <1>3, <1>4 DEF IsMemory
<1>6. PICK h : /\ h[0] = d /\ h[L] = m.zone
               /\ \A k \in 0 .. L : Safe(h[k])
               /\ \A k \in 1 .. L : h[k] = [h[k - 1] EXCEPT ![m.writes[k][1]] = m.writes[k][2]]
  BY DEF Logged, L
<1> DEFINE g == [k \in 0 .. L + 1 |-> IF k = L + 1 THEN e ELSE h[k]]
<1>7. /\ \A k \in 0 .. L : g[k] = h[k]
      /\ g[L + 1] = e
  BY <1>3
<1> HIDE DEF g
<1>8. \A k \in 0 .. L + 1 : Safe(g[k])
  <2>1. Safe(e)
    BY <1>2 DEF Safe
  <2> QED
    BY <1>3, <1>6, <1>7, <2>1
<1>9. ASSUME NEW k \in 1 .. L + 1
      PROVE  g[k] = [g[k - 1] EXCEPT ![n.writes[k][1]] = n.writes[k][2]]
  <2>1. CASE k = L + 1
    <3>1. k - 1 = L /\ L \in 0 .. L
      BY <1>3, <2>1
    <3>2. g[k - 1] = m.zone
      BY <1>6, <1>7, <3>1
    <3>3. n.writes[k] = <<id, z>>
      BY <1>3, <1>4, <2>1
    <3>4. n.writes[k][1] = id /\ n.writes[k][2] = z
      BY <3>3
    <3> QED
      BY <1>7, <2>1, <3>2, <3>4
  <2>2. CASE k \in 1 .. L
    <3>1. k \in 0 .. L /\ k - 1 \in 0 .. L
      BY <1>3, <2>2
    <3>2. g[k] = h[k] /\ g[k - 1] = h[k - 1]
      BY <1>7, <3>1
    <3>3. n.writes[k] = m.writes[k]
      BY <1>3, <1>4, <2>2
    <3> QED
      BY <1>6, <2>2, <3>2, <3>3
  <2> QED
    BY <1>3, <2>1, <2>2
<1>10. Logged(d, n)
  <2>1. Len(n.writes) = L + 1
    BY <1>3, <1>4
  <2>2. g[0] = d
    BY <1>3, <1>6, <1>7
  <2>3. g[Len(n.writes)] = n.zone
    BY <1>4, <1>7, <2>1
  <2>4. \A k \in 0 .. Len(n.writes) : Safe(g[k])
    BY <1>8, <2>1
  <2>5. \A k \in 1 .. Len(n.writes) :
          g[k] = [g[k - 1] EXCEPT ![n.writes[k][1]] = n.writes[k][2]]
    BY <1>9, <2>1
  <2> QED
    BY <2>2, <2>3, <2>4, <2>5 DEF Logged
<1> QED
  BY <1>4, <1>5, <1>10 DEF n

-----------------------------------------------------------------------------
(* The zones of a file.                                                     *)

\* What a level is.
LEMMA Levels ==
  /\ \A i : Level(i) \in {0, 1, 2}
  /\ \A l \in 1 .. 4 : \A i : KidLevel(l, i) \in 0 .. 3 /\ KidLevel(l, i) < l
BY DEF Level, KidLevel

\* How many pointers a zone of level l can have.
Most(l) == IF l = 3 THEN Pointers ELSE IDX

\* A zone of any level has room for a pointer or a character.
LEMMA MostIsPositive ==
  \A l : Most(l) \in Nat \ {0}
BY SizeAssumption DEF Most

\* What a zone of a level that has pointers points to.
LEMMA PointersOf ==
  ASSUME NEW z, NEW l \in 1 .. 3, Formed(z), Fits(z, l)
  PROVE  /\ Refs(z) \in Seq(Id) /\ Len(Refs(z)) <= Most(l)
         /\ l = 3 => Refs(z) = z.ptrs
         /\ l # 3 => Refs(z) = ZonesOf(z)
<1>1. CASE l = 3
  <2>1. z.type = "inode"
    BY <1>1 DEF Fits
  <2>2. z = Inode(z.ptrs, z.size) /\ z.ptrs \in Seq(Id) /\ Len(z.ptrs) <= Pointers
    BY <2>1, FormedIs
  <2>3. Refs(z) = z.ptrs
    BY <2>1 DEF Refs
  <2> QED
    BY <1>1, <2>2, <2>3 DEF Most
<1>2. CASE l # 3
  <2>1. z.type \in {"idx", "blank"}
    BY <1>2 DEF Fits
  <2>2. CASE z.type = "idx"
    <3>1. z.zones \in Seq(Id) /\ Len(z.zones) <= IDX
      BY <2>2, FormedIs
    <3>2. Refs(z) = z.zones /\ ZonesOf(z) = z.zones
      BY <2>2 DEF Refs, ZonesOf
    <3> QED
      BY <1>2, <3>1, <3>2 DEF Most
  <2>3. CASE z.type = "blank"
    <3>1. Refs(z) = <<>> /\ ZonesOf(z) = <<>>
      BY <2>3 DEF Refs, ZonesOf
    <3> QED
      BY <1>2, <3>1, MostIsPositive
  <2> QED
    BY <2>1, <2>2, <2>3
<1> QED
  BY <1>1, <1>2

\* A zone of data points to nothing, one of pointers one level down.
LEMMA Kids ==
  ASSUME NEW v, NEW U, NEW lev, Store(v), Plan(v, U, lev), NEW z \in U, lev[z] \in 0 .. 2
  PROVE  /\ lev[z] = 0 => \A i, c : ~Pt(v[z], i, c)
         /\ lev[z] # 0 => \A c : c \in Range(ZonesOf(v[z])) <=> \E i : Pt(v[z], i, c)
<1>1. z \in Id /\ Formed(v[z]) /\ Fits(v[z], lev[z])
  BY DEF Plan, Store
<1>2. ASSUME lev[z] = 0
      PROVE  \A i, c : ~Pt(v[z], i, c)
  <2>1. Refs(v[z]) = <<>>
    BY <1>1, <1>2, RefsOf, FormedIs DEF Fits, Refs
  <2> QED
    BY <2>1 DEF Pt
<1>3. ASSUME lev[z] # 0
      PROVE  \A c : c \in Range(ZonesOf(v[z])) <=> \E i : Pt(v[z], i, c)
  <2>1. Refs(v[z]) = ZonesOf(v[z]) /\ Refs(v[z]) \in Seq(Id)
    BY <1>1, <1>3, PointersOf
  <2>2. PICK zones \in Seq(Id) : zones = Refs(v[z])
    BY <2>1
  <2>3. \A i \in DOMAIN zones : zones[i] # 0
    BY SizeAssumption DEF Id, Root
  <2>4. Range(zones) = {zones[i] : i \in DOMAIN zones}
    BY DEF Range
  <2>5. \A c : c \in Range(zones) <=> \E i : Pt(v[z], i, c)
    BY <2>2, <2>3, <2>4 DEF Pt
  <2> QED
    BY <2>1, <2>2, <2>5
<1> QED
  BY <1>2, <1>3

\* A set of zones in use is all that hangs on one of them.
Hanging(v, U, z, P) ==
  /\ P \subseteq U /\ z \in P
  /\ \A x \in P : \A i, c : Pt(v[x], i, c) => c \in P
  /\ \A x \in P : x # z => \E y \in P : \E i : Pt(v[y], i, x)

\* rm_idx_zone comes by all that hangs on an index zone.
LEMMA PartZones ==
  ASSUME NEW v, NEW U, NEW lev, Store(v), Plan(v, U, lev), NEW z \in U, lev[z] \in 0 .. 2
  PROVE  Hanging(v, U, z, IF lev[z] = 0 THEN {z} ELSE rm_idx_zone(v, z, lev[z] = 2))
<1>1. \A x \in U : \A i, c : Pt(v[x], i, c) => c \in U /\ lev[c] = KidLevel(lev[x], i)
  BY DEF Plan
<1>2. CASE lev[z] = 0
  <2>1. \A i, c : ~Pt(v[z], i, c)
    BY <1>2, Kids
  <2> QED
    BY <1>2, <2>1 DEF Hanging
<1>3. CASE lev[z] = 1
  <2> DEFINE R == Range(ZonesOf(v[z]))
  <2>1. rm_idx_zone(v, z, lev[z] = 2) = {z} \cup R
    BY <1>3 DEF rm_idx_zone
  <2>2. \A c : c \in R <=> \E i : Pt(v[z], i, c)
    BY <1>3, Kids
  <2> HIDE DEF R
  <2>3. \A c \in R : c \in U /\ lev[c] = 0
    BY <1>1, <1>3, <2>2 DEF KidLevel
  <2>4. \A c \in R : \A i, e : ~Pt(v[c], i, e)
    BY <2>3, Kids
  <2>5. Hanging(v, U, z, {z} \cup R)
    BY <2>2, <2>3, <2>4 DEF Hanging
  <2> QED
    BY <1>3, <2>1, <2>5
<1>4. CASE lev[z] = 2
  <2> DEFINE R == Range(ZonesOf(v[z]))
             T == UNION {Range(ZonesOf(v[y])) : y \in R}
  <2>1. rm_idx_zone(v, z, lev[z] = 2) = {z} \cup R \cup T
    BY <1>4 DEF rm_idx_zone
  <2>2. \A c : c \in R <=> \E i : Pt(v[z], i, c)
    BY <1>4, Kids
  <2>3. \A c : c \in T <=> \E y \in R : c \in Range(ZonesOf(v[y]))
    OBVIOUS
  <2> HIDE DEF R, T
  <2>4. \A y \in R : y \in U /\ lev[y] = 1
    BY <1>1, <1>4, <2>2 DEF KidLevel
  <2>5. \A y \in R : \A c : c \in Range(ZonesOf(v[y])) <=> \E i : Pt(v[y], i, c)
    BY <2>4, Kids
  <2>6. \A c \in T : c \in U /\ lev[c] = 0
    BY <1>1, <2>3, <2>4, <2>5 DEF KidLevel
  <2>7. \A c \in T : \A i, e : ~Pt(v[c], i, e)
    BY <2>6, Kids
  <2>8. Hanging(v, U, z, {z} \cup R \cup T)
    <3>1. {z} \cup R \cup T \subseteq U
      BY <2>4, <2>6
    <3>2. \A x \in {z} \cup R \cup T : \A i, c : Pt(v[x], i, c) => c \in {z} \cup R \cup T
      BY <2>2, <2>3, <2>5, <2>7
    <3>3. \A x \in {z} \cup R \cup T :
            x # z => \E y \in {z} \cup R \cup T : \E i : Pt(v[y], i, x)
      BY <2>2, <2>3, <2>5
    <3> QED
      BY <3>1, <3>2, <3>3 DEF Hanging
  <2> QED
    BY <1>4, <2>1, <2>8
<1> QED
  BY <1>2, <1>3, <1>4

\* rm_inode comes by all that hangs on an inode.
LEMMA FileZones ==
  ASSUME NEW v, NEW U, NEW lev, Store(v), Plan(v, U, lev), NEW id \in U, lev[id] = 3
  PROVE  Hanging(v, U, id, ZonesOfFile(v, id)) /\ Root \notin ZonesOfFile(v, id)
<1> DEFINE ptrs == v[id].ptrs
           Part(i) == IF Level(i) = 0 THEN {ptrs[i]} ELSE rm_idx_zone(v, ptrs[i], Level(i) = 2)
           Zs == {id} \cup UNION {Part(i) : i \in DOMAIN ptrs}
<1>1. ZonesOfFile(v, id) = Zs
  BY DEF ZonesOfFile
<1>2. id \in Id /\ Formed(v[id]) /\ Fits(v[id], lev[id])
  BY DEF Plan, Store
<1>3. Refs(v[id]) = ptrs /\ Refs(v[id]) \in Seq(Id)
  BY <1>2, PointersOf
<1>4. \A i, c : Pt(v[id], i, c) <=> i \in DOMAIN ptrs /\ c = ptrs[i]
  <2>1. PICK zones \in Seq(Id) : zones = Refs(v[id])
    BY <1>3
  <2>2. \A i \in DOMAIN zones : zones[i] # 0
    BY SizeAssumption DEF Id, Root
  <2> QED
    BY <1>3, <2>1, <2>2 DEF Pt
<1> HIDE DEF ptrs
<1>5. \A i \in DOMAIN ptrs : ptrs[i] \in U /\ lev[ptrs[i]] = Level(i)
  BY <1>4 DEF Plan, KidLevel
<1>6. ASSUME NEW i \in DOMAIN ptrs
      PROVE  Hanging(v, U, ptrs[i], Part(i))
  <2>1. ptrs[i] \in U /\ lev[ptrs[i]] = Level(i) /\ lev[ptrs[i]] \in 0 .. 2
    BY <1>5, Levels
  <2>2. PICK z \in U : z = ptrs[i] /\ lev[z] = Level(i)
    BY <2>1
  <2>3. Hanging(v, U, z, IF lev[z] = 0 THEN {z} ELSE rm_idx_zone(v, z, lev[z] = 2))
    BY <2>1, <2>2, PartZones
  <2> QED
    BY <2>2, <2>3
<1>7. \A x : x \in Zs <=> x = id \/ \E i \in DOMAIN ptrs : x \in Part(i)
  OBVIOUS
<1> HIDE DEF Zs, Part
<1>8. Zs \subseteq U
  BY <1>6, <1>7 DEF Hanging
<1>9. \A i \in DOMAIN ptrs : ptrs[i] \in Part(i)
  BY <1>6 DEF Hanging
<1>10. ASSUME NEW x \in Zs, NEW i, NEW c, Pt(v[x], i, c)
       PROVE  c \in Zs
  <2>1. CASE x = id
    BY <1>4, <1>7, <1>9, <1>10, <2>1
  <2>2. ASSUME NEW j \in DOMAIN ptrs, x \in Part(j)
        PROVE  c \in Zs
    <3>1. c \in Part(j)
      BY <1>6, <1>10, <2>2 DEF Hanging
    <3> QED
      BY <1>7, <3>1
  <2> QED
    BY <1>7, <2>1, <2>2
<1>11. ASSUME NEW x \in Zs, x # id
       PROVE  \E y \in Zs : \E i : Pt(v[y], i, x)
  <2>1. PICK j \in DOMAIN ptrs : x \in Part(j)
    BY <1>7, <1>11
  <2>2. CASE x = ptrs[j]
    BY <1>4, <1>7, <2>2
  <2>3. CASE x # ptrs[j]
    <3>1. PICK y \in Part(j) : \E i : Pt(v[y], i, x)
      BY <1>6, <2>1, <2>3 DEF Hanging
    <3> QED
      BY <1>7, <3>1
  <2> QED
    BY <2>2, <2>3
<1>12. id \in Zs
  BY <1>7
<1>13. Hanging(v, U, id, Zs)
  BY <1>8, <1>10, <1>11, <1>12 DEF Hanging
<1>14. Root \notin Zs
  <2>1. Root \in U /\ lev[Root] = 4 /\ id # Root
    BY DEF Plan
  <2>2. \A y \in U : \A i : ~Pt(v[y], i, Root)
    <3>1. \A y \in U : lev[y] \in 0 .. 4 /\ Formed(v[y]) /\ Fits(v[y], lev[y])
      BY DEF Plan, Store
    <3> SUFFICES ASSUME NEW y \in U, NEW i, Pt(v[y], i, Root)
                 PROVE  FALSE
      OBVIOUS
    <3>2. lev[Root] = KidLevel(lev[y], i)
      BY DEF Plan
    <3>3. lev[y] # 0
      BY <3>1, Kids
    <3>4. KidLevel(lev[y], i) \in 0 .. 3
      BY <3>1, <3>3, Levels
    <3> QED
      BY <2>1, <3>2, <3>4
  <2> QED
    BY <1>8, <1>11, <2>1, <2>2
<1> QED
  BY <1>1, <1>13, <1>14

\* What a zone points to is in use and of a lower level.
LEMMA Down ==
  ASSUME NEW v, NEW U, NEW lev, Store(v), Plan(v, U, lev), NEW y \in U, NEW x, Below(v, y, x)
  PROVE  /\ x \in U /\ lev[x] < lev[y] /\ lev[y] \in 1 .. 4 /\ lev[x] \in 0 .. 3
         /\ \A u \in U : Below(v, u, x) => u = y
<1>1. PICK i : Pt(v[y], i, x)
  BY DEF Below
<1>2. lev[y] \in 0 .. 4 /\ lev[y] # 0
  <2>1. lev[y] \in 0 .. 4
    BY DEF Plan
  <2>2. lev[y] = 0 => lev[y] \in 0 .. 2
    OBVIOUS
  <2>3. lev[y] = 0 => ~Pt(v[y], i, x)
    BY <2>2, Kids
  <2> QED
    BY <1>1, <2>1, <2>3
<1>3. x \in U /\ lev[x] = KidLevel(lev[y], i)
  BY <1>1 DEF Plan
<1>4. \A p, q \in U : \A a, b, c : Pt(v[p], a, c) /\ Pt(v[q], b, c) => p = q
  BY DEF Plan
<1>5. \A u \in U : Below(v, u, x) => u = y
  BY <1>1, <1>4 DEF Below
<1>6. lev[y] \in 1 .. 4
  BY <1>2
<1> QED
  BY <1>3, <1>5, <1>6, Levels

\* Where everything has something of a higher level there is nothing.
LEMMA Climb ==
  ASSUME NEW U, NEW lev \in [U -> 0 .. 4], NEW T, T \subseteq U,
         \A x \in T : \E y \in T : lev[y] > lev[x]
  PROVE  T = {}
<1> SUFFICES ASSUME T # {} PROVE FALSE
  OBVIOUS
<1> DEFINE S == {lev[x] : x \in T}
<1>1. S \subseteq 0 .. 4 /\ S # {}
  OBVIOUS
<1>2. PICK l \in S : \A k \in S : k <= l
  <2> HIDE DEF S
  <2> QED
    BY <1>1, GreatestNat
<1>3. PICK x \in T : lev[x] = l
  OBVIOUS
<1>4. PICK y \in T : lev[y] > lev[x]
  OBVIOUS
<1>5. lev[y] \in S /\ lev[y] \in 0 .. 4 /\ l \in 0 .. 4
  BY <1>1
<1> QED
  BY <1>2, <1>3, <1>4, <1>5

\* What hangs on a zone hangs on something above it, and is below the zone.
LEMMA HangsLow ==
  ASSUME NEW v, NEW U, NEW lev, Store(v), Plan(v, U, lev), NEW z \in U, NEW P,
         Hanging(v, U, z, P)
  PROVE  \A x \in P : x # z => /\ lev[x] < lev[z]
                               /\ \E y \in P : Below(v, y, x) /\ lev[y] > lev[x]
<1>1. P \subseteq U /\ \A x \in P : x # z => \E y \in P : Below(v, y, x)
  BY DEF Hanging, Below
<1>2. \A x \in P : x # z => \E y \in P : Below(v, y, x) /\ lev[y] > lev[x]
  <2> SUFFICES ASSUME NEW x \in P, x # z
               PROVE  \E y \in P : Below(v, y, x) /\ lev[y] > lev[x]
    OBVIOUS
  <2>1. PICK y \in P : Below(v, y, x)
    BY <1>1
  <2>2. lev[x] < lev[y] /\ lev[y] \in 1 .. 4 /\ lev[x] \in 0 .. 3
    BY <1>1, <2>1, Down
  <2> QED
    BY <2>1, <2>2
<1> DEFINE T == {x \in P : x # z /\ ~(lev[x] < lev[z])}
<1>3. lev \in [U -> 0 .. 4] /\ \A x \in U : lev[x] \in 0 .. 4
  BY DEF Plan
<1>4. ASSUME NEW x \in T
      PROVE  \E y \in T : lev[y] > lev[x]
  <2>1. PICK y \in P : Below(v, y, x) /\ lev[y] > lev[x]
    BY <1>2
  <2>2. lev[x] \in 0 .. 4 /\ lev[y] \in 0 .. 4 /\ lev[z] \in 0 .. 4
    BY <1>1, <1>3
  <2>3. y \in T
    BY <2>1, <2>2
  <2> QED
    BY <2>1, <2>3
<1>5. T = {}
  <2>1. T \subseteq U
    BY <1>1
  <2> HIDE DEF T
  <2> QED
    BY <1>3, <1>4, <2>1, Climb
<1> QED
  BY <1>2, <1>5

\* What hangs on two pointers of a zone is apart.
LEMMA HangApart ==
  ASSUME NEW v, NEW U, NEW lev, Store(v), Plan(v, U, lev), NEW q \in U,
         NEW z \in U, NEW y \in U, Below(v, q, z), Below(v, q, y), z # y,
         NEW P, Hanging(v, U, z, P), NEW Q, Hanging(v, U, y, Q)
  PROVE  P \cap Q = {} /\ q \notin P
<1>1. lev[z] < lev[q] /\ lev[y] < lev[q] /\ lev \in [U -> 0 .. 4] /\ P \subseteq U /\ Q \subseteq U
  BY Down DEF Plan, Hanging
<1>2. /\ \A x \in P : x # z => lev[x] < lev[z] /\ \E u \in P : Below(v, u, x) /\ lev[u] > lev[x]
      /\ \A x \in Q : x # y => lev[x] < lev[y] /\ \E u \in Q : Below(v, u, x) /\ lev[u] > lev[x]
  BY HangsLow
<1>3. \A x \in U : lev[x] \in 0 .. 4
  BY <1>1
<1>4. q \notin P /\ q \notin Q
  BY <1>1, <1>2, <1>3
<1>5. z \notin Q
  <2> SUFFICES ASSUME z \in Q PROVE FALSE
    OBVIOUS
  <2>1. PICK u \in Q : Below(v, u, z)
    BY <1>2
  <2>2. u = q
    BY <1>1, <2>1, Down
  <2> QED
    BY <1>4, <2>2
<1>6. y \notin P
  <2> SUFFICES ASSUME y \in P PROVE FALSE
    OBVIOUS
  <2>1. PICK u \in P : Below(v, u, y)
    BY <1>2
  <2>2. u = q
    BY <1>1, <2>1, Down
  <2> QED
    BY <1>4, <2>2
<1>7. ASSUME NEW x \in P \cap Q
      PROVE  \E u \in P \cap Q : lev[u] > lev[x]
  <2>1. x # z /\ x # y
    BY <1>5, <1>6
  <2>2. PICK u \in P : Below(v, u, x) /\ lev[u] > lev[x]
    BY <1>2, <2>1
  <2>3. PICK t \in Q : Below(v, t, x)
    BY <1>2, <2>1
  <2>4. t = u
    BY <1>1, <2>2, <2>3, Down
  <2> QED
    BY <2>2, <2>3, <2>4
<1>8. P \cap Q \subseteq U
  BY <1>1
<1>9. P \cap Q = {}
  BY <1>1, <1>7, <1>8, Climb
<1> QED
  BY <1>4, <1>9

\* The zones of a file by its pointers.
LEMMA OfFile ==
  ASSUME NEW v, NEW U, NEW lev, Store(v), Plan(v, U, lev), NEW id \in U, lev[id] = 3
  PROVE  \A x : x \in ZonesOfFile(v, id) <=>
                  \/ x = id \/ Below(v, id, x)
                  \/ \E y : Below(v, id, y) /\ (Below(v, y, x) \/ \E e : Below(v, y, e) /\ Below(v, e, x))
<1>1. PICK P : P = ZonesOfFile(v, id)
  OBVIOUS
<1>2. Hanging(v, U, id, P) /\ Root \notin P
  BY <1>1, FileZones
<1>3. P \subseteq U /\ id \in P /\ \A x \in P : \A c : Below(v, x, c) => c \in P
  BY <1>2 DEF Hanging, Below
<1>4. \A x \in P : x # id => /\ lev[x] < 3
                             /\ \E y \in P : Below(v, y, x) /\ lev[y] > lev[x]
  BY <1>2, HangsLow
<1>5. \A x \in P : lev[x] \in 0 .. 4
  BY <1>3 DEF Plan
<1>6. ASSUME NEW x \in P, x # id, ~Below(v, id, x)
      PROVE  \E y \in P : y # id /\ Below(v, y, x) /\ lev[y] > lev[x]
  BY <1>4, <1>6
<1>7. ASSUME NEW x \in P, x # id, ~Below(v, id, x)
      PROVE  \E y : Below(v, id, y) /\ (Below(v, y, x) \/ \E e : Below(v, y, e) /\ Below(v, e, x))
  <2>1. PICK y \in P : y # id /\ Below(v, y, x) /\ lev[y] > lev[x]
    BY <1>6, <1>7
  <2>2. CASE Below(v, id, y)
    BY <2>1, <2>2
  <2>3. CASE ~Below(v, id, y)
    <3>1. PICK e \in P : e # id /\ Below(v, e, y) /\ lev[e] > lev[y]
      BY <1>6, <2>1, <2>3
    <3>2. CASE Below(v, id, e)
      BY <2>1, <3>1, <3>2
    <3>3. CASE ~Below(v, id, e)
      <4>1. PICK g \in P : g # id /\ Below(v, g, e) /\ lev[g] > lev[e]
        BY <1>6, <3>1, <3>3
      <4>2. lev[g] < 3 /\ lev[g] \in 0 .. 4 /\ lev[e] \in 0 .. 4 /\ lev[y] \in 0 .. 4 /\ lev[x] \in 0 .. 4
        BY <1>4, <1>5, <4>1
      <4> QED
        BY <2>1, <3>1, <4>1, <4>2
    <3> QED
      BY <3>2, <3>3
  <2> QED
    BY <2>2, <2>3
<1> QED
  BY <1>1, <1>3, <1>7

\* A file none of whose pointers change has the zones it had.
LEMMA SameFile ==
  ASSUME NEW v, NEW U, NEW lev, Store(v), Plan(v, U, lev),
         NEW w, NEW U2, NEW lev2, Store(w), Plan(w, U2, lev2),
         NEW id \in U, id \in U2, lev[id] = 3, lev2[id] = 3,
         \A x \in ZonesOfFile(v, id) : \A c : Below(w, x, c) <=> Below(v, x, c)
  PROVE  ZonesOfFile(w, id) = ZonesOfFile(v, id)
<1>1. PICK P, Q : P = ZonesOfFile(v, id) /\ Q = ZonesOfFile(w, id)
  OBVIOUS
<1>2. \A x : x \in P <=>
               \/ x = id \/ Below(v, id, x)
               \/ \E y : Below(v, id, y) /\ (Below(v, y, x) \/ \E e : Below(v, y, e) /\ Below(v, e, x))
  BY <1>1, OfFile
<1>3. \A x : x \in Q <=>
               \/ x = id \/ Below(w, id, x)
               \/ \E y : Below(w, id, y) /\ (Below(w, y, x) \/ \E e : Below(w, y, e) /\ Below(w, e, x))
  BY <1>1, OfFile
<1>4. id \in P /\ \A c : Below(w, id, c) <=> Below(v, id, c)
  BY <1>1, <1>2
<1>5. \A y : Below(v, id, y) => y \in P /\ \A c : Below(w, y, c) <=> Below(v, y, c)
  BY <1>1, <1>2
<1>6. \A y, e : Below(v, id, y) /\ Below(v, y, e) => e \in P /\ \A c : Below(w, e, c) <=> Below(v, e, c)
  BY <1>1, <1>2
<1>7. \A x : x \in Q <=> x \in P
  BY <1>2, <1>3, <1>4, <1>5, <1>6
<1> QED
  BY <1>1, <1>7

\* No copy is of a zone of a file that is not being written.
LEMMA CopiesApart ==
  ASSUME NEW v, NEW U, NEW lev, Store(v), Plan(v, U, lev), NEW O, O \subseteq U,
         Rooted(v, lev, O), NEW z \in U \ O, lev[z] = 3
  PROVE  ZonesOfFile(v, z) \cap O = {}
<1> DEFINE P == ZonesOfFile(v, z)
<1>1. Hanging(v, U, z, P)
  BY FileZones
<1> HIDE DEF P
<1>2. /\ \A x \in P : x # z => lev[x] < lev[z] /\ \E y \in P : Below(v, y, x) /\ lev[y] > lev[x]
      /\ P \subseteq U /\ lev \in [U -> 0 .. 4]
  BY <1>1, HangsLow DEF Hanging, Plan
<1>3. ASSUME NEW x \in P \cap O
      PROVE  \E y \in P \cap O : lev[y] > lev[x]
  <2>1. x # z /\ x \in U
    BY <1>2
  <2>2. lev[x] < 3 /\ \E y \in P : Below(v, y, x) /\ lev[y] > lev[x]
    BY <1>2, <2>1
  <2>3. PICK y \in P : Below(v, y, x) /\ lev[y] > lev[x]
    BY <2>2
  <2>4. PICK u \in O : Below(v, u, x)
    BY <2>2 DEF Rooted
  <2>5. u = y
    BY <1>2, <2>3, <2>4, Down
  <2> QED
    BY <2>3, <2>4, <2>5
<1>4. P \cap O \subseteq U
  OBVIOUS
<1>5. P \cap O = {}
  BY <1>2, <1>3, <1>4, Climb
<1> QED
  BY <1>5 DEF P

\* A zone stays full when none of the full ones changes its pointers.
LEMMA FullKept ==
  ASSUME NEW v, NEW U, NEW lev, Store(v), Plan(v, U, lev), NEW w,
         \A x \in U : lev[x] \in {1, 2} /\ Len(Refs(v[x])) = IDX => Refs(w[x]) = Refs(v[x]),
         NEW c \in U, lev[c] \in 0 .. 2, Full(v, c, lev[c])
  PROVE  Full(w, c, lev[c])
<1>1. CASE lev[c] = 0
  BY <1>1 DEF Full
<1>2. CASE lev[c] = 1
  BY <1>2 DEF Full
<1>3. CASE lev[c] = 2
  <2>1. Len(Refs(v[c])) = IDX /\ Refs(w[c]) = Refs(v[c])
    BY <1>3 DEF Full
  <2>2. \A e : Below(w, c, e) <=> Below(v, c, e)
    BY <2>1 DEF Below, Pt
  <2>3. ASSUME NEW e, Below(v, c, e)
        PROVE  Len(Refs(w[e])) = IDX
    <3>1. Len(Refs(v[e])) = IDX
      BY <1>3, <2>3 DEF Full
    <3>2. PICK i : Pt(v[c], i, e)
      BY <2>3 DEF Below
    <3>3. e \in U /\ lev[e] = KidLevel(2, i)
      BY <1>3, <3>2 DEF Plan
    <3>4. lev[e] = 1
      BY <3>3 DEF KidLevel
    <3> QED
      BY <3>1, <3>3, <3>4
  <2> QED
    BY <1>3, <2>1, <2>2, <2>3 DEF Full
<1> QED
  BY <1>1, <1>2, <1>3

\* A zone whose pointers do not change stays filled in order.
LEMMA PackedKept ==
  ASSUME NEW v, NEW U, NEW lev, Store(v), Plan(v, U, lev), NEW w,
         \A x \in U : lev[x] \in {1, 2} /\ Len(Refs(v[x])) = IDX => Refs(w[x]) = Refs(v[x]),
         NEW z \in U, lev[z] \in {2, 3}, Packed(v, z, lev[z]), Refs(w[z]) = Refs(v[z])
  PROVE  Packed(w, z, lev[z])
<1> SUFFICES ASSUME NEW i, NEW c, Pt(w[z], i, c), i # Len(Refs(w[z]))
             PROVE  Full(w, c, KidLevel(lev[z], i))
  BY DEF Packed
<1>1. Pt(v[z], i, c) /\ i # Len(Refs(v[z]))
  BY DEF Pt
<1>2. Full(v, c, KidLevel(lev[z], i))
  BY <1>1 DEF Packed
<1>3. c \in U /\ lev[c] = KidLevel(lev[z], i)
  BY <1>1 DEF Plan
<1>4. lev[c] \in 0 .. 2
  BY <1>3, Levels DEF KidLevel
<1> QED
  BY <1>2, <1>3, <1>4, FullKept

\* What changes no pointer and no size leaves files tidy.
LEMMA TidySame ==
  ASSUME NEW v, NEW U, NEW lev, Store(v), Plan(v, U, lev), NEW w, Store(w), Plan(w, U, lev),
         \A x \in U : Refs(w[x]) = Refs(v[x]),
         NEW m, NEW n, n.short = m.short, NEW O, NEW O2, O \subseteq O2,
         Tidy(m, v, U, lev, O), \A z \in U \ O2 : lev[z] = 3 => w[z].size = v[z].size
  PROVE  Tidy(n, w, U, lev, O2)
<1> SUFFICES ASSUME m.short = {}
             PROVE  /\ \A z \in U : lev[z] \in {2, 3} => Packed(w, z, lev[z])
                    /\ \A z \in U \ O2 : lev[z] = 3 => Sized(w, z)
  BY DEF Tidy
<1>1. /\ \A z \in U : lev[z] \in {2, 3} => Packed(v, z, lev[z])
      /\ \A z \in U \ O : lev[z] = 3 => Sized(v, z)
  BY DEF Tidy
<1>2. \A z \in U : lev[z] \in {2, 3} => Packed(w, z, lev[z])
  BY <1>1, PackedKept
<1>3. ASSUME NEW z \in U \ O2, lev[z] = 3
      PROVE  Sized(w, z)
  <2>1. Hanging(v, U, z, ZonesOfFile(v, z))
    BY <1>3, FileZones
  <2>2. \A x \in ZonesOfFile(v, z) : \A c : Below(w, x, c) <=> Below(v, x, c)
    BY <2>1 DEF Hanging, Below, Pt
  <2>3. ZonesOfFile(w, z) = ZonesOfFile(v, z)
    BY <1>3, <2>2, SameFile
  <2>4. Sized(v, z) /\ w[z].size = v[z].size
    BY <1>1, <1>3
  <2> QED
    BY <2>3, <2>4 DEF Sized
<1> QED
  BY <1>2, <1>3

-----------------------------------------------------------------------------
(* The size of a file.                                                      *)

\* The sets P[1] to P[n], and one more.
Together(B, P, n) == B \cup UNION {P[i] : i \in 1 .. n}

\* Sets that have no element in common have together as many as each.
LEMMA CountParts ==
  ASSUME NEW n \in Nat, NEW B, IsFiniteSet(B), NEW P, NEW c, c[0] = Cardinality(B),
         \A i \in 1 .. n : /\ IsFiniteSet(P[i]) /\ P[i] \cap B = {}
                           /\ c[i] = c[i - 1] + Cardinality(P[i]),
         \A i, j \in 1 .. n : i # j => P[i] \cap P[j] = {}
  PROVE  IsFiniteSet(Together(B, P, n)) /\ Cardinality(Together(B, P, n)) = c[n]
<1> DEFINE S(k) == B \cup UNION {P[i] : i \in 1 .. k}
           Done == {k \in Nat : IsFiniteSet(S(k)) /\ Cardinality(S(k)) = c[k]}
<1>1. 0 \in Done
  <2>1. S(0) = B
    OBVIOUS
  <2> QED
    BY <2>1
<1>2. ASSUME NEW k \in 0 .. n - 1, k \in Done
      PROVE  k + 1 \in Done
  <2>1. k \in Nat /\ k + 1 \in 1 .. n /\ (k + 1) - 1 = k
    OBVIOUS
  <2>2. PICK T, Q : T = S(k) /\ Q = P[k + 1]
    OBVIOUS
  <2>3. S(k + 1) = T \cup Q
    <3>1. 1 .. k + 1 = (1 .. k) \cup {k + 1}
      BY <2>1
    <3> QED
      BY <2>2, <3>1
  <2>4. T \cap Q = {}
    <3>1. \A i \in 1 .. k : P[i] \cap P[k + 1] = {}
      BY <2>1
    <3>2. P[k + 1] \cap B = {}
      BY <2>1
    <3> QED
      BY <2>2, <3>1, <3>2
  <2>5. IsFiniteSet(T) /\ Cardinality(T) = c[k] /\ IsFiniteSet(Q) /\ c[k + 1] = c[k] + Cardinality(Q)
    BY <1>2, <2>1, <2>2
  <2> HIDE DEF S
  <2>6. IsFiniteSet(T \cup Q)
    BY <2>5, FS_Union
  <2>7. Cardinality(T \cup Q) = Cardinality(T) + Cardinality(Q) - Cardinality(T \cap Q)
    BY <2>5, FS_Union
  <2>8. Cardinality(T) \in Nat /\ Cardinality(Q) \in Nat /\ Cardinality(T \cap Q) = 0
    BY <2>4, <2>5, FS_CardinalityType, FS_EmptySet
  <2>9. Cardinality(T \cup Q) = c[k + 1]
    BY <2>5, <2>7, <2>8
  <2>10. IsFiniteSet(S(k + 1)) /\ Cardinality(S(k + 1)) = c[k + 1]
    BY <2>3, <2>6, <2>9
  <2> QED
    BY <2>1, <2>10
<1>3. n \in Done
  <2> HIDE DEF Done
  <2>1. 0 .. n \subseteq Done
    BY <1>1, <1>2, InductTo
  <2> QED
    BY <2>1
<1> QED
  BY <1>3 DEF Together

\* The pointers of zone q.
Leads(v, q, zones) == zones \in Seq(Id) /\ Refs(v[q]) = zones

\* The pointers of a zone lead to zones in use.
LEMMA Pointed ==
  ASSUME NEW v, NEW U, NEW lev, Plan(v, U, lev), NEW q \in U,
         NEW zones, Leads(v, q, zones), NEW i \in DOMAIN zones
  PROVE  /\ Pt(v[q], i, zones[i]) /\ Below(v, q, zones[i])
         /\ zones[i] \in U /\ lev[zones[i]] = KidLevel(lev[q], i)
<1>1. zones[i] # 0
  BY SizeAssumption DEF Leads, Id, Root
<1>2. Pt(v[q], i, zones[i])
  BY <1>1 DEF Leads, Pt
<1>3. zones[i] \in U /\ lev[zones[i]] = KidLevel(lev[q], i)
  BY <1>2 DEF Plan
<1> QED
  BY <1>2, <1>3 DEF Below

\* P has what hangs on each of the zones, c how much hangs on the first of them.
Counted(v, U, zones, P, c) ==
  /\ c[0] = 1
  /\ \A i \in DOMAIN zones : /\ Hanging(v, U, zones[i], P[i]) /\ IsFiniteSet(P[i])
                            /\ c[i] = c[i - 1] + Cardinality(P[i])

\* A zone and what hangs on its pointers.
LEMMA HangCount ==
  ASSUME NEW v, NEW U, NEW lev, Store(v), Plan(v, U, lev), NEW q \in U,
         NEW zones, Leads(v, q, zones), NEW P, NEW c, Counted(v, U, zones, P, c)
  PROVE  /\ IsFiniteSet(Together({q}, P, Len(zones)))
         /\ Cardinality(Together({q}, P, Len(zones))) = c[Len(zones)]
<1>1. Len(zones) \in Nat /\ DOMAIN zones = 1 .. Len(zones)
  BY DEF Leads
<1>2. ASSUME NEW i \in DOMAIN zones
      PROVE  /\ Pt(v[q], i, zones[i]) /\ Below(v, q, zones[i])
             /\ zones[i] \in U /\ lev[zones[i]] < lev[q]
  <2>1. Pt(v[q], i, zones[i]) /\ Below(v, q, zones[i])
    BY Pointed
  <2>2. zones[i] \in U /\ lev[zones[i]] < lev[q]
    BY <2>1, Down
  <2> QED
    BY <2>1, <2>2
<1>3. ASSUME NEW i \in DOMAIN zones
      PROVE  P[i] \cap {q} = {}
  <2>1. zones[i] \in U /\ lev[zones[i]] < lev[q] /\ Hanging(v, U, zones[i], P[i])
    BY <1>2 DEF Counted
  <2>2. q # zones[i]
    <3>1. lev[q] \in 0 .. 4
      BY DEF Plan
    <3> QED
      BY <2>1, <3>1
  <2>3. \A x \in P[i] : x # zones[i] => lev[x] < lev[zones[i]]
    BY <2>1, HangsLow
  <2>4. lev[q] \in 0 .. 4 /\ lev[zones[i]] \in 0 .. 4
    BY <2>1 DEF Plan
  <2> QED
    BY <2>1, <2>2, <2>3, <2>4
<1>4. ASSUME NEW i \in DOMAIN zones, NEW j \in DOMAIN zones, i # j
      PROVE  P[i] \cap P[j] = {}
  <2>1. zones[i] # zones[j]
    <3>1. Pt(v[q], i, zones[i]) /\ Pt(v[q], j, zones[j])
      BY <1>2
    <3>2. \A a, b, x : Pt(v[q], a, x) /\ Pt(v[q], b, x) => a = b
      BY DEF Plan
    <3> QED
      BY <1>4, <3>1, <3>2
  <2>2. /\ zones[i] \in U /\ Below(v, q, zones[i]) /\ Hanging(v, U, zones[i], P[i])
        /\ zones[j] \in U /\ Below(v, q, zones[j]) /\ Hanging(v, U, zones[j], P[j])
    BY <1>2 DEF Counted
  <2> QED
    BY <2>1, <2>2, HangApart
<1>5. IsFiniteSet({q}) /\ Cardinality({q}) = 1
  BY FS_Singleton
<1> DEFINE n == Len(zones)
<1>6. n \in Nat /\ DOMAIN zones = 1 .. n
  BY <1>1
<1> HIDE DEF n
<1>7. \A i \in 1 .. n : IsFiniteSet(P[i]) /\ P[i] \cap {q} = {} /\ c[i] = c[i - 1] + Cardinality(P[i])
  BY <1>3, <1>6 DEF Counted
<1>8. \A i, j \in 1 .. n : i # j => P[i] \cap P[j] = {}
  BY <1>4, <1>6
<1>9. c[0] = Cardinality({q})
  BY <1>5 DEF Counted
<1>10. PICK B : B = {q}
  OBVIOUS
<1>11. /\ IsFiniteSet(B) /\ c[0] = Cardinality(B)
       /\ \A i \in 1 .. n : /\ IsFiniteSet(P[i]) /\ P[i] \cap B = {}
                           /\ c[i] = c[i - 1] + Cardinality(P[i])
  BY <1>5, <1>7, <1>9, <1>10
<1>12. IsFiniteSet(Together(B, P, n)) /\ Cardinality(Together(B, P, n)) = c[n]
  BY <1>6, <1>8, <1>11, CountParts
<1> QED
  BY <1>10, <1>12 DEF n

\* Multiples of a number, one after the other.
LEMMA Multiples ==
  ASSUME NEW i \in Int, NEW k \in Int
  PROVE  i * k = (i - 1) * k + k /\ 0 * k = 0 /\ i * k \in Int /\ (i - 1) * k \in Int
OBVIOUS

\* Zone z of level l and what hangs on it.
Part(v, z, l) == IF l = 0 THEN {z} ELSE rm_idx_zone(v, z, l = 2)

\* An index zone of data zones and those.
LEMMA FlatCount ==
  ASSUME NEW v, NEW U, NEW lev, Store(v), Plan(v, U, lev), NEW z \in U, lev[z] = 1
  PROVE  /\ IsFiniteSet(Part(v, z, 1))
         /\ Cardinality(Part(v, z, 1)) = 1 + Len(ZonesOf(v[z]))
<1>1. z \in Id /\ Formed(v[z]) /\ Fits(v[z], lev[z])
  BY DEF Plan, Store
<1>2. PICK zones \in Seq(Id) : zones = ZonesOf(v[z]) /\ Leads(v, z, zones)
  BY <1>1, PointersOf DEF Leads
<1> DEFINE P == [i \in DOMAIN zones |-> {zones[i]}]
           c == [i \in 0 .. Len(zones) |-> 1 + i]
<1>3. ASSUME NEW i \in DOMAIN zones
      PROVE  Hanging(v, U, zones[i], {zones[i]})
  <2>1. /\ Pt(v[z], i, zones[i]) /\ Below(v, z, zones[i])
        /\ zones[i] \in U /\ lev[zones[i]] = KidLevel(lev[z], i)
    BY <1>2, Pointed
  <2>2. KidLevel(lev[z], i) = 0
    BY DEF KidLevel
  <2>3. lev[zones[i]] = 0 /\ lev[zones[i]] \in 0 .. 2
    BY <2>1, <2>2
  <2> QED
    BY <2>1, <2>3, PartZones
<1>4. ASSUME NEW i \in DOMAIN zones
      PROVE  Hanging(v, U, zones[i], P[i]) /\ IsFiniteSet(P[i]) /\ c[i] = c[i - 1] + Cardinality(P[i])
  <2>1. P[i] = {zones[i]} /\ IsFiniteSet({zones[i]}) /\ Cardinality({zones[i]}) = 1
    BY FS_Singleton
  <2>2. c[i] = c[i - 1] + 1
    BY <1>2
  <2> QED
    BY <1>3, <2>1, <2>2
<1>5. c[0] = 1 /\ c[Len(zones)] = 1 + Len(zones)
  BY <1>2
<1>6. Together({z}, P, Len(zones)) = Part(v, z, 1)
  <2>1. DOMAIN zones = 1 .. Len(zones)
    BY <1>2
  <2>2. UNION {P[i] : i \in 1 .. Len(zones)} = Range(zones)
    BY <2>1 DEF Range
  <2>3. Part(v, z, 1) = {z} \cup Range(zones)
    BY <1>2 DEF Part, rm_idx_zone
  <2> HIDE DEF P
  <2> QED
    BY <2>2, <2>3 DEF Together
<1> HIDE DEF P, c
<1>7. c[0] = 1
  BY <1>5
<1>8. Counted(v, U, zones, P, c)
  BY <1>4, <1>7 DEF Counted
<1>9. /\ IsFiniteSet(Together({z}, P, Len(zones)))
      /\ Cardinality(Together({z}, P, Len(zones))) = c[Len(zones)]
  BY <1>2, <1>8, HangCount
<1> QED
  BY <1>2, <1>5, <1>6, <1>9

\* An index zone of index zones, those, and their data zones.
LEMMA DeepCount ==
  ASSUME NEW v, NEW U, NEW lev, Store(v), Plan(v, U, lev), NEW z \in U, lev[z] = 2,
         NEW zones \in Seq(Id), zones = ZonesOf(v[z]), NEW c, c[0] = 1,
         \A i \in DOMAIN zones : c[i] = c[i - 1] + (1 + Len(ZonesOf(v[zones[i]])))
  PROVE  /\ IsFiniteSet(Part(v, z, 2))
         /\ Cardinality(Part(v, z, 2)) = c[Len(zones)]
<1>1. z \in Id /\ Formed(v[z]) /\ Fits(v[z], lev[z])
  BY DEF Plan, Store
<1>2. Leads(v, z, zones)
  BY <1>1, PointersOf DEF Leads
<1> DEFINE P == [i \in DOMAIN zones |-> Part(v, zones[i], 1)]
<1>3. ASSUME NEW i \in DOMAIN zones
      PROVE  zones[i] \in U /\ lev[zones[i]] = 1
  <2>1. /\ Pt(v[z], i, zones[i]) /\ Below(v, z, zones[i])
        /\ zones[i] \in U /\ lev[zones[i]] = KidLevel(lev[z], i)
    BY <1>2, Pointed
  <2>2. KidLevel(lev[z], i) = 1
    BY DEF KidLevel
  <2> QED
    BY <2>1, <2>2
<1>4. ASSUME NEW i \in DOMAIN zones
      PROVE  Hanging(v, U, zones[i], P[i]) /\ IsFiniteSet(P[i]) /\ c[i] = c[i - 1] + Cardinality(P[i])
  <2>1. PICK y \in U : y = zones[i] /\ lev[y] = 1
    BY <1>3
  <2>2. lev[y] = 1 /\ lev[y] \in 0 .. 2
    BY <2>1
  <2>3. Hanging(v, U, y, Part(v, y, 1))
    <3>1. Hanging(v, U, y, Part(v, y, lev[y]))
      BY <2>2, PartZones DEF Part
    <3> QED
      BY <2>2, <3>1
  <2>4. IsFiniteSet(Part(v, y, 1)) /\ Cardinality(Part(v, y, 1)) = 1 + Len(ZonesOf(v[y]))
    BY <2>2, FlatCount
  <2>5. P[i] = Part(v, y, 1)
    BY <2>1
  <2> HIDE DEF P
  <2> QED
    BY <2>1, <2>3, <2>4, <2>5
<1>5. Together({z}, P, Len(zones)) = Part(v, z, 2)
  <2>1. DOMAIN zones = 1 .. Len(zones)
    OBVIOUS
  <2>2. UNION {P[i] : i \in 1 .. Len(zones)}
          = Range(zones) \cup UNION {Range(ZonesOf(v[y])) : y \in Range(zones)}
    <3>1. \A i \in 1 .. Len(zones) : P[i] = {zones[i]} \cup Range(ZonesOf(v[zones[i]]))
      BY <2>1 DEF Part, rm_idx_zone
    <3>2. PICK R, N : R = Range(zones) /\ N = 1 .. Len(zones)
      OBVIOUS
    <3>3. \A y : y \in R <=> \E i \in N : y = zones[i]
      <4>1. R = {zones[i] : i \in N}
        BY <2>1, <3>2 DEF Range
      <4> QED
        BY <4>1
    <3> HIDE DEF P
    <3>4. \A i \in N : zones[i] \in R /\ P[i] = {zones[i]} \cup Range(ZonesOf(v[zones[i]]))
      BY <3>1, <3>2, <3>3
    <3>5. UNION {P[i] : i \in N} \subseteq R \cup UNION {Range(ZonesOf(v[y])) : y \in R}
      BY <3>4
    <3>6. R \subseteq UNION {P[i] : i \in N}
      BY <3>3, <3>4
    <3>7. ASSUME NEW y \in R
          PROVE  Range(ZonesOf(v[y])) \subseteq UNION {P[i] : i \in N}
      <4>1. PICK i \in N : y = zones[i]
        BY <3>3
      <4>2. Range(ZonesOf(v[y])) \subseteq P[i]
        BY <3>4, <4>1
      <4> QED
        BY <4>2
    <3>8. UNION {Range(ZonesOf(v[y])) : y \in R} \subseteq UNION {P[i] : i \in N}
      BY <3>7
    <3>9. UNION {P[i] : i \in N} = R \cup UNION {Range(ZonesOf(v[y])) : y \in R}
      BY <3>5, <3>6, <3>8
    <3> QED
      BY <3>2, <3>9
  <2>3. Part(v, z, 2)
          = {z} \cup Range(zones) \cup UNION {Range(ZonesOf(v[y])) : y \in Range(zones)}
    BY DEF Part, rm_idx_zone
  <2> HIDE DEF P
  <2> QED
    BY <2>2, <2>3 DEF Together
<1> HIDE DEF P
<1>6. Counted(v, U, zones, P, c)
  BY <1>4 DEF Counted
<1>7. /\ IsFiniteSet(Together({z}, P, Len(zones)))
      /\ Cardinality(Together({z}, P, Len(zones))) = c[Len(zones)]
  BY <1>2, <1>6, HangCount
<1> QED
  BY <1>5, <1>7

\* What hangs on a full zone of level l.
Whole(l) == IF l = 0 THEN 1 ELSE IF l = 1 THEN 1 + IDX ELSE 1 + IDX * (1 + IDX)

\* The zones of a full index zone are as many as the code has constants for.
LEMMA FullCount ==
  ASSUME NEW v, NEW U, NEW lev, Store(v), Plan(v, U, lev), NEW z \in U, lev[z] \in 0 .. 2,
         Full(v, z, lev[z])
  PROVE  /\ IsFiniteSet(Part(v, z, lev[z]))
         /\ Cardinality(Part(v, z, lev[z])) = Whole(lev[z])
<1>1. CASE lev[z] = 0
  BY <1>1, FS_Singleton DEF Part, Whole
<1>2. z \in Id /\ Formed(v[z]) /\ Fits(v[z], lev[z])
  BY DEF Plan, Store
<1>3. CASE lev[z] = 1
  <2>1. Part(v, z, lev[z]) = Part(v, z, 1) /\ Whole(lev[z]) = 1 + IDX
    BY <1>3 DEF Whole
  <2>2. Len(ZonesOf(v[z])) = IDX
    BY <1>2, <1>3, PointersOf DEF Full
  <2> QED
    BY <1>3, <2>1, <2>2, FlatCount
<1>4. CASE lev[z] = 2
  <2>1. Part(v, z, lev[z]) = Part(v, z, 2) /\ Whole(lev[z]) = 1 + IDX * (1 + IDX)
    BY <1>4 DEF Whole
  <2>2. PICK zones \in Seq(Id) : zones = ZonesOf(v[z]) /\ Leads(v, z, zones)
    BY <1>2, <1>4, PointersOf DEF Leads
  <2>3. Len(zones) = IDX /\ \A e : Below(v, z, e) => Len(Refs(v[e])) = IDX
    BY <1>4, <2>2 DEF Full, Leads
  <2>4. PICK k \in Nat : k = 1 + IDX
    BY SizeAssumption
  <2> DEFINE c == [i \in 0 .. Len(zones) |-> 1 + i * k]
  <2>5. ASSUME NEW i \in DOMAIN zones
        PROVE  c[i] = c[i - 1] + (1 + Len(ZonesOf(v[zones[i]])))
    <3>1. Leads(v, z, zones) /\ KidLevel(lev[z], i) = 1
      BY <1>4, <2>2 DEF KidLevel
    <3>2. /\ Pt(v[z], i, zones[i]) /\ Below(v, z, zones[i])
          /\ zones[i] \in U /\ lev[zones[i]] = KidLevel(lev[z], i)
      BY <3>1, Pointed
    <3>3. zones[i] \in U /\ lev[zones[i]] = 1
      BY <3>1, <3>2
    <3>4. Formed(v[zones[i]]) /\ Fits(v[zones[i]], lev[zones[i]])
      BY <3>3 DEF Plan, Store
    <3>5. Refs(v[zones[i]]) = ZonesOf(v[zones[i]])
      BY <3>3, <3>4, PointersOf
    <3>6. Len(ZonesOf(v[zones[i]])) = IDX
      BY <2>3, <3>2, <3>5
    <3>7. c[i] = 1 + i * k /\ c[i - 1] = 1 + (i - 1) * k /\ i \in Int
      BY <2>2
    <3> HIDE DEF c
    <3>8. i \in Int /\ k \in Int
      BY <2>4, <3>7
    <3>9. i * k = (i - 1) * k + k /\ (i - 1) * k \in Int
      BY <3>8, Multiples, Zenon
    <3> QED
      BY <2>4, <3>6, <3>7, <3>9
  <2>6. c[0] = 1 /\ c[Len(zones)] = 1 + IDX * k
    <3>1. Len(zones) \in Nat /\ 0 * k = 0
      BY <2>2, <2>4, Multiples
    <3>2. c[0] = 1 + 0 * k /\ c[Len(zones)] = 1 + Len(zones) * k
      BY <3>1
    <3> QED
      BY <2>3, <3>1, <3>2
  <2> HIDE DEF c
  <2>7. /\ IsFiniteSet(Part(v, z, 2))
        /\ Cardinality(Part(v, z, 2)) = c[Len(zones)]
    BY <1>4, <2>2, <2>5, <2>6, DeepCount
  <2> QED
    BY <2>1, <2>4, <2>6, <2>7
<1> QED
  BY <1>1, <1>3, <1>4

\* A recursive function that adds the values of another one exists.
LEMMA Sums ==
  ASSUME NEW n \in Nat, NEW a
  PROVE  \E f : f = [i \in 0 .. n |-> IF i = 0 THEN 1 ELSE f[i - 1] + a[i]]
<1> DEFINE Rec(f, k) == f = [i \in 0 .. k |-> IF i = 0 THEN 1 ELSE f[i - 1] + a[i]]
           Has == {k \in Nat : \E f : Rec(f, k)}
<1>1. 0 \in Has
  <2> DEFINE f == [i \in 0 .. 0 |-> 1]
  <2>1. Rec(f, 0)
    OBVIOUS
  <2> QED
    BY <2>1
<1>2. ASSUME NEW k \in Nat, k \in Has
      PROVE  k + 1 \in Has
  <2>1. PICK f : Rec(f, k)
    BY <1>2
  <2> DEFINE g == [i \in 0 .. k + 1 |-> IF i <= k THEN f[i] ELSE f[k] + a[k + 1]]
  <2>2. ASSUME NEW i \in 0 .. k + 1
        PROVE  g[i] = IF i = 0 THEN 1 ELSE g[i - 1] + a[i]
    <3>1. CASE i = 0
      BY <2>1, <3>1
    <3>2. CASE i \in 1 .. k
      BY <2>1, <3>2
    <3>3. CASE i = k + 1
      BY <2>1, <3>3
    <3> QED
      BY <3>1, <3>2, <3>3
  <2>3. Rec(g, k + 1)
    <3> HIDE DEF g
    <3>1. g = [i \in 0 .. k + 1 |-> g[i]]
      BY DEF g
    <3> QED
      BY <2>2, <3>1
  <2>4. \E h : Rec(h, k + 1)
    <3> HIDE DEF g
    <3> QED
      BY <2>3
  <2> QED
    BY <2>4
<1>3. n \in Has
  <2> HIDE DEF Has
  <2> QED
    BY <1>1, <1>2, Induct
<1> QED
  BY <1>3

\* A sum of equal numbers.
LEMMA Linear ==
  ASSUME NEW n \in Nat, NEW k \in Int, NEW c, c[0] = 1, \A i \in 1 .. n : c[i] = c[i - 1] + k
  PROVE  c[n] = 1 + n * k
<1> DEFINE S == {i \in Nat : c[i] = 1 + i * k}
<1>1. 0 \in S
  BY Multiples
<1>2. ASSUME NEW i \in 0 .. n - 1, i \in S
      PROVE  i + 1 \in S
  <2>1. i + 1 \in 1 .. n /\ (i + 1) - 1 = i /\ i + 1 \in Int
    OBVIOUS
  <2>2. c[i + 1] = c[i] + k
    BY <2>1
  <2>3. (i + 1) * k = i * k + k /\ i * k \in Int
    BY <2>1, Multiples
  <2>4. c[i] = 1 + i * k
    BY <1>2
  <2> QED
    BY <2>1, <2>2, <2>3, <2>4
<1> HIDE DEF S
<1>3. 0 .. n \subseteq S
  BY <1>1, <1>2, InductTo
<1> QED
  BY <1>3 DEF S

\* Memory has the index zones of v.
HasIndex(m, v, U, lev) == \A y \in U : lev[y] \in {1, 2} => m.zone[y] = v[y]

\* What update_size_idx counts for zone z of level l.
IdxSize(m, z, l) == update_size_idx(m, z, l = 2)

\* update_size_idx counts an index zone of data zones.
LEMMA FlatSize ==
  ASSUME NEW v, NEW U, NEW lev, Store(v), Plan(v, U, lev), NEW z \in U, lev[z] = 1,
         NEW m, HasIndex(m, v, U, lev)
  PROVE  IsFiniteSet(Part(v, z, 1)) /\ Cardinality(Part(v, z, 1)) = IdxSize(m, z, 1)
<1>1. z \in Id /\ Formed(v[z]) /\ Fits(v[z], lev[z])
  BY DEF Plan, Store
<1>2. PICK zones \in Seq(Id) : zones = ZonesOf(v[z])
  BY <1>1, PointersOf
<1>3. zones = ZonesOf(m.zone[z])
  BY <1>2 DEF HasIndex
<1>4. Len(zones) \in Nat /\ DOMAIN zones = 1 .. Len(zones)
  OBVIOUS
<1> DEFINE c == CHOOSE f : f = [i \in 0 .. Len(zones) |->
                  IF i = 0 THEN 1
                  ELSE f[i - 1] + IF FALSE THEN 1 + Len(ZonesOf(m.zone[zones[i]])) ELSE 1]
<1>5. IdxSize(m, z, 1) = c[Len(zones)]
  <2>1. update_size_idx(m, z, FALSE) = c[Len(zones)]
    BY <1>3 DEF update_size_idx
  <2>2. (1 = 2) = FALSE
    OBVIOUS
  <2> QED
    BY <2>1, <2>2 DEF IdxSize
<1>6. \E f : f = [i \in 0 .. Len(zones) |->
                  IF i = 0 THEN 1
                  ELSE f[i - 1] + IF FALSE THEN 1 + Len(ZonesOf(m.zone[zones[i]])) ELSE 1]
  <2> DEFINE a == [i \in 0 .. Len(zones) |-> 1]
  <2>1. \A i \in 0 .. Len(zones) : a[i] = 1
    OBVIOUS
  <2> HIDE DEF a
  <2>2. PICK f : f = [i \in 0 .. Len(zones) |-> IF i = 0 THEN 1 ELSE f[i - 1] + a[i]]
    BY <1>4, Sums
  <2>3. f = [i \in 0 .. Len(zones) |->
               IF i = 0 THEN 1
               ELSE f[i - 1] + IF FALSE THEN 1 + Len(ZonesOf(m.zone[zones[i]])) ELSE 1]
    BY <2>1, <2>2
  <2> QED
    BY <2>3
<1>7. c = [i \in 0 .. Len(zones) |->
             IF i = 0 THEN 1
             ELSE c[i - 1] + IF FALSE THEN 1 + Len(ZonesOf(m.zone[zones[i]])) ELSE 1]
  BY <1>6
<1> HIDE DEF c
<1>8. PICK n \in Nat : n = Len(zones)
  BY <1>4
<1>9. c[0] = 1 /\ \A i \in 1 .. n : c[i] = c[i - 1] + 1
  BY <1>7, <1>8
<1>10. 1 \in Int /\ n * 1 = n
  OBVIOUS
<1>11. c[n] = 1 + n * 1
  BY <1>9, <1>10, Linear
<1> QED
  BY <1>2, <1>5, <1>8, <1>10, <1>11, FlatCount

\* It counts an index zone of index zones.
LEMMA DeepSize ==
  ASSUME NEW v, NEW U, NEW lev, Store(v), Plan(v, U, lev), NEW z \in U, lev[z] = 2,
         NEW m, HasIndex(m, v, U, lev)
  PROVE  IsFiniteSet(Part(v, z, 2)) /\ Cardinality(Part(v, z, 2)) = IdxSize(m, z, 2)
<1>1. z \in Id /\ Formed(v[z]) /\ Fits(v[z], lev[z])
  BY DEF Plan, Store
<1>2. PICK zones \in Seq(Id) : zones = ZonesOf(v[z]) /\ Leads(v, z, zones)
  BY <1>1, PointersOf DEF Leads
<1>3. zones = ZonesOf(m.zone[z])
  BY <1>2 DEF HasIndex
<1>4. Len(zones) \in Nat /\ DOMAIN zones = 1 .. Len(zones)
  OBVIOUS
<1> DEFINE c == CHOOSE f : f = [i \in 0 .. Len(zones) |->
                  IF i = 0 THEN 1
                  ELSE f[i - 1] + IF TRUE THEN 1 + Len(ZonesOf(m.zone[zones[i]])) ELSE 1]
<1>5. IdxSize(m, z, 2) = c[Len(zones)]
  <2>1. update_size_idx(m, z, TRUE) = c[Len(zones)]
    BY <1>3 DEF update_size_idx
  <2>2. (2 = 2) = TRUE
    OBVIOUS
  <2> QED
    BY <2>1, <2>2 DEF IdxSize
<1>6. \E f : f = [i \in 0 .. Len(zones) |->
                  IF i = 0 THEN 1
                  ELSE f[i - 1] + IF TRUE THEN 1 + Len(ZonesOf(m.zone[zones[i]])) ELSE 1]
  <2> DEFINE a == [i \in 0 .. Len(zones) |-> 1 + Len(ZonesOf(m.zone[zones[i]]))]
  <2>1. \A i \in 0 .. Len(zones) : a[i] = 1 + Len(ZonesOf(m.zone[zones[i]]))
    OBVIOUS
  <2> HIDE DEF a
  <2>2. PICK f : f = [i \in 0 .. Len(zones) |-> IF i = 0 THEN 1 ELSE f[i - 1] + a[i]]
    BY <1>4, Sums
  <2>3. f = [i \in 0 .. Len(zones) |->
               IF i = 0 THEN 1
               ELSE f[i - 1] + IF TRUE THEN 1 + Len(ZonesOf(m.zone[zones[i]])) ELSE 1]
    BY <2>1, <2>2
  <2> QED
    BY <2>3
<1>7. c = [i \in 0 .. Len(zones) |->
             IF i = 0 THEN 1
             ELSE c[i - 1] + IF TRUE THEN 1 + Len(ZonesOf(m.zone[zones[i]])) ELSE 1]
  BY <1>6
<1> HIDE DEF c
<1>8. c[0] = 1
  BY <1>4, <1>7
<1>9. ASSUME NEW i \in DOMAIN zones
      PROVE  c[i] = c[i - 1] + (1 + Len(ZonesOf(m.zone[zones[i]])))
  <2>1. i \in 0 .. Len(zones) /\ i # 0
    BY <1>4
  <2> QED
    BY <1>7, <2>1
<1>10. ASSUME NEW i \in DOMAIN zones
      PROVE  c[i] = c[i - 1] + (1 + Len(ZonesOf(v[zones[i]])))
  <2>1. /\ Pt(v[z], i, zones[i]) /\ Below(v, z, zones[i])
        /\ zones[i] \in U /\ lev[zones[i]] = KidLevel(lev[z], i)
    BY <1>2, Pointed
  <2>2. KidLevel(lev[z], i) = 1
    BY DEF KidLevel
  <2>3. m.zone[zones[i]] = v[zones[i]]
    BY <2>1, <2>2 DEF HasIndex
  <2> QED
    BY <1>9, <2>3
<1>11. zones = ZonesOf(v[z]) /\ c[0] = 1
  BY <1>2, <1>8
<1>12. /\ IsFiniteSet(Part(v, z, 2))
      /\ Cardinality(Part(v, z, 2)) = c[Len(zones)]
  BY <1>10, <1>11, DeepCount
<1> QED
  BY <1>5, <1>12

\* An inode and what hangs on the first i of its pointers, if all that is full.
Until(i) ==
  IF i <= DIRECT THEN 1 + i
  ELSE IF i <= DIRECT + SINGLE THEN 1 + DIRECT + (i - DIRECT) * (1 + IDX)
  ELSE 1 + DIRECT + SINGLE * (1 + IDX) + (i - DIRECT - SINGLE) * (1 + IDX * (1 + IDX))

\* It before the last of n pointers, by the level of that one.
LEMMA UntilLast ==
  ASSUME NEW n \in Nat \ {0}
  PROVE  /\ Level(n) = 0 => Until(n - 1) = 1 + (n - 1)
         /\ Level(n) = 1 => Until(n - 1) = 1 + DIRECT + (n - DIRECT - 1) * (1 + IDX)
         /\ Level(n) = 2 => Until(n - 1) = 1 + DIRECT + SINGLE * (1 + IDX)
                              + (n - DIRECT - SINGLE - 1) * (1 + IDX * (1 + IDX))
<1>1. PICK a, b, e : /\ a \in Nat /\ b \in Nat /\ a = 1 + IDX /\ b = 1 + IDX * (1 + IDX)
                     /\ e = SINGLE * a /\ e \in Nat /\ DIRECT \in Nat /\ SINGLE \in Nat
  BY SizeAssumption
<1>2. \A i : Until(i) = IF i <= DIRECT THEN 1 + i
                        ELSE IF i <= DIRECT + SINGLE THEN 1 + DIRECT + (i - DIRECT) * a
                        ELSE 1 + DIRECT + e + (i - DIRECT - SINGLE) * b
  BY <1>1, Zenon DEF Until
<1>3. 0 * a = 0 /\ 0 * b = 0
  BY <1>1, Multiples
<1>4. CASE Level(n) = 0
  BY <1>1, <1>2, <1>4 DEF Level
<1>5. ASSUME Level(n) = 1
      PROVE  Until(n - 1) = 1 + DIRECT + (n - DIRECT - 1) * a
  <2>1. ~(n <= DIRECT) /\ n <= DIRECT + SINGLE /\ n - 1 <= DIRECT + SINGLE
    BY <1>1, <1>5 DEF Level
  <2>2. CASE n - 1 = DIRECT
    <3>1. Until(n - 1) = 1 + DIRECT /\ n - DIRECT - 1 = 0
      BY <1>1, <1>2, <2>2
    <3>2. (n - DIRECT - 1) * a = 0
      BY <1>3, <3>1
    <3> QED
      BY <1>1, <3>1, <3>2
  <2>3. CASE n - 1 # DIRECT
    <3>1. ~(n - 1 <= DIRECT) /\ n - 1 - DIRECT = n - DIRECT - 1
      BY <1>1, <2>1, <2>3
    <3> QED
      BY <1>2, <2>1, <3>1
  <2> QED
    BY <2>2, <2>3
<1>6. ASSUME Level(n) = 2
      PROVE  Until(n - 1) = 1 + DIRECT + e + (n - DIRECT - SINGLE - 1) * b
  <2>1. ~(n <= DIRECT) /\ ~(n <= DIRECT + SINGLE)
    BY <1>1, <1>6 DEF Level
  <2>2. CASE n - 1 = DIRECT + SINGLE
    <3>1. n - DIRECT - SINGLE - 1 = 0
      BY <1>1, <2>2
    <3>2. (n - DIRECT - SINGLE - 1) * b = 0
      BY <1>3, <3>1
    <3>3. Until(n - 1) = 1 + DIRECT + e
      <4>1. CASE SINGLE = 0
        <5>1. e = 0
          BY <1>1, <4>1
        <5> QED
          BY <1>1, <1>2, <2>2, <4>1, <5>1
      <4>2. CASE SINGLE # 0
        <5>1. ~(n - 1 <= DIRECT) /\ n - 1 <= DIRECT + SINGLE /\ n - 1 - DIRECT = SINGLE
          BY <1>1, <2>2, <4>2
        <5>2. Until(n - 1) = 1 + DIRECT + SINGLE * a
          BY <1>2, <5>1
        <5> QED
          BY <1>1, <5>2
      <4> QED
        BY <4>1, <4>2
    <3> QED
      BY <1>1, <3>2, <3>3
  <2>3. CASE n - 1 # DIRECT + SINGLE
    <3>1. /\ ~(n - 1 <= DIRECT) /\ ~(n - 1 <= DIRECT + SINGLE)
          /\ n - 1 - DIRECT - SINGLE = n - DIRECT - SINGLE - 1
      BY <1>1, <2>1, <2>3
    <3> QED
      BY <1>2, <3>1
  <2> QED
    BY <2>2, <2>3
<1> QED
  BY <1>1, <1>4, <1>5, <1>6

\* One pointer more adds a full zone of its level.
LEMMA UntilNext ==
  /\ Until(0) = 1
  /\ \A n \in Nat \ {0} : Until(n) = Until(n - 1) + Whole(Level(n))
<1>1. PICK a, b, e : /\ a \in Nat /\ b \in Nat /\ a = 1 + IDX /\ b = 1 + IDX * (1 + IDX)
                     /\ e = SINGLE * a /\ e \in Nat /\ DIRECT \in Nat /\ SINGLE \in Nat
  BY SizeAssumption
<1>2. \A i : Until(i) = IF i <= DIRECT THEN 1 + i
                        ELSE IF i <= DIRECT + SINGLE THEN 1 + DIRECT + (i - DIRECT) * a
                        ELSE 1 + DIRECT + e + (i - DIRECT - SINGLE) * b
  BY <1>1, Zenon DEF Until
<1>3. \A l : Whole(l) = IF l = 0 THEN 1 ELSE IF l = 1 THEN a ELSE b
  BY <1>1 DEF Whole
<1>4. ASSUME NEW n \in Nat \ {0}
      PROVE  Until(n) = Until(n - 1) + Whole(Level(n))
  <2>1. /\ Level(n) = 0 => Until(n - 1) = 1 + (n - 1)
        /\ Level(n) = 1 => Until(n - 1) = 1 + DIRECT + (n - DIRECT - 1) * a
        /\ Level(n) = 2 => Until(n - 1) = 1 + DIRECT + e + (n - DIRECT - SINGLE - 1) * b
    BY <1>1, UntilLast
  <2>2. CASE Level(n) = 0
    <3>1. Until(n) = 1 + n
      BY <1>1, <1>2, <2>2 DEF Level
    <3> QED
      BY <1>3, <2>1, <2>2, <3>1
  <2>3. CASE Level(n) = 1
    <3>1. PICK k \in Int : k = n - DIRECT /\ n - DIRECT - 1 = k - 1
      BY <1>1
    <3>2. Until(n) = 1 + DIRECT + k * a
      BY <1>1, <1>2, <2>3, <3>1 DEF Level
    <3>3. Until(n - 1) = 1 + DIRECT + (k - 1) * a
      BY <2>1, <2>3, <3>1
    <3>4. k * a = (k - 1) * a + a /\ (k - 1) * a \in Int
      BY <1>1, Multiples
    <3> QED
      BY <1>1, <1>3, <2>3, <3>2, <3>3, <3>4
  <2>4. CASE Level(n) = 2
    <3>1. PICK k \in Int : k = n - DIRECT - SINGLE /\ n - DIRECT - SINGLE - 1 = k - 1
      BY <1>1
    <3>2. Until(n) = 1 + DIRECT + e + k * b
      BY <1>1, <1>2, <2>4, <3>1 DEF Level
    <3>3. Until(n - 1) = 1 + DIRECT + e + (k - 1) * b
      BY <2>1, <2>4, <3>1
    <3>4. k * b = (k - 1) * b + b /\ (k - 1) * b \in Int
      BY <1>1, Multiples
    <3> QED
      BY <1>1, <1>3, <2>4, <3>2, <3>3, <3>4
  <2> QED
    BY <2>2, <2>3, <2>4, Levels
<1>5. Until(0) = 1
  BY <1>1, <1>2
<1> QED
  BY <1>4, <1>5

\* What update_size counts: all but the last pointer as full, and that.
LEMMA SizeParts ==
  ASSUME NEW m, NEW ptrs \in Seq(Id)
  PROVE  /\ ptrs = <<>> => update_size(m, ptrs) = 1
         /\ ptrs # <<>> =>
              /\ Level(Len(ptrs)) = 0 => update_size(m, ptrs) = Until(Len(ptrs) - 1) + 1
              /\ Level(Len(ptrs)) = 1 => update_size(m, ptrs) = Until(Len(ptrs) - 1)
                                           + IdxSize(m, Last(ptrs), 1)
              /\ Level(Len(ptrs)) = 2 => update_size(m, ptrs) = Until(Len(ptrs) - 1)
                                           + IdxSize(m, Last(ptrs), 2)
<1>1. PICK n \in Nat : n = Len(ptrs) /\ (ptrs = <<>> <=> n = 0)
  OBVIOUS
<1>2. DIRECT \in Nat /\ SINGLE \in Nat
  BY SizeAssumption
<1>3. PICK f, t : f = IdxSize(m, Last(ptrs), 1) /\ t = IdxSize(m, Last(ptrs), 2)
  OBVIOUS
<1>4. update_size(m, ptrs) =
        IF n <= DIRECT THEN 1 + n
        ELSE IF n <= DIRECT + SINGLE THEN 1 + DIRECT + (n - DIRECT - 1) * (1 + IDX) + f
        ELSE 1 + DIRECT + SINGLE * (1 + IDX)
               + (n - DIRECT - SINGLE - 1) * (1 + IDX * (1 + IDX)) + t
  <2>1. (1 = 2) = FALSE /\ (2 = 2) = TRUE
    OBVIOUS
  <2>2. f = update_size_idx(m, Last(ptrs), FALSE) /\ t = update_size_idx(m, Last(ptrs), TRUE)
    BY <1>3, <2>1 DEF IdxSize
  <2> QED
    BY <1>1, <2>2, Zenon DEF update_size
<1>5. CASE n = 0
  BY <1>1, <1>2, <1>4, <1>5
<1>6. CASE n # 0
  <2>1. /\ Level(n) = 0 => Until(n - 1) = 1 + (n - 1)
        /\ Level(n) = 1 => Until(n - 1) = 1 + DIRECT + (n - DIRECT - 1) * (1 + IDX)
        /\ Level(n) = 2 => Until(n - 1) = 1 + DIRECT + SINGLE * (1 + IDX)
                              + (n - DIRECT - SINGLE - 1) * (1 + IDX * (1 + IDX))
    BY <1>6, UntilLast
  <2>2. Level(n) = 0 => update_size(m, ptrs) = Until(n - 1) + 1
    BY <1>2, <1>4, <2>1 DEF Level
  <2>3. Level(n) = 1 => update_size(m, ptrs) = Until(n - 1) + f
    <3>1. Level(n) = 1 => ~(n <= DIRECT) /\ n <= DIRECT + SINGLE
      BY DEF Level
    <3> QED
      BY <1>4, <2>1, <3>1, Zenon
  <2>4. Level(n) = 2 => update_size(m, ptrs) = Until(n - 1) + t
    <3>1. Level(n) = 2 => ~(n <= DIRECT) /\ ~(n <= DIRECT + SINGLE)
      BY DEF Level
    <3> QED
      BY <1>4, <2>1, <3>1, Zenon
  <2> QED
    BY <1>1, <1>3, <1>6, <2>2, <2>3, <2>4
<1> QED
  BY <1>5, <1>6

\* update_size counts the zones of a file that is filled in order.
LEMMA FileSize ==
  ASSUME NEW v, NEW U, NEW lev, Store(v), Plan(v, U, lev), NEW id \in U, lev[id] = 3,
         NEW ptrs, Leads(v, id, ptrs), Packed(v, id, 3),
         NEW m, HasIndex(m, v, U, lev)
  PROVE  update_size(m, ptrs) = Cardinality(ZonesOfFile(v, id))
<1>1. ptrs \in Seq(Id) /\ Refs(v[id]) = ptrs
  BY DEF Leads
<1>2. PICK n \in Nat : n = Len(ptrs) /\ DOMAIN ptrs = 1 .. n /\ (ptrs = <<>> <=> n = 0)
  BY <1>1
<1> DEFINE P == [i \in DOMAIN ptrs |-> Part(v, ptrs[i], Level(i))]
<1>3. \A i \in 1 .. n : P[i] = Part(v, ptrs[i], Level(i))
  BY <1>2
<1>4. ZonesOfFile(v, id) = Together({id}, P, n)
  <2>1. v[id].ptrs = ptrs
    <3>1. id \in Id /\ Formed(v[id]) /\ Fits(v[id], lev[id])
      BY DEF Plan, Store
    <3> QED
      BY <1>1, <3>1, PointersOf
  <2>2. ZonesOfFile(v, id)
          = {id} \cup UNION {Part(v, ptrs[i], Level(i)) : i \in DOMAIN ptrs}
    BY <2>1, Zenon DEF ZonesOfFile, Part
  <2>3. {Part(v, ptrs[i], Level(i)) : i \in DOMAIN ptrs} = {P[i] : i \in 1 .. n}
    BY <1>2, <1>3
  <2> QED
    BY <2>2, <2>3 DEF Together
<1> HIDE DEF P
<1>5. ASSUME NEW i \in 1 .. n
      PROVE  /\ ptrs[i] \in U /\ lev[ptrs[i]] = Level(i) /\ lev[ptrs[i]] \in 0 .. 2
             /\ Hanging(v, U, ptrs[i], P[i]) /\ Pt(v[id], i, ptrs[i])
  <2>1. i \in DOMAIN ptrs
    BY <1>2
  <2>2. /\ Pt(v[id], i, ptrs[i]) /\ Below(v, id, ptrs[i])
        /\ ptrs[i] \in U /\ lev[ptrs[i]] = KidLevel(lev[id], i)
    BY <2>1, Pointed
  <2>3. KidLevel(lev[id], i) = Level(i) /\ Level(i) \in 0 .. 2
    BY Levels DEF KidLevel
  <2>4. PICK y \in U : y = ptrs[i] /\ lev[y] = Level(i) /\ lev[y] \in 0 .. 2
    BY <2>2, <2>3
  <2>5. Hanging(v, U, y, Part(v, y, lev[y]))
    BY <2>4, PartZones DEF Part
  <2> QED
    BY <1>3, <2>2, <2>4, <2>5
<1>6. ASSUME NEW i \in 1 .. n, i # n
      PROVE  IsFiniteSet(P[i]) /\ Cardinality(P[i]) = Whole(Level(i))
  <2>1. PICK y \in U : /\ y = ptrs[i] /\ lev[y] = Level(i) /\ lev[y] \in 0 .. 2
                       /\ Pt(v[id], i, y)
    BY <1>5
  <2>2. KidLevel(3, i) = Level(i)
    BY DEF KidLevel
  <2>3. Full(v, y, lev[y])
    BY <1>1, <1>2, <1>6, <2>1, <2>2 DEF Packed
  <2>4. IsFiniteSet(Part(v, y, lev[y])) /\ Cardinality(Part(v, y, lev[y])) = Whole(lev[y])
    BY <2>1, <2>3, FullCount
  <2> QED
    BY <1>3, <2>1, <2>4
<1>7. CASE n = 0
  <2>1. Together({id}, P, n) = {id}
    BY <1>7 DEF Together
  <2>2. Cardinality(ZonesOfFile(v, id)) = 1
    BY <1>4, <2>1, FS_Singleton
  <2> QED
    BY <1>1, <1>2, <1>7, <2>2, SizeParts
<1>8. CASE n # 0
  <2>1. PICK y \in U : y = ptrs[n] /\ lev[y] = Level(n) /\ n \in 1 .. n /\ y = Last(ptrs)
    BY <1>2, <1>5, <1>8 DEF Last
  <2>2. /\ IsFiniteSet(P[n])
        /\ Level(n) = 0 => Cardinality(P[n]) = 1
        /\ Level(n) = 1 => Cardinality(P[n]) = IdxSize(m, y, 1)
        /\ Level(n) = 2 => Cardinality(P[n]) = IdxSize(m, y, 2)
    <3>1. P[n] = Part(v, y, Level(n))
      BY <1>3, <2>1
    <3>2. CASE Level(n) = 0
      <4>1. Part(v, y, Level(n)) = {y}
        BY <3>2 DEF Part
      <4> QED
        BY <3>1, <3>2, <4>1, FS_Singleton
    <3>3. CASE Level(n) = 1
      <4>1. lev[y] = 1
        BY <2>1, <3>3
      <4>2. /\ IsFiniteSet(Part(v, y, 1))
            /\ Cardinality(Part(v, y, 1)) = IdxSize(m, y, 1)
        BY <4>1, FlatSize
      <4> QED
        BY <3>1, <3>3, <4>2
    <3>4. CASE Level(n) = 2
      <4>1. lev[y] = 2
        BY <2>1, <3>4
      <4>2. /\ IsFiniteSet(Part(v, y, 2))
            /\ Cardinality(Part(v, y, 2)) = IdxSize(m, y, 2)
        BY <4>1, DeepSize
      <4> QED
        BY <3>1, <3>4, <4>2
    <3> QED
      BY <3>2, <3>3, <3>4, Levels
  <2> DEFINE c == [i \in 0 .. n |-> IF i < n THEN Until(i) ELSE Until(n - 1) + Cardinality(P[n])]
  <2>3. c[0] = 1 /\ c[n] = Until(n - 1) + Cardinality(P[n])
    BY <1>8, UntilNext
  <2>4. ASSUME NEW i \in 1 .. n
        PROVE  c[i] = c[i - 1] + Cardinality(P[i]) /\ IsFiniteSet(P[i])
    <3>1. CASE i = n
      <4>1. c[n - 1] = Until(n - 1)
        BY <1>8
      <4> QED
        BY <2>2, <2>3, <3>1, <4>1
    <3>2. CASE i # n
      <4>1. c[i] = Until(i) /\ c[i - 1] = Until(i - 1) /\ i \in Nat \ {0}
        BY <3>2
      <4>2. Until(i) = Until(i - 1) + Whole(Level(i))
        BY <4>1, UntilNext
      <4> HIDE DEF c
      <4> QED
        BY <1>6, <3>2, <4>1, <4>2
    <3> QED
      BY <3>1, <3>2
  <2> HIDE DEF c
  <2>5. Counted(v, U, ptrs, P, c)
    BY <1>2, <1>5, <2>3, <2>4 DEF Counted
  <2>6. Cardinality(Together({id}, P, Len(ptrs))) = c[Len(ptrs)]
    BY <2>5, HangCount
  <2>7. Cardinality(ZonesOfFile(v, id)) = Until(n - 1) + Cardinality(P[n])
    BY <1>2, <1>4, <2>3, <2>6
  <2>8. /\ Level(n) = 0 => update_size(m, ptrs) = Until(n - 1) + 1
        /\ Level(n) = 1 => update_size(m, ptrs) = Until(n - 1) + IdxSize(m, y, 1)
        /\ Level(n) = 2 => update_size(m, ptrs) = Until(n - 1) + IdxSize(m, y, 2)
    BY <1>1, <1>2, <1>8, <2>1, SizeParts
  <2> QED
    BY <2>2, <2>7, <2>8, Levels
<1> QED
  BY <1>7, <1>8

-----------------------------------------------------------------------------
(* What a step of a command does to where it is.                            *)

\* A disk on the way is safe if its zones in use point no further than v's.
LEMMA Write ==
  ASSUME NEW d, NEW m, NEW v, NEW U, NEW lev, NEW O, NEW id \in Id, NEW z,
         IsMemory(m), Logged(d, m), Formed(z),
         Plan(v, U, lev), Within(m.zone, v, U, lev),
         id \in U => Fits(z, lev[id]) /\ \A i, c : Pt(z, i, c) => Pt(v[id], i, c)
  PROVE  /\ IsMemory(write_zone(m, id, z)) /\ Logged(d, write_zone(m, id, z))
         /\ Within(write_zone(m, id, z).zone, v, U, lev)
         /\ write_zone(m, id, z).zone = [m.zone EXCEPT ![id] = z]
         /\ write_zone(m, id, z).st = m.st
         /\ write_zone(m, id, z).short = m.short
<1> DEFINE e == [m.zone EXCEPT ![id] = z]
<1>1. \A x \in Id : e[x] = IF x = id THEN z ELSE m.zone[x]
  <2>1. m.zone = [x \in Id |-> m.zone[x]]
    BY DEF IsMemory, Store
  <2>2. DOMAIN m.zone = Id
    BY <2>1
  <2> QED
    BY <2>2
<1> HIDE DEF e
<1>2. U \subseteq Id
  BY DEF Plan
<1>3. Within(e, v, U, lev)
  <2> SUFFICES ASSUME NEW x \in U
               PROVE  Fits(e[x], lev[x]) /\ \A i, c : Pt(e[x], i, c) => Pt(v[x], i, c)
    BY DEF Within
  <2>1. CASE x = id
    BY <1>1, <1>2, <2>1
  <2>2. CASE x # id
    <3>1. e[x] = m.zone[x]
      BY <1>1, <1>2, <2>2
    <3> QED
      BY <3>1 DEF Within
  <2> QED
    BY <2>1, <2>2
<1>4. Plan(e, U, lev)
  BY <1>3, PlanWithin
<1>5. /\ IsMemory(write_zone(m, id, z)) /\ Logged(d, write_zone(m, id, z))
      /\ write_zone(m, id, z).zone = e
      /\ write_zone(m, id, z).st = m.st
      /\ write_zone(m, id, z).short = m.short
  BY <1>4, LogWrite DEF e
<1> QED
  BY <1>3, <1>5 DEF e

\* A zone is written that has no copy, and points where it did.
LEMMA Keep ==
  ASSUME NEW d, NEW m, NEW v, NEW U, NEW lev, NEW O, Amid(d, m, v, U, lev, O),
         NEW id \in Id \ O, NEW z, Formed(z),
         id \in U => lev[id] = 0 /\ Fits(z, lev[id]) /\ Refs(z) = Refs(v[id])
  PROVE  Amid(d, write_zone(m, id, z), [v EXCEPT ![id] = z], U, lev, O)
<1> DEFINE n == write_zone(m, id, z)
           w == [v EXCEPT ![id] = z]
<1>1. Store(w) /\ \A x \in Id : w[x] = IF x = id THEN z ELSE v[x]
  BY StoreWrite DEF Amid
<1>2. /\ IsMemory(n) /\ Logged(d, n) /\ Within(n.zone, v, U, lev)
      /\ n.zone = [m.zone EXCEPT ![id] = z] /\ n.st = m.st /\ n.short = m.short
  BY Write DEF Amid, Pt
<1>3. \A x \in Id : n.zone[x] = IF x = id THEN z ELSE m.zone[x]
  BY <1>2, StoreWrite DEF Amid, IsMemory
<1> HIDE DEF n, w
<1>4. U \subseteq Id
  BY DEF Amid, Plan
<1>5. \A x \in U : \A i, c : Pt(w[x], i, c) <=> Pt(v[x], i, c)
  BY <1>1, <1>4 DEF Pt
<1>6. \A x \in U : Fits(w[x], lev[x])
  BY <1>1, <1>4 DEF Amid, Plan
<1>7. Within(w, v, U, lev) /\ Within(n.zone, w, U, lev)
  BY <1>2, <1>5, <1>6 DEF Within
<1>8. Plan(w, U, lev)
  BY <1>7, PlanWithin DEF Amid
<1>9. \A x \in Id \ O : w[x] = n.zone[x]
  BY <1>1, <1>3 DEF Amid
<1>10. Held(v, U) => Held(w, U)
  BY <1>5 DEF Held
<1>11. Tally(n, w, U)
  BY <1>2, <1>10 DEF Amid, Tally
<1>12. Tidy(n, w, U, lev, O)
  <2>1. \A x \in U : Refs(w[x]) = Refs(v[x]) /\ (lev[x] = 3 => w[x] = v[x])
    BY <1>1, <1>4
  <2>2. Store(v) /\ Plan(v, U, lev) /\ Tidy(m, v, U, lev, O)
    BY DEF Amid
  <2> QED
    BY <1>1, <1>2, <1>8, <2>1, <2>2, TidySame
<1>13. Rooted(w, lev, O)
  BY <1>5 DEF Amid, Rooted, Below
<1> QED
  BY <1>1, <1>2, <1>7, <1>8, <1>9, <1>11, <1>12, <1>13 DEF Amid, n, w

\* A copy is written back.
LEMMA Land ==
  ASSUME NEW d, NEW m, NEW v, NEW U, NEW lev, NEW O, Amid(d, m, v, U, lev, O), NEW id \in O,
         Rooted(v, lev, O \ {id}), m.short = {} /\ lev[id] = 3 => Sized(v, id)
  PROVE  Amid(d, write_zone(m, id, v[id]), v, U, lev, O \ {id})
<1> DEFINE n == write_zone(m, id, v[id])
<1>1. id \in U /\ U \subseteq Id /\ id \in Id
  BY DEF Amid, Plan
<1>2. Formed(v[id]) /\ Fits(v[id], lev[id])
  BY <1>1 DEF Amid, Store, Plan
<1>3. /\ IsMemory(n) /\ Logged(d, n) /\ Within(n.zone, v, U, lev)
      /\ n.zone = [m.zone EXCEPT ![id] = v[id]] /\ n.st = m.st /\ n.short = m.short
  BY <1>1, <1>2, Write DEF Amid
<1>4. \A x \in Id : n.zone[x] = IF x = id THEN v[id] ELSE m.zone[x]
  BY <1>1, <1>2, <1>3, StoreWrite DEF Amid, IsMemory
<1> HIDE DEF n
<1>5. \A x \in Id \ (O \ {id}) : v[x] = n.zone[x]
  BY <1>4 DEF Amid
<1>6. Tally(n, v, U)
  BY <1>3 DEF Amid, Tally
<1>7. Tidy(n, v, U, lev, O \ {id})
  BY <1>3 DEF Amid, Tidy
<1> QED
  BY <1>3, <1>5, <1>6, <1>7 DEF Amid, n

\* A command takes a copy of a zone, or changes what is no pointer in it.
LEMMA Copied ==
  ASSUME NEW d, NEW m, NEW v, NEW U, NEW lev, NEW O, Amid(d, m, v, U, lev, O),
         NEW id \in U, NEW z, Formed(z), Fits(z, lev[id]), Refs(z) = Refs(v[id]),
         Rooted(v, lev, O \cup {id})
  PROVE  Amid(d, m, [v EXCEPT ![id] = z], U, lev, O \cup {id})
<1> DEFINE w == [v EXCEPT ![id] = z]
<1>1. U \subseteq Id /\ id \in Id
  BY DEF Amid, Plan
<1>2. Store(w) /\ \A x \in Id : w[x] = IF x = id THEN z ELSE v[x]
  BY <1>1, StoreWrite DEF Amid
<1> HIDE DEF w
<1>3. \A x \in U : \A i, c : Pt(w[x], i, c) <=> Pt(v[x], i, c)
  BY <1>1, <1>2 DEF Pt
<1>4. \A x \in U : Fits(w[x], lev[x])
  BY <1>1, <1>2 DEF Amid, Plan
<1>5. Within(w, v, U, lev) /\ Within(m.zone, w, U, lev)
  BY <1>3, <1>4 DEF Amid, Within
<1>6. Plan(w, U, lev)
  BY <1>5, PlanWithin DEF Amid
<1>7. \A x \in Id \ (O \cup {id}) : w[x] = m.zone[x]
  BY <1>2 DEF Amid
<1>8. Tally(m, w, U)
  BY <1>3 DEF Amid, Tally, Held
<1>9. Tidy(m, w, U, lev, O \cup {id})
  <2>1. \A x \in U : Refs(w[x]) = Refs(v[x]) /\ (x \notin O \cup {id} => w[x] = v[x])
    BY <1>1, <1>2
  <2>2. Store(v) /\ Plan(v, U, lev) /\ Tidy(m, v, U, lev, O) /\ O \subseteq O \cup {id}
    BY DEF Amid
  <2> QED
    BY <1>2, <1>6, <2>1, <2>2, TidySame
<1>10. Rooted(w, lev, O \cup {id})
  <2>1. O \cup {id} \subseteq U
    BY DEF Amid
  <2> QED
    BY <1>3, <2>1 DEF Rooted, Below
<1> QED
  BY <1>2, <1>5, <1>6, <1>7, <1>8, <1>9, <1>10 DEF Amid, w

\* What is neither disk nor writes does not matter to the log.
LEMMA SameLog ==
  ASSUME NEW d, NEW m, NEW n, Logged(d, m), n.zone = m.zone, n.writes = m.writes
  PROVE  Logged(d, n)
<1>1. PICK h : /\ h[0] = d /\ h[Len(m.writes)] = m.zone
               /\ \A k \in 0 .. Len(m.writes) : Safe(h[k])
               /\ \A k \in 1 .. Len(m.writes) :
                    h[k] = [h[k - 1] EXCEPT ![m.writes[k][1]] = m.writes[k][2]]
  BY DEF Logged
<1>2. Len(n.writes) = Len(m.writes)
  OBVIOUS
<1>3. /\ h[0] = d /\ h[Len(n.writes)] = n.zone
      /\ \A k \in 0 .. Len(n.writes) : Safe(h[k])
  BY <1>1, <1>2
<1>4. \A k \in 1 .. Len(n.writes) :
        h[k] = [h[k - 1] EXCEPT ![n.writes[k][1]] = n.writes[k][2]]
  BY <1>1, <1>2
<1> QED
  BY <1>3, <1>4 DEF Logged

\* What Short leaves of a memory.
LEMMA ShortFields ==
  ASSUME NEW d, NEW m, NEW where \in {"file", "index"}, IsMemory(m), Logged(d, m)
  PROVE  /\ IsMemory(Short(m, where)) /\ Logged(d, Short(m, where))
         /\ Short(m, where).zone = m.zone /\ Short(m, where).st = m.st
         /\ Short(m, where).short = m.short \cup {where}
<1> DEFINE n == Short(m, where)
<1>1. n = [zone |-> m.zone, st |-> m.st, short |-> m.short \cup {where}, writes |-> m.writes]
  BY MemoryFields
<1> HIDE DEF n
<1>2. /\ n = [zone |-> n.zone, st |-> n.st, short |-> n.short, writes |-> n.writes]
      /\ n.zone = m.zone /\ n.st = m.st /\ n.short = m.short \cup {where}
      /\ n.writes = m.writes
  BY <1>1
<1>3. IsMemory(n)
  BY <1>2 DEF IsMemory
<1>4. Logged(d, n)
  BY <1>2, SameLog
<1> QED
  BY <1>2, <1>3, <1>4 DEF n

\* A copy is given up for want of zones: what it had taken is lost.
LEMMA GiveUp ==
  ASSUME NEW d, NEW m, NEW v, NEW U, NEW lev, NEW O, Amid(d, m, v, U, lev, O), NEW id \in O,
         Rooted(v, lev, O \ {id})
  PROVE  Amid(d, Short(m, "index"), [v EXCEPT ![id] = m.zone[id]], U, lev, O \ {id})
<1> DEFINE w == [v EXCEPT ![id] = m.zone[id]]
           n == Short(m, "index")
<1>1. id \in U /\ U \subseteq Id /\ id \in Id
  BY DEF Amid, Plan
<1>2. Formed(m.zone[id])
  BY <1>1 DEF Amid, IsMemory, Store
<1>3. Store(w) /\ \A x \in Id : w[x] = IF x = id THEN m.zone[id] ELSE v[x]
  BY <1>1, <1>2, StoreWrite DEF Amid
<1>4. /\ IsMemory(n) /\ Logged(d, n)
      /\ n.zone = m.zone /\ n.st = m.st /\ n.short = m.short \cup {"index"}
  BY ShortFields DEF Amid
<1> HIDE DEF w, n
<1>5. \A x \in U : /\ Fits(w[x], lev[x])
                   /\ \A i, c : Pt(w[x], i, c) => Pt(v[x], i, c)
                   /\ Fits(m.zone[x], lev[x])
                   /\ \A i, c : Pt(m.zone[x], i, c) => Pt(w[x], i, c)
  <2> SUFFICES ASSUME NEW x \in U
               PROVE  /\ Fits(w[x], lev[x])
                      /\ \A i, c : Pt(w[x], i, c) => Pt(v[x], i, c)
                      /\ Fits(m.zone[x], lev[x])
                      /\ \A i, c : Pt(m.zone[x], i, c) => Pt(w[x], i, c)
    OBVIOUS
  <2>1. Fits(m.zone[x], lev[x]) /\ \A i, c : Pt(m.zone[x], i, c) => Pt(v[x], i, c)
    BY DEF Amid, Within
  <2>2. Fits(v[x], lev[x])
    BY DEF Amid, Plan
  <2>3. w[x] = m.zone[x] \/ w[x] = v[x]
    BY <1>1, <1>3
  <2> QED
    BY <2>1, <2>2, <2>3
<1>6. Within(w, v, U, lev) /\ Within(n.zone, w, U, lev)
  BY <1>4, <1>5 DEF Within
<1>7. Plan(w, U, lev)
  BY <1>6, PlanWithin DEF Amid
<1>8. \A x \in Id \ (O \ {id}) : w[x] = n.zone[x]
  BY <1>3, <1>4 DEF Amid
<1>9. Tally(n, w, U)
  BY <1>4 DEF Amid, Tally
<1>10. Tidy(n, w, U, lev, O \ {id})
  BY <1>4 DEF Tidy
<1>11. Rooted(w, lev, O \ {id})
  <2>1. \A y \in O \ {id} : w[y] = v[y]
    BY <1>1, <1>3 DEF Amid
  <2> QED
    BY <2>1 DEF Rooted, Below
<1> QED
  BY <1>3, <1>4, <1>6, <1>7, <1>8, <1>9, <1>10, <1>11 DEF Amid, w, n

\* A file is cut for want of zones.
LEMMA CutFile ==
  ASSUME NEW d, NEW m, NEW v, NEW U, NEW lev, NEW O, Amid(d, m, v, U, lev, O)
  PROVE  Amid(d, Short(m, "file"), v, U, lev, O)
<1> DEFINE n == Short(m, "file")
<1>1. /\ IsMemory(n) /\ Logged(d, n)
      /\ n.zone = m.zone /\ n.st = m.st /\ n.short = m.short \cup {"file"}
  BY ShortFields DEF Amid
<1> HIDE DEF n
<1>2. Tally(n, v, U) /\ Tidy(n, v, U, lev, O)
  BY <1>1 DEF Amid, Tally, Tidy
<1> QED
  BY <1>1, <1>2 DEF Amid, n

\* get_free_id finds a zone that is not taken, or none.
LEMMA FreeZone ==
  ASSUME NEW m, get_free_id(m) >= Root
  PROVE  get_free_id(m) \in Id /\ m.st[get_free_id(m)] = UNOCCUPIED
<1> DEFINE free == {id \in Id : m.st[id] = UNOCCUPIED}
<1>1. free # {}
  BY DEF get_free_id, Root
<1>2. get_free_id(m) = CHOOSE id \in free : \A j \in free : id <= j
  BY <1>1 DEF get_free_id
<1>3. free \subseteq Nat
  BY SizeAssumption DEF Id, Root
<1> HIDE DEF free
<1>4. \E id \in free : \A j \in free : id <= j
  BY <1>1, <1>3, LeastNat
<1>5. get_free_id(m) \in free
  BY <1>2, <1>4
<1> QED
  BY <1>5 DEF free

\* What get_free_id returns is a number.
LEMMA FreeIsInt ==
  ASSUME NEW m
  PROVE  get_free_id(m) \in Int
<1>1. CASE {id \in Id : m.st[id] = UNOCCUPIED} = {}
  BY <1>1 DEF get_free_id
<1>2. CASE {id \in Id : m.st[id] = UNOCCUPIED} # {}
  <2> DEFINE free == {id \in Id : m.st[id] = UNOCCUPIED}
  <2>1. get_free_id(m) = CHOOSE id \in free : \A j \in free : id <= j
    BY <1>2 DEF get_free_id
  <2>2. free \subseteq Nat
    BY SizeAssumption DEF Id, Root
  <2>3. free # {}
    BY <1>2
  <2> HIDE DEF free
  <2>4. \E id \in free : \A j \in free : id <= j
    BY <2>2, <2>3, LeastNat
  <2>5. get_free_id(m) \in free
    BY <2>1, <2>4
  <2>6. get_free_id(m) \in Nat
    BY <2>2, <2>5, Zenon
  <2> QED
    BY <2>6
<1> QED
  BY <1>1, <1>2

\* A zone is taken: what that is in memory.
LEMMA TakenFields ==
  ASSUME NEW d, NEW m, NEW id \in Id, NEW s \in UNOCCUPIED .. I_OCCUPIED,
         IsMemory(m), Logged(d, m)
  PROVE  /\ IsMemory(TakenAs(m, id, s)) /\ Logged(d, TakenAs(m, id, s))
         /\ TakenAs(m, id, s).zone = m.zone /\ TakenAs(m, id, s).short = m.short
         /\ \A x \in Id : TakenAs(m, id, s).st[x] = IF x = id THEN s ELSE m.st[x]
<1> DEFINE n == TakenAs(m, id, s)
<1>1. n = [zone |-> m.zone, st |-> [m.st EXCEPT ![id] = s], short |-> m.short, writes |-> m.writes]
  BY MemoryFields
<1> HIDE DEF n
<1>2. /\ n = [zone |-> n.zone, st |-> n.st, short |-> n.short, writes |-> n.writes]
      /\ n.zone = m.zone /\ n.st = [m.st EXCEPT ![id] = s] /\ n.short = m.short
      /\ n.writes = m.writes
  BY <1>1
<1>3. m.st \in [Id -> UNOCCUPIED .. I_OCCUPIED]
  BY DEF IsMemory
<1>4. /\ n.st \in [Id -> UNOCCUPIED .. I_OCCUPIED]
      /\ \A x \in Id : n.st[x] = IF x = id THEN s ELSE m.st[x]
  BY <1>2, <1>3
<1>5. IsMemory(n)
  BY <1>2, <1>4 DEF IsMemory
<1>6. Logged(d, n)
  BY <1>2, SameLog
<1> QED
  BY <1>2, <1>4, <1>5, <1>6 DEF n

\* A zone is taken, cleared or made an inode, and pointed to by a copy: c has
\* the pointers of z and, in a place that was not in use, one to new.
Adds(z, c, j, new) ==
  /\ \A x : ~Pt(z, j, x)
  /\ \A i, x : Pt(c, i, x) <=> Pt(z, i, x) \/ (i = j /\ x = new)

Grown(d, m, v, U, lev, O, h, c) ==
  \E w, U2, lev2 :
    /\ Amid(d, m, w, U2, lev2, O \cup {h})
    /\ U \subseteq U2 /\ \A x \in U : lev2[x] = lev[x]
    /\ w[h] = c /\ \A x \in U \ {h} : w[x] = v[x]

\* A free zone is taken and written without pointers, and h gets a pointer to it.
LEMMA Grow ==
  ASSUME NEW d, NEW m, NEW v, NEW U, NEW lev, NEW O, Amid(d, m, v, U, lev, O),
         NEW h \in U, lev[h] # 0,
         NEW new \in Id, m.st[new] = UNOCCUPIED, NEW s \in {F_OCCUPIED, I_OCCUPIED},
         NEW z, Formed(z), Refs(z) = <<>>,
         NEW c, Formed(c), Fits(c, lev[h]),
         NEW j, Fits(z, KidLevel(lev[h], j)), Adds(v[h], c, j, new),
         h = Root \/ h \in O, h = Root => z.size = 1,
         lev[h] # 4 => j = Len(Refs(c)) /\ Len(Refs(v[h])) < j,
         m.short = {} /\ lev[h] \in {2, 3} =>
           \A i, x : Pt(v[h], i, x) => Full(v, x, KidLevel(lev[h], i))
  PROVE  Grown(d, write_zone(TakenAs(m, new, s), new, z), v, U, lev, O, h, c)
<1> DEFINE t == TakenAs(m, new, s)
           n == write_zone(t, new, z)
           e == [v EXCEPT ![new] = z]
           w == [e EXCEPT ![h] = c]
           U2 == U \cup {new}
           lev2 == [x \in U2 |-> IF x = new THEN KidLevel(lev[h], j) ELSE lev[x]]
<1>1. \A x : ~Pt(v[h], j, x)
  BY DEF Adds
<1>2. \A i, x : Pt(c, i, x) <=> Pt(v[h], i, x) \/ (i = j /\ x = new)
  BY DEF Adds
<1>3. U \subseteq Id /\ new \notin U /\ h \in Id /\ h # new /\ new # Root
  <2>1. U \subseteq Id /\ Root \in U
    BY DEF Amid, Plan
  <2>2. new \notin U
    BY DEF Amid, Tally
  <2> QED
    BY <2>1, <2>2
<1>4. new <= room
  <2>1. room \in Id /\ ~(new > room)
    BY DEF Amid, Tally
  <2> QED
    BY <2>1, SizeAssumption DEF Id, Root
<1>5. /\ IsMemory(t) /\ Logged(d, t) /\ t.zone = m.zone /\ t.short = m.short
      /\ \A x \in Id : t.st[x] = IF x = new THEN s ELSE m.st[x]
  <2>1. s \in UNOCCUPIED .. I_OCCUPIED
    BY DEF UNOCCUPIED, F_OCCUPIED, I_OCCUPIED
  <2> QED
    BY <2>1, TakenFields DEF Amid
<1> HIDE DEF t
<1>6. /\ IsMemory(n) /\ Logged(d, n) /\ Within(n.zone, v, U, lev)
      /\ n.zone = [t.zone EXCEPT ![new] = z] /\ n.st = t.st /\ n.short = t.short
  BY <1>3, <1>5, Write DEF Amid
<1>7. \A x \in Id : n.zone[x] = IF x = new THEN z ELSE m.zone[x]
  BY <1>5, <1>6, StoreWrite DEF Amid, IsMemory
<1>8. Store(e) /\ \A x \in Id : e[x] = IF x = new THEN z ELSE v[x]
  BY StoreWrite DEF Amid
<1> HIDE DEF n, e
<1>9. Store(w) /\ \A x \in Id : w[x] = IF x = h THEN c ELSE IF x = new THEN z ELSE v[x]
  BY <1>3, <1>8, StoreWrite
<1> HIDE DEF w
<1>10. U2 \subseteq Id /\ U \subseteq U2 /\ new \in U2 /\ h \in U2
  BY <1>3
<1>11. /\ lev2[new] = KidLevel(lev[h], j) /\ \A x \in U : lev2[x] = lev[x]
       /\ DOMAIN lev2 = U2
       /\ lev2 = [x \in U2 |-> lev2[x]]
  BY <1>3, <1>10
<1>12. \A x \in U2 : x = new \/ x \in U
  OBVIOUS
<1> HIDE DEF U2, lev2
<1>13. \A i, x : ~Pt(w[new], i, x)
  BY <1>3, <1>9 DEF Pt
<1>14. \A y \in U : \A i, x : Pt(w[y], i, x) <=> Pt(v[y], i, x) \/ (y = h /\ i = j /\ x = new)
  <2>1. w[h] = c /\ \A y \in U \ {h} : w[y] = v[y]
    BY <1>3, <1>9
  <2>2. \A y \in U : y = h \/ y \in U \ {h}
    OBVIOUS
  <2> QED
    BY <1>2, <2>1, <2>2
<1>15. \A y \in U : \A i, x : Pt(v[y], i, x) => x \in U /\ lev[x] = KidLevel(lev[y], i)
  BY DEF Amid, Plan
<1>16. Plan(w, U2, lev2)
  <2>1. lev2 \in [U2 -> 0 .. 4] /\ \A x \in U2 : lev2[x] = 4 <=> x = Root
    <3>1. lev[h] \in 1 .. 4
      BY DEF Amid, Plan
    <3>2. KidLevel(lev[h], j) \in 0 .. 3
      BY <3>1, Levels
    <3>3. \A x \in U : lev[x] \in 0 .. 4 /\ (lev[x] = 4 <=> x = Root)
      BY DEF Amid, Plan
    <3>4. lev2[new] \in 0 .. 4 /\ (lev2[new] = 4 <=> new = Root)
      BY <1>3, <1>11, <3>2
    <3>5. \A x \in U : lev2[x] \in 0 .. 4 /\ (lev2[x] = 4 <=> x = Root)
      BY <1>11, <3>3
    <3>6. \A x \in U2 : lev2[x] \in 0 .. 4 /\ (lev2[x] = 4 <=> x = Root)
      BY <1>12, <3>4, <3>5
    <3> QED
      BY <1>11, <3>6
  <2>2. \A x \in U2 : Fits(w[x], lev2[x])
    <3>1. Fits(w[new], lev2[new])
      BY <1>3, <1>9, <1>11
    <3>2. \A x \in U : Fits(v[x], lev[x])
      BY DEF Amid, Plan
    <3>3. \A x \in U : Fits(w[x], lev2[x])
      BY <1>3, <1>9, <1>11, <3>2
    <3> QED
      BY <1>12, <3>1, <3>3
  <2>3. \A y \in U2 : \A i, x : Pt(w[y], i, x) => x \in U2 /\ lev2[x] = KidLevel(lev2[y], i)
    <3> SUFFICES ASSUME NEW y \in U2, NEW i, NEW x, Pt(w[y], i, x)
                 PROVE  x \in U2 /\ lev2[x] = KidLevel(lev2[y], i)
      OBVIOUS
    <3>1. y \in U
      BY <1>12, <1>13
    <3>2. CASE Pt(v[y], i, x)
      <4>1. x \in U /\ lev[x] = KidLevel(lev[y], i)
        BY <1>15, <3>1, <3>2
      <4> QED
        BY <1>10, <1>11, <3>1, <4>1
    <3>3. CASE y = h /\ i = j /\ x = new
      BY <1>10, <1>11, <3>3
    <3> QED
      BY <1>14, <3>1, <3>2, <3>3
  <2>4. \A y, u \in U2 : \A i, k, x : Pt(w[y], i, x) /\ Pt(w[u], k, x) => y = u /\ i = k
    <3> SUFFICES ASSUME NEW y \in U2, NEW u \in U2, NEW i, NEW k, NEW x,
                        Pt(w[y], i, x), Pt(w[u], k, x)
                 PROVE  y = u /\ i = k
      OBVIOUS
    <3>1. y \in U /\ u \in U
      BY <1>12, <1>13
    <3>2. CASE x = new
      <4>1. ~Pt(v[y], i, x) /\ ~Pt(v[u], k, x)
        BY <1>3, <1>15, <3>1, <3>2
      <4> QED
        BY <1>14, <3>1, <4>1
    <3>3. CASE x # new
      <4>1. Pt(v[y], i, x) /\ Pt(v[u], k, x)
        BY <1>14, <3>1, <3>3
      <4>2. \A p, q \in U : \A a, b, r : Pt(v[p], a, r) /\ Pt(v[q], b, r) => p = q /\ a = b
        BY DEF Amid, Plan
      <4> QED
        BY <3>1, <4>1, <4>2
    <3> QED
      BY <3>2, <3>3
  <2>5. Root \in U2
    BY <1>10 DEF Amid, Plan
  <2> QED
    BY <1>10, <2>1, <2>2, <2>3, <2>4, <2>5 DEF Plan
<1>17. Within(n.zone, w, U2, lev2)
  <2> SUFFICES ASSUME NEW y \in U2
               PROVE  /\ Fits(n.zone[y], lev2[y])
                      /\ \A i, x : Pt(n.zone[y], i, x) => Pt(w[y], i, x)
    BY DEF Within
  <2>1. CASE y = new
    <3>1. n.zone[y] = z /\ w[y] = z
      BY <1>3, <1>7, <1>9, <2>1
    <3> QED
      BY <1>11, <2>1, <3>1
  <2>2. CASE y \in U
    <3>1. Fits(n.zone[y], lev[y]) /\ \A i, x : Pt(n.zone[y], i, x) => Pt(v[y], i, x)
      BY <1>6, <2>2 DEF Within
    <3> QED
      BY <1>11, <1>14, <2>2, <3>1
  <2> QED
    BY <1>12, <2>1, <2>2
<1>18. \A x \in Id \ (O \cup {h}) : w[x] = n.zone[x]
  BY <1>7, <1>9 DEF Amid
<1>19. Held(v, U) => Held(w, U2)
  <2> SUFFICES ASSUME Held(v, U), NEW x \in U2 \ {Root}
               PROVE  \E y \in U2 : \E i : Pt(w[y], i, x)
    BY DEF Held
  <2>1. CASE x = new
    <3>1. Pt(w[h], j, x)
      BY <1>2, <1>3, <1>9, <2>1
    <3> QED
      BY <1>10, <3>1
  <2>2. CASE x \in U
    <3>1. PICK y \in U : \E i : Pt(v[y], i, x)
      BY <2>2 DEF Held
    <3> QED
      BY <1>10, <1>14, <3>1
  <2> QED
    BY <1>12, <2>1, <2>2
<1>20. Tally(n, w, U2)
  <2>1. \A x \in U : x <= room /\ m.st[x] # UNOCCUPIED
    BY DEF Amid, Tally
  <2>2. \A x \in Id : x > room => m.st[x] # UNOCCUPIED
    BY DEF Amid, Tally
  <2>3. s # UNOCCUPIED
    BY DEF UNOCCUPIED, F_OCCUPIED, I_OCCUPIED
  <2>4. \A x \in U2 : x <= room /\ n.st[x] # UNOCCUPIED
    BY <1>3, <1>4, <1>5, <1>6, <1>12, <2>1, <2>3
  <2>5. \A x \in Id : x > room => n.st[x] # UNOCCUPIED
    BY <1>5, <1>6, <2>2, <2>3
  <2>6. ASSUME "index" \notin n.short
        PROVE  Held(w, U2) /\ \A x \in Id : x <= room /\ n.st[x] # UNOCCUPIED => x \in U2
    <3>1. Held(v, U) /\ \A x \in Id : x <= room /\ m.st[x] # UNOCCUPIED => x \in U
      BY <1>5, <1>6, <2>6 DEF Amid, Tally
    <3> QED
      BY <1>5, <1>6, <1>10, <1>19, <3>1
  <2>7. room \in Id
    BY DEF Amid, Tally
  <2> QED
    BY <2>4, <2>5, <2>6, <2>7 DEF Tally
<1>21. O \cup {h} \subseteq U2
  BY <1>10 DEF Amid
<1>22. w[h] = c /\ \A x \in U \ {h} : w[x] = v[x]
  BY <1>3, <1>9
<1>23. /\ Store(v) /\ Plan(v, U, lev) /\ Tidy(m, v, U, lev, O) /\ Rooted(v, lev, O) /\ O \subseteq U
       /\ lev[Root] = 4 /\ \A x \in U : lev[x] \in 0 .. 4
  BY DEF Amid, Plan
<1>24. Rooted(w, lev2, O \cup {h})
  <2> SUFFICES ASSUME NEW x \in O \cup {h}, lev2[x] < 3
               PROVE  \E y \in O \cup {h} : Below(w, y, x)
    BY DEF Rooted
  <2>1. x \in U /\ lev2[x] = lev[x]
    BY <1>11, <1>23
  <2>2. x \in O
    BY <1>23, <2>1
  <2>3. PICK y \in O : Below(v, y, x)
    BY <1>23, <2>1, <2>2 DEF Rooted
  <2>4. Below(w, y, x)
    BY <1>14, <1>23, <2>3 DEF Below
  <2> QED
    BY <2>4
<1>25. \A x \in U : lev[x] \in {1, 2} /\ Len(Refs(v[x])) = IDX => Refs(w[x]) = Refs(v[x])
  <2>1. ASSUME lev[h] \in {1, 2}
        PROVE  Len(Refs(v[h])) # IDX
    <3>1. Len(Refs(c)) <= IDX /\ Len(Refs(c)) \in Nat /\ Len(Refs(v[h])) \in Nat
      <4>1. Formed(v[h]) /\ Fits(v[h], lev[h])
        BY <1>3, <1>23 DEF Store, Plan
      <4> QED
        BY <2>1, <4>1, PointersOf DEF Most
    <3>2. Len(Refs(v[h])) < Len(Refs(c)) /\ IDX \in Nat
      <4>1. lev[h] # 4 /\ IDX \in Nat
        BY <2>1, SizeAssumption
      <4> QED
        BY <4>1
    <3> QED
      BY <3>1, <3>2
  <2> QED
    BY <1>22, <2>1
<1>26. ASSUME m.short = {}, NEW y \in U2, lev2[y] \in {2, 3}
       PROVE  Packed(w, y, lev2[y])
  <2>1. CASE y = new
    BY <1>13, <2>1 DEF Packed
  <2>2. CASE y = h
    <3> SUFFICES ASSUME NEW i, NEW x, Pt(w[h], i, x), i # Len(Refs(w[h]))
                 PROVE  Full(w, x, KidLevel(lev[h], i))
      BY <1>11, <2>2 DEF Packed
    <3>1. lev[h] \in {2, 3}
      BY <1>11, <1>26, <2>2
    <3>2. i # j
      BY <1>22, <3>1
    <3>3. Pt(v[h], i, x)
      BY <1>2, <1>22, <3>2
    <3>4. Full(v, x, KidLevel(lev[h], i))
      BY <1>26, <3>1, <3>3
    <3>5. x \in U /\ lev[x] = KidLevel(lev[h], i) /\ lev[x] \in 0 .. 2
      BY <1>15, <3>1, <3>3, Levels DEF KidLevel
    <3> QED
      BY <1>23, <1>25, <3>4, <3>5, FullKept
  <2>3. CASE y # new /\ y # h
    <3>1. y \in U /\ w[y] = v[y] /\ lev2[y] = lev[y] /\ lev[y] \in {2, 3}
      BY <1>11, <1>12, <1>22, <1>26, <2>3
    <3>2. Packed(v, y, lev[y])
      BY <1>23, <1>26, <3>1 DEF Tidy
    <3>3. Packed(w, y, lev[y])
      BY <1>23, <1>25, <3>1, <3>2, PackedKept
    <3> QED
      BY <3>1, <3>3
  <2> QED
    BY <2>1, <2>2, <2>3
<1>27. ASSUME m.short = {}, NEW y \in U2 \ (O \cup {h}), lev2[y] = 3
       PROVE  Sized(w, y)
  <2>1. CASE y = new
    <3>1. lev[h] = 4
      <4>1. KidLevel(lev[h], j) = 3 /\ lev[h] \in 0 .. 4
        BY <1>11, <1>23, <1>27, <2>1
      <4>2. lev[h] = 3 => KidLevel(lev[h], j) \in {0, 1, 2}
        BY Levels DEF KidLevel
      <4> QED
        BY <4>1, <4>2 DEF KidLevel
    <3>2. h = Root
      BY <3>1 DEF Amid, Plan
    <3>3. w[y].size = 1
      BY <1>3, <1>9, <2>1, <3>2
    <3>4. \A x : ~Below(w, y, x)
      BY <1>13, <2>1 DEF Below
    <3>5. \A x : x \in ZonesOfFile(w, y) <=> x = y
      BY <1>9, <1>16, <1>27, <3>4, OfFile
    <3>6. ZonesOfFile(w, y) = {y}
      BY <3>5
    <3> QED
      BY <3>3, <3>6, FS_Singleton DEF Sized
  <2>2. CASE y # new
    <3>1. y \in U \ O /\ w[y] = v[y] /\ lev[y] = 3
      BY <1>11, <1>12, <1>22, <1>27, <2>2
    <3>2. Hanging(v, U, y, ZonesOfFile(v, y)) /\ Root \notin ZonesOfFile(v, y)
      BY <1>23, <3>1, FileZones
    <3>3. ZonesOfFile(v, y) \cap O = {}
      BY <1>23, <3>1, CopiesApart
    <3>4. \A x \in ZonesOfFile(v, y) : x \in U \ {h}
      BY <3>2, <3>3 DEF Hanging
    <3>5. \A x \in ZonesOfFile(v, y) : w[x] = v[x]
      BY <1>22, <3>4
    <3>6. \A x \in ZonesOfFile(v, y) : \A a : Below(w, x, a) <=> Below(v, x, a)
      BY <3>5 DEF Below
    <3>7. ZonesOfFile(w, y) = ZonesOfFile(v, y)
      BY <1>9, <1>16, <1>23, <1>27, <3>1, <3>6, SameFile
    <3>8. Sized(v, y)
      BY <1>23, <1>27, <3>1 DEF Tidy
    <3> QED
      BY <3>1, <3>7, <3>8 DEF Sized
  <2> QED
    BY <2>1, <2>2
<1>28. Tidy(n, w, U2, lev2, O \cup {h})
  BY <1>5, <1>6, <1>26, <1>27 DEF Tidy
<1>29. Amid(d, n, w, U2, lev2, O \cup {h})
  BY <1>6, <1>9, <1>16, <1>17, <1>18, <1>20, <1>21, <1>24, <1>28 DEF Amid
<1>30. U \subseteq U2 /\ \A x \in U : lev2[x] = lev[x]
  BY <1>10, <1>11
<1>31. Grown(d, n, v, U, lev, O, h, c)
  BY <1>22, <1>29, <1>30 DEF Grown
<1> QED
  BY <1>31, Zenon DEF n, t

-----------------------------------------------------------------------------
(* The loops that fill a copy.                                              *)

\* The copy of a zone of level l that points to zones.
Copy(l, zones) == IF l = 3 THEN Inode(zones, 1) ELSE Idx(zones)

\* More is in use in w than in v; the copies in O are the same.
Ext(v, U, lev, O, w, U2, lev2) ==
  U \subseteq U2 /\ (\A x \in U : lev2[x] = lev[x]) /\ \A x \in O : w[x] = v[x]

\* What writing text to zone id has led to: text is left only if that is full.
Wrote(d, r, v, U, lev, O, id) ==
  /\ IsSeq(r.str)
  /\ \E w, U2, lev2 :
       /\ Amid(d, r.m, w, U2, lev2, O) /\ Ext(v, U, lev, O, w, U2, lev2)
       /\ r.str # <<>> /\ r.m.short = {} /\ id # 0 => Full(w, id, lev2[id])

\* A zone of level l has all the pointers it can have, each to a full zone.
FilledUp(v, h, l) ==
  Len(Refs(v[h])) = Most(l) /\ \A i, c : Pt(v[h], i, c) => Full(v, c, KidLevel(l, i))

\* Where the loop is that fills the copy of zone h, after round k: w has that
\* copy, with the pointers it has so far.
Reached(d, s, h, v, U, lev, O, w, U2, lev2) ==
  /\ Amid(d, s.m, w, U2, lev2, O \cup {h}) /\ Ext(v, U, lev, O, w, U2, lev2)
  /\ w[h] = Copy(lev[h], s.zones)
  /\ s.at = "end" /\ s.str # <<>> /\ s.m.short = {} => FilledUp(w, h, lev[h])

Filling(d, s, h, v, U, lev, O, k) ==
  /\ IsSeq(s.str) /\ s.zones \in Seq(Id) /\ Len(s.zones) <= Most(lev[h])
  /\ s.at \in {"on", "end", "short"}
  /\ s.at = "on" => Len(s.zones) >= k
  /\ \E w, U2, lev2 : Reached(d, s, h, v, U, lev, O, w, U2, lev2)

\* To leave alone what was there before is transitive.
LEMMA ExtTransitive ==
  ASSUME NEW v, NEW U, NEW lev, NEW O, NEW w, NEW U2, NEW lev2, NEW x, NEW U3, NEW lev3,
         Ext(v, U, lev, O, w, U2, lev2), Ext(w, U2, lev2, O, x, U3, lev3)
  PROVE  Ext(v, U, lev, O, x, U3, lev3)
BY DEF Ext

\* A copy is a zone like that it is a copy of.
LEMMA CopyIs ==
  ASSUME NEW l \in 1 .. 3, NEW zones \in Seq(Id), Len(zones) <= Most(l)
  PROVE  Formed(Copy(l, zones)) /\ Fits(Copy(l, zones), l) /\ Refs(Copy(l, zones)) = zones
<1>1. CASE l = 3
  <2>1. Copy(l, zones) = Inode(zones, 1) /\ Len(zones) <= Pointers
    BY <1>1 DEF Copy, Most
  <2>2. Inode(zones, 1).type = "inode"
    BY DEF Inode
  <2>3. Fits(Copy(l, zones), l)
    BY <1>1, <2>1, <2>2 DEF Fits
  <2> QED
    BY <2>1, <2>3, RefsOf DEF Formed
<1>2. CASE l # 3
  <2>1. Copy(l, zones) = Idx(zones) /\ Len(zones) <= IDX
    BY <1>2 DEF Copy, Most
  <2>2. Idx(zones).type = "idx"
    BY DEF Idx
  <2>3. Fits(Copy(l, zones), l)
    BY <1>2, <2>1, <2>2 DEF Fits
  <2> QED
    BY <2>1, <2>3, RefsOf DEF Formed
<1> QED
  BY <1>1, <1>2

\* Memory after the copy of h has become c, and nothing else of before has changed.
Longer(d, m, v, U, lev, O, h, c) ==
  \E w, U2, lev2 :
    Amid(d, m, w, U2, lev2, O) /\ Ext(v, U, lev, O \ {h}, w, U2, lev2) /\ w[h] = c

\* A round of a loop that finds no pointer left takes a zone for the next one.
LEMMA Link ==
  ASSUME NEW d, NEW m, NEW v, NEW U, NEW lev, NEW O, Amid(d, m, v, U, lev, O),
         NEW h \in O, lev[h] \in 1 .. 3,
         NEW zones \in Seq(Id), Len(zones) < Most(lev[h]), v[h] = Copy(lev[h], zones),
         get_free_id(m) >= Root,
         m.short = {} => \A i, x : Pt(v[h], i, x) => Full(v, x, KidLevel(lev[h], i))
  PROVE  /\ Longer(d, new_zone(m, get_free_id(m)), v, U, lev, O, h,
                   Copy(lev[h], Append(zones, get_free_id(m))))
         /\ Append(zones, get_free_id(m)) \in Seq(Id)
         /\ Len(Append(zones, get_free_id(m))) = Len(zones) + 1
<1> DEFINE new == get_free_id(m)
           more == Append(zones, new)
           j == Len(zones) + 1
<1>1. new \in Id /\ m.st[new] = UNOCCUPIED /\ new # 0
  BY FreeZone DEF Root
<1>2. h \in U /\ O \cup {h} = O /\ O \subseteq U /\ lev[h] # 0
  BY DEF Amid
<1> HIDE DEF new
<1>3. more \in Seq(Id) /\ Len(more) = Len(zones) + 1
  BY <1>1
<1>4. Len(zones) \in Nat /\ Len(zones) <= Most(lev[h]) /\ Len(more) <= Most(lev[h])
  <2>1. Most(lev[h]) \in Nat
    BY MostIsPositive
  <2> QED
    BY <1>3, <2>1
<1>5. /\ Formed(Copy(lev[h], more)) /\ Fits(Copy(lev[h], more), lev[h])
      /\ Refs(Copy(lev[h], more)) = more
  BY <1>3, <1>4, CopyIs
<1>6. Refs(v[h]) = zones
  BY <1>4, CopyIs
<1>7. \A x : ~Pt(v[h], j, x)
  BY <1>4, <1>6 DEF Pt
<1>8. Adds(v[h], Copy(lev[h], more), j, new)
  <2> SUFFICES ASSUME NEW i, NEW x
               PROVE  Pt(Copy(lev[h], more), i, x) <=> Pt(v[h], i, x) \/ (i = j /\ x = new)
    BY <1>7 DEF Adds
  <2>1. /\ DOMAIN zones = 1 .. Len(zones) /\ DOMAIN more = 1 .. j
        /\ more[j] = new /\ \A a \in 1 .. Len(zones) : more[a] = zones[a]
    BY <1>1, <1>3, <1>4
  <2>2. i \in 1 .. j <=> i \in 1 .. Len(zones) \/ i = j
    BY <1>4
  <2>3. j \notin 1 .. Len(zones)
    BY <1>4
  <2> HIDE DEF more, j
  <2> QED
    BY <1>1, <1>5, <1>6, <2>1, <2>2, <2>3 DEF Pt
<1>9. Formed(Blank) /\ Refs(Blank) = <<>> /\ Fits(Blank, KidLevel(lev[h], j))
  <2>1. KidLevel(lev[h], j) \in {0, 1, 2}
    BY Levels DEF KidLevel
  <2> QED
    BY <2>1, RefsOf DEF Formed, Fits, Blank
<1>10. new_zone(m, new) = write_zone(TakenAs(m, new, F_OCCUPIED), new, Blank)
  BY DEF new_zone
<1>11. /\ h # Root /\ F_OCCUPIED \in {F_OCCUPIED, I_OCCUPIED}
       /\ j = Len(Refs(Copy(lev[h], more))) /\ Len(Refs(v[h])) < j
  BY <1>3, <1>4, <1>5, <1>6 DEF Amid, Plan
<1> HIDE DEF more, j
<1>14. Grown(d, new_zone(m, new), v, U, lev, O, h, Copy(lev[h], more))
  BY <1>1, <1>2, <1>5, <1>8, <1>9, <1>10, <1>11, Grow
<1>12. PICK w, U2, lev2 :
         /\ Amid(d, new_zone(m, new), w, U2, lev2, O \cup {h})
         /\ U \subseteq U2 /\ \A x \in U : lev2[x] = lev[x]
         /\ w[h] = Copy(lev[h], more) /\ \A x \in U \ {h} : w[x] = v[x]
  BY <1>14 DEF Grown
<1>13. Ext(v, U, lev, O \ {h}, w, U2, lev2)
  BY <1>2, <1>12 DEF Ext
<1> QED
  BY <1>2, <1>3, <1>12, <1>13 DEF new, more, Longer

\* The first round.
LEMMA FirstRound ==
  ASSUME NEW d, NEW m, NEW v, NEW U, NEW lev, NEW O, Amid(d, m, v, U, lev, O),
         NEW h \in U \ O, lev[h] \in 1 .. 3, Rooted(v, lev, O \cup {h}),
         NEW zones, Refs(v[h]) = zones, NEW str, IsSeq(str)
  PROVE  Filling(d, First(m, zones, str), h, v, U, lev, O, 0)
<1> DEFINE w == [v EXCEPT ![h] = Copy(lev[h], zones)]
           new == get_free_id(m)
           fresh == zones = <<>> /\ str # <<>> /\ new >= Root
           s == First(m, zones, str)
<1> SUFFICES Filling(d, s, h, v, U, lev, O, 0)
  OBVIOUS
<1>1. h \in Id /\ Formed(v[h]) /\ Fits(v[h], lev[h])
  BY DEF Amid, Plan, Store
<1>2. zones \in Seq(Id) /\ Len(zones) <= Most(lev[h]) /\ Len(zones) \in Nat
  BY <1>1, PointersOf
<1>3. /\ Formed(Copy(lev[h], zones)) /\ Fits(Copy(lev[h], zones), lev[h])
      /\ Refs(Copy(lev[h], zones)) = zones
  BY <1>2, CopyIs
<1>4. Amid(d, m, w, U, lev, O \cup {h})
  BY <1>3, Copied
<1>5. \A x \in Id : w[x] = IF x = h THEN Copy(lev[h], zones) ELSE v[x]
  <2>1. v = [x \in Id |-> v[x]]
    BY DEF Amid, Store
  <2>2. DOMAIN v = Id
    BY <2>1
  <2> QED
    BY <2>2
<1>6. /\ s.m = IF fresh THEN new_zone(m, new) ELSE m
      /\ s.zones = IF fresh THEN <<new>> ELSE zones
      /\ s.str = str /\ s.at = "on"
  BY DEF First
<1> HIDE DEF w, s
<1>7. O \subseteq Id
  BY DEF Amid, Plan
<1>8. Ext(v, U, lev, O, w, U, lev) /\ w[h] = Copy(lev[h], zones)
  BY <1>1, <1>5, <1>7 DEF Ext
<1>9. CASE ~fresh
  <2>1. s.m = m /\ s.zones = zones
    BY <1>6, <1>9
  <2>2. Reached(d, s, h, v, U, lev, O, w, U, lev)
    BY <1>4, <1>6, <1>8, <2>1 DEF Reached
  <2>3. IsSeq(s.str) /\ s.at = "on"
    BY <1>6
  <2>4. s.zones \in Seq(Id) /\ Len(s.zones) <= Most(lev[h]) /\ Len(s.zones) >= 0
    BY <1>2, <2>1
  <2> QED
    BY <2>2, <2>3, <2>4 DEF Filling
<1>10. CASE fresh
  <2>1. s.m = new_zone(m, new) /\ s.zones = <<new>> /\ Append(zones, new) = <<new>>
    BY <1>6, <1>10
  <2>2. Len(zones) = 0 /\ Len(zones) < Most(lev[h])
    BY <1>10, MostIsPositive
  <2>3. /\ Longer(d, new_zone(m, new), w, U, lev, O \cup {h}, h, Copy(lev[h], <<new>>))
        /\ <<new>> \in Seq(Id) /\ Len(<<new>>) = 1
    <3>1. h \in O \cup {h} /\ zones \in Seq(Id) /\ new >= Root
      BY <1>2, <1>10
    <3>2. /\ Longer(d, new_zone(m, new), w, U, lev, O \cup {h}, h, Copy(lev[h], Append(zones, new)))
          /\ Append(zones, new) \in Seq(Id) /\ Len(Append(zones, new)) = Len(zones) + 1
      <4>1. Amid(d, m, w, U, lev, O \cup {h}) /\ w[h] = Copy(lev[h], zones)
        BY <1>4, <1>8
      <4>2. Len(zones) < Most(lev[h])
        BY <2>2
      <4>3. \A i, x : ~Pt(w[h], i, x)
        <5>1. Refs(w[h]) = <<>>
          BY <1>3, <1>8, <1>10
        <5> QED
          BY <5>1 DEF Pt
      <4> HIDE DEF fresh
      <4> QED
        BY <3>1, <4>1, <4>2, <4>3, Link
    <3> QED
      BY <2>1, <2>2, <3>2
  <2>4. PICK x, U2, lev2 :
          /\ Amid(d, new_zone(m, new), x, U2, lev2, O \cup {h})
          /\ Ext(w, U, lev, (O \cup {h}) \ {h}, x, U2, lev2)
          /\ x[h] = Copy(lev[h], <<new>>)
    BY <2>3 DEF Longer
  <2>5. (O \cup {h}) \ {h} = O
    OBVIOUS
  <2>6. Ext(v, U, lev, O, x, U2, lev2)
    BY <1>8, <2>4, <2>5, ExtTransitive
  <2>7. Reached(d, s, h, v, U, lev, O, x, U2, lev2)
    BY <1>6, <2>1, <2>4, <2>6 DEF Reached
  <2>8. s.zones \in Seq(Id) /\ Len(s.zones) <= Most(lev[h]) /\ Len(s.zones) >= 0
    BY <2>1, <2>2, <2>3, MostIsPositive
  <2> HIDE DEF new
  <2> QED
    BY <1>6, <2>7, <2>8 DEF Filling
<1> QED
  BY <1>9, <1>10

\* All that a copy points to is full when the last of it is.
LEMMA AllFull ==
  ASSUME NEW d, NEW m, NEW v, NEW U, NEW lev, NEW O, Amid(d, m, v, U, lev, O), m.short = {},
         NEW h \in O, lev[h] \in 1 .. 3, Refs(v[h]) \in Seq(Id),
         LastOr0(Refs(v[h])) # 0 => Full(v, LastOr0(Refs(v[h])), lev[LastOr0(Refs(v[h]))])
  PROVE  \A i, x : Pt(v[h], i, x) => Full(v, x, KidLevel(lev[h], i))
<1> SUFFICES ASSUME NEW i, NEW x, Pt(v[h], i, x)
             PROVE  Full(v, x, KidLevel(lev[h], i))
  OBVIOUS
<1>1. h \in U /\ lev[x] = KidLevel(lev[h], i)
  <2>1. h \in U /\ Plan(v, U, lev)
    BY DEF Amid
  <2> QED
    BY <2>1 DEF Plan
<1>2. PICK zones \in Seq(Id) : zones = Refs(v[h])
  OBVIOUS
<1>3. CASE i = Len(zones)
  <2>1. zones # <<>> /\ x = zones[i] /\ x # 0
    BY <1>2, <1>3 DEF Pt
  <2>2. LastOr0(zones) = x
    BY <1>3, <2>1 DEF LastOr0, Last
  <2> QED
    BY <1>1, <1>2, <2>1, <2>2
<1>4. CASE i # Len(zones)
  <2>1. CASE lev[h] = 1
    BY <2>1 DEF Full, KidLevel
  <2>2. CASE lev[h] # 1
    <3>1. Packed(v, h, lev[h])
      BY <1>1, <2>2 DEF Amid, Tidy
    <3> QED
      BY <1>2, <1>4, <3>1 DEF Packed
  <2> QED
    BY <2>1, <2>2
<1> QED
  BY <1>3, <1>4

\* A round after the first.
LEMMA NextRound ==
  ASSUME NEW d, NEW h, NEW v, NEW U, NEW lev, NEW O, h \in U \ O, lev[h] \in 1 .. 3,
         NEW k \in Nat, NEW s, Filling(d, s, h, v, U, lev, O, k), NEW r,
         s.at = "on" =>
           \A w, U2, lev2 : Reached(d, s, h, v, U, lev, O, w, U2, lev2)
                              => Wrote(d, r, w, U2, lev2, O \cup {h}, LastOr0(s.zones))
  PROVE  Filling(d, Further(s, r, Most(lev[h])), h, v, U, lev, O, k + 1)
<1> DEFINE most == Most(lev[h])
           new == get_free_id(r.m)
           t == Further(s, r, most)
<1> SUFFICES Filling(d, t, h, v, U, lev, O, k + 1)
  OBVIOUS
<1>1. CASE s.at # "on"
  <2>1. t = s
    BY <1>1 DEF Further
  <2> QED
    BY <1>1, <2>1 DEF Filling
<1>2. CASE s.at = "on"
  <2>1. PICK w, U2, lev2 : Reached(d, s, h, v, U, lev, O, w, U2, lev2)
    BY DEF Filling
  <2>2. Wrote(d, r, w, U2, lev2, O \cup {h}, LastOr0(s.zones))
    BY <1>2, <2>1
  <2>3. PICK x, U3, lev3 : /\ Amid(d, r.m, x, U3, lev3, O \cup {h})
                           /\ Ext(w, U2, lev2, O \cup {h}, x, U3, lev3)
                           /\ r.str # <<>> /\ r.m.short = {} /\ LastOr0(s.zones) # 0
                                => Full(x, LastOr0(s.zones), lev3[LastOr0(s.zones)])
    BY <2>2 DEF Wrote
  <2>4. IsSeq(r.str)
    BY <2>2 DEF Wrote
  <2>5. Ext(v, U, lev, O, x, U3, lev3) /\ x[h] = Copy(lev[h], s.zones) /\ lev3[h] = lev[h]
    BY <2>1, <2>3 DEF Reached, Ext
  <2>6. s.zones \in Seq(Id) /\ Len(s.zones) <= most /\ Len(s.zones) \in Nat /\ Len(s.zones) >= k
    BY <1>2 DEF Filling
  <2>11. Refs(x[h]) = s.zones /\ h \in O \cup {h}
    BY <2>5, <2>6, CopyIs
  <2>12. ASSUME r.str # <<>>, r.m.short = {}
         PROVE  \A i, y : Pt(x[h], i, y) => Full(x, y, KidLevel(lev[h], i))
    <3>1. PICK zones, last : zones = s.zones /\ last = LastOr0(s.zones)
      OBVIOUS
    <3>2. Refs(x[h]) \in Seq(Id) /\ (last # 0 => Full(x, last, lev3[last]))
      BY <2>3, <2>6, <2>11, <2>12, <3>1
    <3> QED
      BY <2>3, <2>5, <2>11, <2>12, <3>1, <3>2, AllFull
  <2>7. ASSUME NEW at \in {"end", "short"},
               t = [m |-> r.m, zones |-> s.zones, str |-> r.str, at |-> at],
               at = "end" => r.str = <<>> \/ Len(s.zones) >= most
        PROVE  Filling(d, t, h, v, U, lev, O, k + 1)
    <3>1. t.m = r.m /\ t.zones = s.zones /\ t.str = r.str /\ t.at = at
      BY <2>7
    <3> HIDE DEF t
    <3>4. ASSUME t.at = "end", t.str # <<>>, t.m.short = {}
          PROVE  FilledUp(x, h, lev[h])
      <4>1. Len(s.zones) = most
        BY <2>6, <2>7, <3>1, <3>4, MostIsPositive
      <4>2. \A i, y : Pt(x[h], i, y) => Full(x, y, KidLevel(lev[h], i))
        BY <2>12, <3>1, <3>4
      <4> QED
        BY <2>11, <4>1, <4>2 DEF FilledUp
    <3>2. Reached(d, t, h, v, U, lev, O, x, U3, lev3)
      BY <2>3, <2>5, <3>1, <3>4 DEF Reached
    <3>3. t.at # "on" /\ t.at \in {"on", "end", "short"}
      BY <3>1
    <3> QED
      BY <2>4, <2>6, <3>1, <3>2, <3>3 DEF Filling
  <2>8. CASE r.str = <<>> \/ Len(s.zones) >= most
    <3>1. t = [m |-> r.m, zones |-> s.zones, str |-> r.str, at |-> "end"]
      BY <1>2, <2>8 DEF Further
    <3> QED
      BY <2>7, <2>8, <3>1
  <2>9. CASE ~(r.str = <<>> \/ Len(s.zones) >= most) /\ new < Root
    <3>1. t = [m |-> r.m, zones |-> s.zones, str |-> r.str, at |-> "short"]
      BY <1>2, <2>9 DEF Further
    <3> QED
      BY <2>7, <3>1
  <2>10. CASE ~(r.str = <<>> \/ Len(s.zones) >= most) /\ ~(new < Root)
    <3>1. t = [m |-> new_zone(r.m, new), zones |-> Append(s.zones, new), str |-> r.str, at |-> "on"]
      BY <1>2, <2>10 DEF Further
    <3>2. Len(s.zones) < most
      BY <2>6, <2>10, MostIsPositive
    <3>3. new >= Root
      BY <2>10, FreeIsInt DEF Root
    <3>4. h \in O \cup {h} /\ (O \cup {h}) \ {h} = O
      OBVIOUS
    <3>11. r.m.short = {} => \A i, y : Pt(x[h], i, y) => Full(x, y, KidLevel(lev3[h], i))
      BY <2>5, <2>10, <2>12
    <3>5. /\ Longer(d, new_zone(r.m, new), x, U3, lev3, O \cup {h}, h,
                    Copy(lev3[h], Append(s.zones, new)))
          /\ Append(s.zones, new) \in Seq(Id)
          /\ Len(Append(s.zones, new)) = Len(s.zones) + 1
      BY <2>3, <2>5, <2>6, <3>2, <3>3, <3>4, <3>11, Link
    <3>6. PICK y, U4, lev4 :
           /\ Amid(d, new_zone(r.m, new), y, U4, lev4, O \cup {h})
           /\ Ext(x, U3, lev3, (O \cup {h}) \ {h}, y, U4, lev4)
           /\ y[h] = Copy(lev3[h], Append(s.zones, new))
      BY <3>5 DEF Longer
    <3>7. Ext(v, U, lev, O, y, U4, lev4)
      BY <2>5, <3>4, <3>6, ExtTransitive
    <3>8. /\ t.m = new_zone(r.m, new) /\ t.zones = Append(s.zones, new)
          /\ t.str = r.str /\ t.at = "on"
      BY <3>1
    <3> HIDE DEF t
    <3>9. Reached(d, t, h, v, U, lev, O, y, U4, lev4)
      BY <2>5, <3>6, <3>7, <3>8 DEF Reached
    <3>10. Len(t.zones) <= most /\ Len(t.zones) >= k + 1
      BY <2>6, <3>2, <3>5, <3>8, MostIsPositive
    <3> HIDE DEF new
    <3> QED
      BY <2>4, <3>5, <3>8, <3>9, <3>10 DEF Filling
  <2> QED
    BY <2>8, <2>9, <2>10
<1> QED
  BY <1>1, <1>2

\* There is an end to the rounds.
LEMMA LastRound ==
  ASSUME NEW d, NEW h, NEW v, NEW U, NEW lev, NEW O, NEW s,
         Filling(d, s, h, v, U, lev, O, Most(lev[h]) + 1)
  PROVE  s.at \in {"end", "short"}
<1>1. s.at = "on" => Len(s.zones) >= Most(lev[h]) + 1
  BY DEF Filling
<1>2. Len(s.zones) <= Most(lev[h]) /\ Len(s.zones) \in Nat /\ s.at \in {"on", "end", "short"}
  BY DEF Filling
<1> QED
  BY <1>1, <1>2, MostIsPositive

\* Copies stay copies from an inode down.
LEMMA RootedExt ==
  ASSUME NEW v, NEW U, NEW lev, NEW O, O \subseteq U, Rooted(v, lev, O),
         NEW w, NEW U2, NEW lev2, Ext(v, U, lev, O, w, U2, lev2)
  PROVE  Rooted(w, lev2, O)
<1>1. \A x \in O : lev2[x] = lev[x] /\ w[x] = v[x]
  BY DEF Ext
<1> QED
  BY <1>1 DEF Rooted, Below

\* wrt_idx writes its copy back or gives it up.
LEMMA FilledWrote ==
  ASSUME NEW d, NEW h, NEW v, NEW U, NEW lev, NEW O, h \in U \ O, lev[h] \in {1, 2}, NEW s,
         O \subseteq U, Rooted(v, lev, O), Filling(d, s, h, v, U, lev, O, Most(lev[h]) + 1)
  PROVE  Wrote(d, Filled(s, h), v, U, lev, O, h)
<1> DEFINE r == Filled(s, h)
<1>1. s.at \in {"end", "short"} /\ IsSeq(s.str)
  BY LastRound DEF Filling
<1>2. PICK w, U2, lev2 : Reached(d, s, h, v, U, lev, O, w, U2, lev2)
  BY DEF Filling
<1>3. Amid(d, s.m, w, U2, lev2, O \cup {h}) /\ Ext(v, U, lev, O, w, U2, lev2)
  BY <1>2 DEF Reached
<1>4. w[h] = Idx(s.zones)
  BY <1>2 DEF Reached, Copy
<1>5. (O \cup {h}) \ {h} = O /\ h \in O \cup {h} /\ \A x \in O : x # h
  OBVIOUS
<1>6. r.m = (IF s.at = "short" THEN Short(s.m, "index") ELSE write_zone(s.m, h, Idx(s.zones)))
      /\ r.str = s.str
  BY DEF Filled
<1> HIDE DEF r
<1>9. Rooted(w, lev2, (O \cup {h}) \ {h}) /\ lev2[h] = lev[h] /\ IsMemory(s.m)
  <2>1. Rooted(w, lev2, O)
    BY <1>3, RootedExt
  <2> QED
    BY <1>3, <1>5, <2>1 DEF Ext, Amid
<1>7. CASE s.at = "short"
  <2> DEFINE x == [w EXCEPT ![h] = s.m.zone[h]]
  <2>1. Amid(d, Short(s.m, "index"), x, U2, lev2, O)
    BY <1>3, <1>5, <1>9, GiveUp
  <2>2. w = [y \in Id |-> w[y]] /\ O \subseteq Id
    BY <1>3 DEF Amid, Store, Plan
  <2>3. \A y \in O : x[y] = w[y]
    BY <1>5, <2>2
  <2> HIDE DEF x
  <2>4. Ext(v, U, lev, O, x, U2, lev2)
    BY <1>3, <2>3 DEF Ext
  <2>5. r.m = Short(s.m, "index") /\ r.m.short = s.m.short \cup {"index"}
    BY <1>6, <1>7, <1>9, MemoryFields
  <2> QED
    BY <1>1, <1>6, <2>1, <2>4, <2>5 DEF Wrote, r
<1>8. CASE s.at = "end"
  <2>1. Amid(d, write_zone(s.m, h, Idx(s.zones)), w, U2, lev2, O)
    <3>1. lev2[h] # 3
      BY <1>9
    <3> QED
      BY <1>3, <1>4, <1>5, <1>9, <3>1, Land
  <2>2. r.m = write_zone(s.m, h, Idx(s.zones)) /\ r.m.short = s.m.short
    BY <1>6, <1>8, <1>9, MemoryFields
  <2>3. ASSUME r.str # <<>>, r.m.short = {}
        PROVE  Full(w, h, lev2[h])
    <3>1. FilledUp(w, h, lev[h])
      BY <1>2, <1>6, <1>8, <2>2, <2>3 DEF Reached
    <3> QED
      BY <1>9, <3>1 DEF FilledUp, Full, Most, Below, KidLevel
  <2> QED
    BY <1>1, <1>3, <1>6, <2>1, <2>2, <2>3 DEF Wrote, r
<1> QED
  BY <1>1, <1>7, <1>8

\* What a round writes behind the last pointer of a copy of level l.
Behind(l, s, undef) ==
  IF l = 1 THEN wrt_data(s.m, LastOr0(s.zones), s.str)
  ELSE IF l = 2 THEN wrt_idx_data(s.m, LastOr0(s.zones), s.str, undef)
  ELSE wrt_ptr(s.m, s.zones, s.str, undef)

\* The rounds, one after the other.
IsLoop(loop, l, m, zones, str, undef) ==
  /\ loop[0] = First(m, zones, str)
  /\ \A k \in 0 .. Most(l) :
       loop[k + 1] = Further(loop[k], Behind(l, loop[k], undef), Most(l))

\* A recursive definition of rounds, and that there is a function it is of.
IsRec(loop, l, m, zones, str, undef, most) ==
  loop = [k \in 0 .. most + 1 |->
            IF k = 0 THEN First(m, zones, str)
            ELSE Further(loop[k - 1], Behind(l, loop[k - 1], undef), most)]

\* The recursive function of a loop exists, for any number of rounds.
LEMMA Rounds ==
  ASSUME NEW l, NEW m, NEW zones, NEW str, NEW undef, NEW most \in Nat
  PROVE  \E loop : IsRec(loop, l, m, zones, str, undef, most)
<1> DEFINE Step(s) == Further(s, Behind(l, s, undef), most)
           Rec(loop, n) ==
             loop = [k \in 0 .. n |-> IF k = 0 THEN First(m, zones, str) ELSE Step(loop[k - 1])]
           Has == {n \in Nat : \E loop : Rec(loop, n)}
<1>1. 0 \in Has
  <2> DEFINE f == [k \in 0 .. 0 |-> First(m, zones, str)]
  <2>1. Rec(f, 0)
    OBVIOUS
  <2> QED
    BY <2>1
<1>2. ASSUME NEW n \in Nat, n \in Has
      PROVE  n + 1 \in Has
  <2>1. PICK f : Rec(f, n)
    BY <1>2
  <2> DEFINE g == [k \in 0 .. n + 1 |-> IF k <= n THEN f[k] ELSE Step(f[n])]
  <2>2. ASSUME NEW k \in 0 .. n + 1
        PROVE  g[k] = IF k = 0 THEN First(m, zones, str) ELSE Step(g[k - 1])
    <3>1. CASE k = 0
      BY <2>1, <3>1
    <3>2. CASE k \in 1 .. n
      BY <2>1, <3>2
    <3>3. CASE k = n + 1
      BY <2>1, <3>3
    <3> QED
      BY <3>1, <3>2, <3>3
  <2>3. Rec(g, n + 1)
    <3> HIDE DEF g
    <3>1. g = [k \in 0 .. n + 1 |-> g[k]]
      BY DEF g
    <3> QED
      BY <2>2, <3>1
  <2>4. \E loop : Rec(loop, n + 1)
    <3> HIDE DEF g
    <3> QED
      BY <2>3
  <2> QED
    BY <2>4
<1>3. most + 1 \in Has
  <2> HIDE DEF Has
  <2> QED
    BY <1>1, <1>2, Induct
<1> QED
  BY <1>3 DEF IsRec

\* The loop of wrt_idx over data zones.
LEMMA DataRounds ==
  ASSUME NEW m, NEW id, NEW str, NEW undef, ~(id < Root)
  PROVE  \E loop : /\ IsLoop(loop, 1, m, ZonesOf(m.zone[id]), str, undef)
                   /\ wrt_idx_data(m, id, str, undef) = Filled(loop[IDX + 1], id)
<1> DEFINE Z == ZonesOf(m.zone[id])
           loop == CHOOSE f : f = [k \in 0 .. IDX + 1 |->
                     IF k = 0 THEN First(m, Z, str)
                     ELSE Further(f[k - 1],
                                  wrt_data(f[k - 1].m, LastOr0(f[k - 1].zones), f[k - 1].str), IDX)]
<1>1. wrt_idx_data(m, id, str, undef) = Filled(loop[IDX + 1], id)
  BY DEF wrt_idx_data
<1>2. IDX \in Nat
  BY SizeAssumption
<1>3. \E f : IsRec(f, 1, m, Z, str, undef, IDX)
  BY <1>2, Rounds
<1>4. \A s : Behind(1, s, undef) = wrt_data(s.m, LastOr0(s.zones), s.str)
  BY DEF Behind
<1>5. \E f : f = [k \in 0 .. IDX + 1 |->
                     IF k = 0 THEN First(m, Z, str)
                     ELSE Further(f[k - 1],
                                  wrt_data(f[k - 1].m, LastOr0(f[k - 1].zones), f[k - 1].str), IDX)]
  BY ZenonT(30), <1>3, <1>4 DEF IsRec
<1>6. loop = [k \in 0 .. IDX + 1 |->
                     IF k = 0 THEN First(m, Z, str)
                     ELSE Further(loop[k - 1],
                                  wrt_data(loop[k - 1].m, LastOr0(loop[k - 1].zones), loop[k - 1].str),
                                  IDX)]
  BY <1>5
<1> HIDE DEF loop
<1>7. loop[0] = First(m, Z, str)
  BY <1>2, <1>6
<1>8. ASSUME NEW k \in 0 .. IDX
      PROVE  loop[k + 1] = Further(loop[k], Behind(1, loop[k], undef), IDX)
  <2>1. k + 1 \in 0 .. IDX + 1 /\ k + 1 # 0 /\ (k + 1) - 1 = k
    BY <1>2
  <2> QED
    BY <1>4, <1>6, <2>1
<1> QED
  BY <1>1, <1>7, <1>8 DEF IsLoop, Most

\* The loop of wrt_idx over index zones.
LEMMA IdxRounds ==
  ASSUME NEW m, NEW id, NEW str, NEW undef, ~(id < Root)
  PROVE  \E loop : /\ IsLoop(loop, 2, m, ZonesOf(m.zone[id]), str, undef)
                   /\ wrt_idx_idx(m, id, str, undef) = Filled(loop[IDX + 1], id)
<1> DEFINE Z == ZonesOf(m.zone[id])
           loop == CHOOSE f : f = [k \in 0 .. IDX + 1 |->
                     IF k = 0 THEN First(m, Z, str)
                     ELSE Further(f[k - 1],
                                  wrt_idx_data(f[k - 1].m, LastOr0(f[k - 1].zones), f[k - 1].str, undef),
                                  IDX)]
<1>1. wrt_idx_idx(m, id, str, undef) = Filled(loop[IDX + 1], id)
  BY DEF wrt_idx_idx
<1>2. IDX \in Nat
  BY SizeAssumption
<1>3. \E f : IsRec(f, 2, m, Z, str, undef, IDX)
  BY <1>2, Rounds
<1>4. \A s : Behind(2, s, undef) = wrt_idx_data(s.m, LastOr0(s.zones), s.str, undef)
  BY DEF Behind
<1>5. \E f : f = [k \in 0 .. IDX + 1 |->
                     IF k = 0 THEN First(m, Z, str)
                     ELSE Further(f[k - 1],
                                  wrt_idx_data(f[k - 1].m, LastOr0(f[k - 1].zones), f[k - 1].str, undef),
                                  IDX)]
  BY ZenonT(30), <1>3, <1>4 DEF IsRec
<1>6. loop = [k \in 0 .. IDX + 1 |->
                     IF k = 0 THEN First(m, Z, str)
                     ELSE Further(loop[k - 1],
                                  wrt_idx_data(loop[k - 1].m, LastOr0(loop[k - 1].zones), loop[k - 1].str, undef),
                                  IDX)]
  BY <1>5
<1> HIDE DEF loop
<1>7. loop[0] = First(m, Z, str)
  BY <1>2, <1>6
<1>8. ASSUME NEW k \in 0 .. IDX
      PROVE  loop[k + 1] = Further(loop[k], Behind(2, loop[k], undef), IDX)
  <2>1. k + 1 \in 0 .. IDX + 1 /\ k + 1 # 0 /\ (k + 1) - 1 = k
    BY <1>2
  <2> QED
    BY <1>4, <1>6, <2>1
<1> QED
  BY <1>1, <1>7, <1>8 DEF IsLoop, Most

\* The loop of add_data, and what it does in the end.
Ended(s, inode) ==
  IF s.at = "short"
  THEN [m |-> Short(s.m, "file"), inode |-> Inode(s.zones, inode.size)]
  ELSE [m |-> s.m, inode |-> Inode(s.zones, update_size(s.m, s.zones))]

\* add_data is the end of a loop over the pointers of its inode.
LEMMA FileRounds ==
  ASSUME NEW m, NEW inode, NEW str, NEW undef
  PROVE  \E loop : /\ IsLoop(loop, 3, m, inode.ptrs, str, undef)
                   /\ add_data(m, inode, str, undef) = Ended(loop[Pointers + 1], inode)
<1> DEFINE Z == inode.ptrs
           loop == CHOOSE f : f = [k \in 0 .. Pointers + 1 |->
                     IF k = 0 THEN First(m, Z, str)
                     ELSE Further(f[k - 1],
                                  wrt_ptr(f[k - 1].m, f[k - 1].zones, f[k - 1].str, undef),
                                  Pointers)]
<1>1. add_data(m, inode, str, undef) = Ended(loop[Pointers + 1], inode)
  BY DEF add_data, Ended
<1>2. Pointers \in Nat
  BY SizeAssumption
<1>3. \E f : IsRec(f, 3, m, Z, str, undef, Pointers)
  BY <1>2, Rounds
<1>4. \A s : Behind(3, s, undef) = wrt_ptr(s.m, s.zones, s.str, undef)
  BY DEF Behind
<1>5. \E f : f = [k \in 0 .. Pointers + 1 |->
                     IF k = 0 THEN First(m, Z, str)
                     ELSE Further(f[k - 1],
                                  wrt_ptr(f[k - 1].m, f[k - 1].zones, f[k - 1].str, undef),
                                  Pointers)]
  BY <1>3, <1>4 DEF IsRec
<1>6. loop = [k \in 0 .. Pointers + 1 |->
                     IF k = 0 THEN First(m, Z, str)
                     ELSE Further(loop[k - 1],
                                  wrt_ptr(loop[k - 1].m, loop[k - 1].zones, loop[k - 1].str, undef),
                                  Pointers)]
  BY <1>5
<1> HIDE DEF loop
<1>7. loop[0] = First(m, Z, str)
  BY <1>2, <1>6
<1>8. ASSUME NEW k \in 0 .. Pointers
      PROVE  loop[k + 1] = Further(loop[k], Behind(3, loop[k], undef), Pointers)
  <2>1. k + 1 \in 0 .. Pointers + 1 /\ k + 1 # 0 /\ (k + 1) - 1 = k
    BY <1>2
  <2> QED
    BY <1>4, <1>6, <2>1
<1> QED
  BY <1>1, <1>7, <1>8 DEF IsLoop, Most

-----------------------------------------------------------------------------
(* What each of the functions that write text has led to.                   *)

\* Nothing was written, as there was no zone to write to.
LEMMA WroteNothing ==
  ASSUME NEW d, NEW m, NEW v, NEW U, NEW lev, NEW O, Amid(d, m, v, U, lev, O),
         NEW t, IsSeq(t)
  PROVE  Wrote(d, [m |-> m, str |-> t], v, U, lev, O, 0)
<1>1. Ext(v, U, lev, O, v, U, lev)
  BY DEF Ext
<1> DEFINE r == [m |-> m, str |-> t]
<1>2. r.m = m /\ r.str = t
  OBVIOUS
<1> HIDE DEF r
<1>3. Wrote(d, r, v, U, lev, O, 0)
  BY <1>1, <1>2 DEF Wrote
<1> QED
  BY <1>3 DEF r

\* wrt_data writes into one data zone, or nowhere.
LEMMA WrtData ==
  ASSUME NEW d, NEW m, NEW v, NEW U, NEW lev, NEW O, Amid(d, m, v, U, lev, O),
         NEW id, id = 0 \/ (id \in U /\ lev[id] = 0), \A x \in O : lev[x] # 0,
         NEW str, IsSeq(str)
  PROVE  Wrote(d, wrt_data(m, id, str), v, U, lev, O, id)
<1>1. CASE id = 0
  <2>1. wrt_data(m, id, str) = [m |-> m, str |-> str]
    BY <1>1 DEF wrt_data, Root
  <2> QED
    BY <1>1, <2>1, WroteNothing
<1>2. CASE id \in U /\ lev[id] = 0
  <2> DEFINE t == TextOf(m.zone[id])
             n == IF Len(t) + Len(str) + 1 <= ZONESIZE THEN Len(str) ELSE ZONESIZE - 1 - Len(t)
             z == Data(t \o SubSeq(str, 1, n))
             r == wrt_data(m, id, str)
  <2>1. id \in Id /\ id \notin O /\ Formed(v[id]) /\ Fits(v[id], 0) /\ ~(id < Root)
    <3>1. id \in Id /\ id \notin O
      BY <1>2 DEF Amid, Plan
    <3>2. ~(id < Root)
      BY <3>1, SizeAssumption DEF Id, Root
    <3> QED
      BY <1>2, <3>1, <3>2 DEF Amid, Plan, Store
  <2>2. m.zone[id] = v[id]
    BY <2>1 DEF Amid
  <2>3. Refs(v[id]) = <<>> /\ v[id].type \in {"data", "blank"}
    BY <2>1, RefsOf, FormedIs DEF Fits, Refs
  <2>4. IsSeq(t) /\ Len(t) < ZONESIZE
    <3>1. CASE v[id].type = "data"
      BY <2>1, <2>2, <3>1, FormedIs DEF TextOf
    <3>2. CASE v[id].type = "blank"
      <4>1. t = <<>>
        BY <2>2, <3>2 DEF TextOf
      <4> QED
        BY <4>1, SizeAssumption DEF IsSeq
    <3> QED
      BY <2>3, <3>1, <3>2
  <2>5. r = [m |-> write_zone(m, id, z), str |-> SubSeq(str, n + 1, Len(str))]
    BY <2>1 DEF wrt_data
  <2>6. ZONESIZE \in Nat /\ Len(t) \in Nat /\ Len(str) \in Nat
    <3> HIDE DEF t
    <3> QED
      BY <2>4, SizeAssumption, SeqGrows
  <2>7. n \in Nat /\ n <= Len(str) /\ Len(t) + n < ZONESIZE
    <3> HIDE DEF t
    <3> QED
      BY <2>4, <2>6
  <2> HIDE DEF t, n, r
  <2>8. IsSeq(t \o SubSeq(str, 1, n)) /\ Len(t \o SubSeq(str, 1, n)) < ZONESIZE
    <3>1. IsSeq(SubSeq(str, 1, n)) /\ Len(SubSeq(str, 1, n)) = n
      BY <2>4, <2>6, <2>7, SeqParts
    <3>2. IsSeq(<<>>)
      BY DEF IsSeq
    <3>3. /\ IsSeq(t \o SubSeq(str, 1, n))
          /\ Len(t \o SubSeq(str, 1, n)) = Len(t) + Len(SubSeq(str, 1, n))
      BY <2>4, <2>6, <2>7, <3>1, SeqParts
    <3> QED
      BY <2>6, <2>7, <3>1, <3>3
  <2>9. IsSeq(SubSeq(str, n + 1, Len(str)))
    <3>1. n + 1 \in Nat \ {0} /\ Len(str) \in Int /\ Len(str) <= Len(str)
      BY <2>6, <2>7
    <3> QED
      BY <3>1, SeqParts
  <2>10. Formed(z) /\ Fits(z, 0) /\ Refs(z) = <<>>
    <3>1. Formed(z)
      BY <2>8 DEF Formed
    <3>2. z.type = "data"
      BY DEF Data
    <3> QED
      BY <3>1, <3>2, RefsOf DEF Fits
  <2> DEFINE w == [v EXCEPT ![id] = z]
  <2> HIDE DEF z
  <2>11. Amid(d, write_zone(m, id, z), w, U, lev, O)
    BY <1>2, <2>1, <2>3, <2>10, Keep
  <2>12. v = [x \in Id |-> v[x]] /\ O \subseteq Id
    BY DEF Amid, Store, Plan
  <2>13. \A x \in O : w[x] = v[x]
    BY <2>1, <2>12
  <2> HIDE DEF w
  <2>14. Ext(v, U, lev, O, w, U, lev)
    BY <2>13 DEF Ext
  <2>15. r.m = write_zone(m, id, z) /\ r.str = SubSeq(str, n + 1, Len(str))
    BY <2>5
  <2>17. Full(w, id, lev[id])
    BY <1>2 DEF Full
  <2>16. Wrote(d, r, v, U, lev, O, id)
    BY <2>9, <2>11, <2>14, <2>15, <2>17 DEF Wrote
  <2> QED
    BY <2>16 DEF r
<1> QED
  BY <1>1, <1>2

\* The last pointer of a copy leads one level down, or there is none.
LEMMA LastKid ==
  ASSUME NEW v, NEW U, NEW lev, Plan(v, U, lev), NEW h \in U, Refs(v[h]) \in Seq(Id)
  PROVE  \/ LastOr0(Refs(v[h])) = 0
         \/ /\ LastOr0(Refs(v[h])) \in U
            /\ lev[LastOr0(Refs(v[h]))] = KidLevel(lev[h], Len(Refs(v[h])))
            /\ Below(v, h, LastOr0(Refs(v[h])))
<1>1. PICK zones \in Seq(Id) : zones = Refs(v[h])
  OBVIOUS
<1>2. CASE zones = <<>>
  BY <1>1, <1>2 DEF LastOr0
<1>3. CASE zones # <<>>
  <2>1. LastOr0(zones) = zones[Len(zones)] /\ Len(zones) \in DOMAIN zones
    BY <1>3 DEF LastOr0, Last
  <2>2. zones[Len(zones)] # 0
    BY <2>1, SizeAssumption DEF Id, Root
  <2>3. Pt(v[h], Len(zones), LastOr0(zones))
    BY <1>1, <2>1, <2>2 DEF Pt
  <2>4. LastOr0(zones) \in U /\ lev[LastOr0(zones)] = KidLevel(lev[h], Len(zones))
    BY <2>3 DEF Plan
  <2>5. Below(v, h, LastOr0(zones))
    BY <2>3 DEF Below
  <2> QED
    BY <1>1, <2>4, <2>5
<1> QED
  BY <1>2, <1>3

\* The loop fills its copy, if each round writes text as it should.
LEMMA LoopFills ==
  ASSUME NEW d, NEW m, NEW v, NEW U, NEW lev, NEW O, Amid(d, m, v, U, lev, O),
         NEW h \in U \ O, lev[h] \in 1 .. 3, Rooted(v, lev, O \cup {h}),
         NEW zones, Refs(v[h]) = zones, NEW str, IsSeq(str), NEW undef,
         NEW loop, IsLoop(loop, lev[h], m, zones, str, undef),
         \A s, w, U2, lev2 :
           Reached(d, s, h, v, U, lev, O, w, U2, lev2) /\ s.zones \in Seq(Id) /\ IsSeq(s.str)
             /\ Len(s.zones) <= Most(lev[h])
             => Wrote(d, Behind(lev[h], s, undef), w, U2, lev2, O \cup {h}, LastOr0(s.zones))
  PROVE  Filling(d, loop[Most(lev[h]) + 1], h, v, U, lev, O, Most(lev[h]) + 1)
<1> DEFINE most == Most(lev[h])
           Does == {k \in Nat : k <= most + 1 => Filling(d, loop[k], h, v, U, lev, O, k)}
<1>1. most \in Nat
  BY MostIsPositive
<1>2. 0 \in Does
  <2>1. loop[0] = First(m, zones, str)
    BY DEF IsLoop
  <2>2. Filling(d, loop[0], h, v, U, lev, O, 0)
    BY <2>1, FirstRound
  <2> QED
    BY <2>2
<1>3. ASSUME NEW k \in Nat, k \in Does
      PROVE  k + 1 \in Does
  <2> SUFFICES ASSUME k + 1 <= most + 1
               PROVE  Filling(d, loop[k + 1], h, v, U, lev, O, k + 1)
    OBVIOUS
  <2>1. Filling(d, loop[k], h, v, U, lev, O, k)
    BY <1>1, <1>3
  <2>2. loop[k + 1] = Further(loop[k], Behind(lev[h], loop[k], undef), most)
    BY <1>1 DEF IsLoop
  <2>3. loop[k].zones \in Seq(Id) /\ IsSeq(loop[k].str) /\ Len(loop[k].zones) <= most
    BY <2>1 DEF Filling
  <2>4. \A w, U2, lev2 : Reached(d, loop[k], h, v, U, lev, O, w, U2, lev2)
                           => Wrote(d, Behind(lev[h], loop[k], undef), w, U2, lev2, O \cup {h},
                                    LastOr0(loop[k].zones))
    BY <2>3
  <2> HIDE DEF Does
  <2> QED
    BY <2>1, <2>2, <2>4, NextRound
<1> HIDE DEF Does
<1>4. most + 1 \in Does
  BY <1>1, <1>2, <1>3, Induct
<1> QED
  BY <1>1, <1>4 DEF Does

\* wrt_idx of an index zone of data zones.
LEMMA WrtIdxData ==
  ASSUME NEW d, NEW m, NEW v, NEW U, NEW lev, NEW O, Amid(d, m, v, U, lev, O),
         NEW id, id = 0 \/ (id \in U /\ lev[id] = 1 /\ Rooted(v, lev, O \cup {id})),
         \A x \in O : lev[x] \notin {0, 1},
         NEW str, IsSeq(str), NEW undef
  PROVE  Wrote(d, wrt_idx_data(m, id, str, undef), v, U, lev, O, id)
<1>1. CASE id = 0
  <2>1. PICK t : t = IF undef THEN <<>> ELSE str
    OBVIOUS
  <2>2. IsSeq(t)
    BY <2>1 DEF IsSeq
  <2>3. wrt_idx_data(m, id, str, undef) = [m |-> m, str |-> t]
    BY <1>1, <2>1 DEF wrt_idx_data, Undefined, Root
  <2> QED
    BY <1>1, <2>2, <2>3, WroteNothing
<1>2. CASE id \in U /\ lev[id] = 1 /\ Rooted(v, lev, O \cup {id})
  <2>1. id \in U \ O /\ id \in Id /\ Formed(v[id]) /\ Fits(v[id], lev[id]) /\ ~(id < Root)
    <3>1. id \in U \ O /\ id \in Id
      BY <1>2 DEF Amid, Plan
    <3>2. ~(id < Root)
      BY <3>1, SizeAssumption DEF Id, Root
    <3> QED
      BY <1>2, <3>1, <3>2 DEF Amid, Plan, Store
  <2>2. m.zone[id] = v[id] /\ lev[id] \in 1 .. 3 /\ lev[id] # 3
    BY <1>2, <2>1 DEF Amid
  <2>3. Refs(v[id]) = ZonesOf(m.zone[id])
    BY <2>1, <2>2, PointersOf
  <2>4. PICK loop : /\ IsLoop(loop, 1, m, ZonesOf(m.zone[id]), str, undef)
                    /\ wrt_idx_data(m, id, str, undef) = Filled(loop[IDX + 1], id)
    BY <2>1, DataRounds
  <2>5. ASSUME NEW s, NEW w, NEW U2, NEW lev2,
               Reached(d, s, id, v, U, lev, O, w, U2, lev2), s.zones \in Seq(Id), IsSeq(s.str),
               Len(s.zones) <= Most(lev[id])
        PROVE  Wrote(d, Behind(lev[id], s, undef), w, U2, lev2, O \cup {id}, LastOr0(s.zones))
    <3>1. /\ Amid(d, s.m, w, U2, lev2, O \cup {id}) /\ Ext(v, U, lev, O, w, U2, lev2)
          /\ w[id] = Copy(lev[id], s.zones)
      BY <2>5 DEF Reached
    <3>2. Refs(w[id]) = s.zones
      BY <2>2, <2>5, <3>1, CopyIs
    <3>3. id \in U2 /\ lev2[id] = 1 /\ Plan(w, U2, lev2)
      BY <1>2, <3>1 DEF Ext, Amid
    <3>4. \/ LastOr0(s.zones) = 0
          \/ LastOr0(s.zones) \in U2 /\ lev2[LastOr0(s.zones)] = KidLevel(lev2[id], Len(s.zones))
      <4>1. Refs(w[id]) \in Seq(Id)
        BY <2>5, <3>2
      <4>2. \/ LastOr0(Refs(w[id])) = 0
            \/ /\ LastOr0(Refs(w[id])) \in U2
               /\ lev2[LastOr0(Refs(w[id]))] = KidLevel(lev2[id], Len(Refs(w[id])))
        BY <3>3, <4>1, LastKid
      <4> QED
        BY <3>2, <4>2
    <3>5. KidLevel(lev2[id], Len(s.zones)) = 0
      BY <3>3 DEF KidLevel
    <3>6. \A x \in O \cup {id} : lev2[x] # 0
      <4>1. \A x \in O : x \in U /\ lev[x] # 0
        BY DEF Amid
      <4> QED
        BY <3>1, <3>3, <4>1 DEF Ext
    <3>7. Wrote(d, wrt_data(s.m, LastOr0(s.zones), s.str), w, U2, lev2, O \cup {id},
                LastOr0(s.zones))
      BY <2>5, <3>1, <3>4, <3>5, <3>6, WrtData
    <3> QED
      BY <1>2, <3>7 DEF Behind
  <2>6. IsLoop(loop, lev[id], m, ZonesOf(m.zone[id]), str, undef)
    BY <1>2, <2>4
  <2>7. Filling(d, loop[Most(lev[id]) + 1], id, v, U, lev, O, Most(lev[id]) + 1)
    BY <1>2, <2>1, <2>2, <2>3, <2>5, <2>6, LoopFills
  <2>8. Most(lev[id]) = IDX /\ lev[id] \in {1, 2}
    BY <1>2 DEF Most
  <2>10. O \subseteq U /\ Rooted(v, lev, O)
    BY DEF Amid
  <2>9. Wrote(d, Filled(loop[Most(lev[id]) + 1], id), v, U, lev, O, id)
    BY <2>1, <2>7, <2>8, <2>10, FilledWrote
  <2> QED
    BY <2>4, <2>8, <2>9
<1> QED
  BY <1>1, <1>2

\* wrt_idx of an index zone of index zones.
LEMMA WrtIdxIdx ==
  ASSUME NEW d, NEW m, NEW v, NEW U, NEW lev, NEW O, Amid(d, m, v, U, lev, O),
         NEW id, id = 0 \/ (id \in U /\ lev[id] = 2 /\ Rooted(v, lev, O \cup {id})),
         \A x \in O : lev[x] \notin {0, 1, 2},
         NEW str, IsSeq(str), NEW undef
  PROVE  Wrote(d, wrt_idx_idx(m, id, str, undef), v, U, lev, O, id)
<1>1. CASE id = 0
  <2>1. PICK t : t = IF undef THEN <<>> ELSE str
    OBVIOUS
  <2>2. IsSeq(t)
    BY <2>1 DEF IsSeq
  <2>3. wrt_idx_idx(m, id, str, undef) = [m |-> m, str |-> t]
    BY <1>1, <2>1 DEF wrt_idx_idx, Undefined, Root
  <2> QED
    BY <1>1, <2>2, <2>3, WroteNothing
<1>2. CASE id \in U /\ lev[id] = 2 /\ Rooted(v, lev, O \cup {id})
  <2>1. id \in U \ O /\ id \in Id /\ Formed(v[id]) /\ Fits(v[id], lev[id]) /\ ~(id < Root)
    <3>1. id \in U \ O /\ id \in Id
      BY <1>2 DEF Amid, Plan
    <3>2. ~(id < Root)
      BY <3>1, SizeAssumption DEF Id, Root
    <3> QED
      BY <1>2, <3>1, <3>2 DEF Amid, Plan, Store
  <2>2. m.zone[id] = v[id] /\ lev[id] \in 1 .. 3 /\ lev[id] # 3
    BY <1>2, <2>1 DEF Amid
  <2>3. Refs(v[id]) = ZonesOf(m.zone[id])
    BY <2>1, <2>2, PointersOf
  <2>4. PICK loop : /\ IsLoop(loop, 2, m, ZonesOf(m.zone[id]), str, undef)
                    /\ wrt_idx_idx(m, id, str, undef) = Filled(loop[IDX + 1], id)
    BY <2>1, IdxRounds
  <2>5. ASSUME NEW s, NEW w, NEW U2, NEW lev2,
               Reached(d, s, id, v, U, lev, O, w, U2, lev2), s.zones \in Seq(Id), IsSeq(s.str),
               Len(s.zones) <= Most(lev[id])
        PROVE  Wrote(d, Behind(lev[id], s, undef), w, U2, lev2, O \cup {id}, LastOr0(s.zones))
    <3>1. /\ Amid(d, s.m, w, U2, lev2, O \cup {id}) /\ Ext(v, U, lev, O, w, U2, lev2)
          /\ w[id] = Copy(lev[id], s.zones)
      BY <2>5 DEF Reached
    <3>2. Refs(w[id]) = s.zones
      BY <2>2, <2>5, <3>1, CopyIs
    <3>3. id \in U2 /\ lev2[id] = 2 /\ Plan(w, U2, lev2)
      BY <1>2, <3>1 DEF Ext, Amid
    <3>4. \/ LastOr0(s.zones) = 0
          \/ /\ LastOr0(s.zones) \in U2 /\ lev2[LastOr0(s.zones)] = KidLevel(lev2[id], Len(s.zones))
             /\ Below(w, id, LastOr0(s.zones))
      <4>1. Refs(w[id]) \in Seq(Id)
        BY <2>5, <3>2
      <4>2. \/ LastOr0(Refs(w[id])) = 0
            \/ /\ LastOr0(Refs(w[id])) \in U2
               /\ lev2[LastOr0(Refs(w[id]))] = KidLevel(lev2[id], Len(Refs(w[id])))
               /\ Below(w, id, LastOr0(Refs(w[id])))
        BY <3>3, <4>1, LastKid
      <4> QED
        BY <3>2, <4>2
    <3>5. KidLevel(lev2[id], Len(s.zones)) = 1
      BY <3>3 DEF KidLevel
    <3>6. \A x \in O \cup {id} : lev2[x] \notin {0, 1}
      <4>1. \A x \in O : x \in U /\ lev[x] \notin {0, 1}
        BY DEF Amid
      <4> QED
        BY <3>1, <3>3, <4>1 DEF Ext
    <3>8. LastOr0(s.zones) # 0 => Rooted(w, lev2, (O \cup {id}) \cup {LastOr0(s.zones)})
      BY <3>1, <3>4 DEF Rooted, Amid
    <3>7. Wrote(d, wrt_idx_data(s.m, LastOr0(s.zones), s.str, undef), w, U2, lev2, O \cup {id},
                LastOr0(s.zones))
      BY <2>5, <3>1, <3>4, <3>5, <3>6, <3>8, WrtIdxData
    <3> QED
      BY <1>2, <3>7 DEF Behind
  <2>6. IsLoop(loop, lev[id], m, ZonesOf(m.zone[id]), str, undef)
    BY <1>2, <2>4
  <2>7. Filling(d, loop[Most(lev[id]) + 1], id, v, U, lev, O, Most(lev[id]) + 1)
    BY <1>2, <2>1, <2>2, <2>3, <2>5, <2>6, LoopFills
  <2>8. Most(lev[id]) = IDX /\ lev[id] \in {1, 2}
    BY <1>2 DEF Most
  <2>10. O \subseteq U /\ Rooted(v, lev, O)
    BY DEF Amid
  <2>9. Wrote(d, Filled(loop[Most(lev[id]) + 1], id), v, U, lev, O, id)
    BY <2>1, <2>7, <2>8, <2>10, FilledWrote
  <2> QED
    BY <2>4, <2>8, <2>9
<1> QED
  BY <1>1, <1>2

\* add_data, and the write of the inode behind it.
LEMMA WrtPtr ==
  ASSUME NEW d, NEW m, NEW v, NEW U, NEW lev, NEW id \in U, Amid(d, m, v, U, lev, {id}),
         lev[id] = 3, Refs(v[id]) \in Seq(Id), NEW str, IsSeq(str), NEW undef
  PROVE  Wrote(d, wrt_ptr(m, Refs(v[id]), str, undef), v, U, lev, {id}, LastOr0(Refs(v[id])))
<1> DEFINE ptrs == Refs(v[id])
           at == LastOr0(ptrs)
<1>1. at = 0 \/ (at \in U /\ lev[at] = KidLevel(lev[id], Len(ptrs)) /\ Below(v, id, at))
  <2>1. Plan(v, U, lev)
    BY DEF Amid
  <2> QED
    BY <2>1, LastKid
<1>2. KidLevel(lev[id], Len(ptrs)) = Level(Len(ptrs))
  BY DEF KidLevel
<1> HIDE DEF at, ptrs
<1>7. at # 0 => Rooted(v, lev, {id} \cup {at})
  BY <1>1 DEF Rooted
<1>3. /\ \A x \in {id} : lev[x] # 0
      /\ \A x \in {id} : lev[x] \notin {0, 1}
      /\ \A x \in {id} : lev[x] \notin {0, 1, 2}
  OBVIOUS
<1>4. CASE Level(Len(ptrs)) = 0
  <2>1. wrt_ptr(m, Refs(v[id]), str, undef) = wrt_data(m, at, str)
    BY <1>4 DEF wrt_ptr, at, ptrs
  <2> QED
    BY <1>1, <1>2, <1>3, <1>4, <2>1, WrtData DEF at, ptrs
<1>5. CASE Level(Len(ptrs)) = 1
  <2>1. wrt_ptr(m, Refs(v[id]), str, undef) = wrt_idx_data(m, at, str, undef)
    BY <1>5 DEF wrt_ptr, at, ptrs
  <2> QED
    BY <1>1, <1>2, <1>3, <1>5, <1>7, <2>1, WrtIdxData DEF at, ptrs
<1>6. CASE Level(Len(ptrs)) = 2
  <2>1. wrt_ptr(m, Refs(v[id]), str, undef) = wrt_idx_idx(m, at, str, undef)
    BY <1>6 DEF wrt_ptr, at, ptrs
  <2> QED
    BY <1>1, <1>2, <1>3, <1>6, <1>7, <2>1, WrtIdxIdx DEF at, ptrs
<1> QED
  BY <1>4, <1>5, <1>6, Levels DEF ptrs

\* Nothing is left to be written back.
Settled(d, m) == \E v, U, lev : Amid(d, m, v, U, lev, {})

\* add_data and the write of the inode after it leave a sound file, whole or cut.
LEMMA AddData ==
  ASSUME NEW d, NEW m, NEW v, NEW U, NEW lev, Amid(d, m, v, U, lev, {}),
         NEW id \in U, lev[id] = 3, NEW str, IsSeq(str), NEW undef,
         NEW r, r = add_data(m, m.zone[id], str, undef)
  PROVE  Settled(d, write_zone(r.m, id, r.inode))
<1>1. id \in Id /\ Formed(v[id]) /\ Fits(v[id], lev[id]) /\ m.zone[id] = v[id]
  BY DEF Amid, Plan, Store
<1>2. Refs(v[id]) = m.zone[id].ptrs
  BY <1>1, PointersOf
<1>3. PICK loop : /\ IsLoop(loop, 3, m, m.zone[id].ptrs, str, undef)
                  /\ r = Ended(loop[Pointers + 1], m.zone[id])
  BY FileRounds
<1>4. ASSUME NEW s, NEW w, NEW U2, NEW lev2,
             Reached(d, s, id, v, U, lev, {}, w, U2, lev2), s.zones \in Seq(Id), IsSeq(s.str),
             Len(s.zones) <= Most(lev[id])
      PROVE  Wrote(d, Behind(lev[id], s, undef), w, U2, lev2, {} \cup {id}, LastOr0(s.zones))
  <2>1. {} \cup {id} = {id}
    OBVIOUS
  <2>2. /\ Amid(d, s.m, w, U2, lev2, {id}) /\ id \in U2 /\ lev2[id] = 3
        /\ w[id] = Copy(lev[id], s.zones)
    BY <1>4, <2>1 DEF Reached, Ext
  <2>3. Refs(w[id]) = s.zones
    BY <1>4, <2>2, CopyIs
  <2>4. PICK a, t : a = s.m /\ t = s.str
    OBVIOUS
  <2>5. Wrote(d, wrt_ptr(a, Refs(w[id]), t, undef), w, U2, lev2, {id}, LastOr0(Refs(w[id])))
    BY <1>4, <2>2, <2>3, <2>4, WrtPtr
  <2> QED
    BY <2>1, <2>3, <2>4, <2>5 DEF Behind
<1> DEFINE s == loop[Pointers + 1]
<1>5. Filling(d, s, id, v, U, lev, {}, Most(lev[id]) + 1)
  <2>1. Most(lev[id]) = Pointers
    BY DEF Most
  <2>2. PICK zones : zones = m.zone[id].ptrs
    OBVIOUS
  <2>3. /\ IsLoop(loop, lev[id], m, zones, str, undef) /\ id \in U \ {}
        /\ Refs(v[id]) = zones /\ lev[id] \in 1 .. 3
        /\ Rooted(v, lev, {} \cup {id})
    BY <1>2, <1>3, <2>2 DEF Rooted
  <2>4. Filling(d, loop[Most(lev[id]) + 1], id, v, U, lev, {}, Most(lev[id]) + 1)
    BY <1>4, <2>3, LoopFills
  <2> QED
    BY <2>1, <2>4
<1> HIDE DEF s
<1>6. PICK w, U2, lev2 : Reached(d, s, id, v, U, lev, {}, w, U2, lev2)
  BY <1>5 DEF Filling
<1>7. /\ Amid(d, s.m, w, U2, lev2, {id}) /\ id \in U2 /\ lev2[id] = 3
      /\ w[id] = Inode(s.zones, 1)
  <2>1. {} \cup {id} = {id}
    OBVIOUS
  <2> QED
    BY <1>6, <2>1 DEF Reached, Ext, Copy
<1>8. s.zones \in Seq(Id) /\ Len(s.zones) <= Pointers
  BY <1>5 DEF Filling, Most
<1>9. PICK a, n : /\ r.m = a /\ r.inode = Inode(s.zones, n)
                  /\ \/ a = s.m /\ n = update_size(s.m, s.zones)
                     \/ a = Short(s.m, "file")
  BY <1>3 DEF Ended, s
<1>10. Amid(d, a, w, U2, lev2, {id})
  BY <1>7, <1>9, CutFile
<1> DEFINE z == Inode(s.zones, n)
           x == [w EXCEPT ![id] = z]
<1>11. Formed(z) /\ Fits(z, lev2[id]) /\ Refs(z) = Refs(w[id])
  <2>1. z.type = "inode"
    BY DEF Inode
  <2> QED
    BY <1>7, <1>8, <2>1, RefsOf DEF Formed, Fits
<1> HIDE DEF z
<1>12. Amid(d, a, x, U2, lev2, {id})
  <2>1. {id} \cup {id} = {id}
    OBVIOUS
  <2>2. Rooted(w, lev2, {id} \cup {id})
    BY <1>7 DEF Rooted
  <2>3. Amid(d, a, x, U2, lev2, {id} \cup {id})
    BY <1>7, <1>10, <1>11, <2>2, Copied
  <2> QED
    BY <2>1, <2>3
<1>13. x[id] = z
  <2>1. w = [y \in Id |-> w[y]]
    BY <1>7 DEF Amid, Store
  <2>2. DOMAIN w = Id
    BY <2>1
  <2> QED
    BY <1>1, <2>2
<1> HIDE DEF x
<1>14. ASSUME a.short = {}
       PROVE  Sized(x, id)
  <2>1. IsMemory(s.m)
    BY <1>7 DEF Amid
  <2>2. a = s.m /\ n = update_size(a, s.zones)
    <3>1. PICK b : b = s.m
      OBVIOUS
    <3>2. Short(b, "file").short = b.short \cup {"file"}
      BY <2>1, <3>1, MemoryFields
    <3> QED
      BY <1>9, <1>14, <3>1, <3>2
  <2>3. /\ Store(x) /\ Plan(x, U2, lev2) /\ \A y \in Id \ {id} : x[y] = a.zone[y]
        /\ Tidy(a, x, U2, lev2, {id}) /\ U2 \subseteq Id
    BY <1>12 DEF Amid, Plan
  <2>4. Packed(x, id, 3)
    BY <1>7, <1>14, <2>3 DEF Tidy
  <2>5. HasIndex(a, x, U2, lev2)
    BY <1>7, <2>3 DEF HasIndex
  <2>6. Leads(x, id, s.zones)
    BY <1>8, <1>13, RefsOf DEF Leads, z
  <2>7. n = Cardinality(ZonesOfFile(x, id))
    BY <1>7, <2>2, <2>3, <2>4, <2>5, <2>6, FileSize
  <2>8. x[id].size = n
    BY <1>13 DEF z, Inode
  <2> QED
    BY <2>7, <2>8 DEF Sized
<1>15. {id} \ {id} = {}
  OBVIOUS
<1>16. Amid(d, write_zone(a, id, x[id]), x, U2, lev2, {})
  <2>1. Rooted(x, lev2, {id} \ {id})
    BY DEF Rooted
  <2>2. Amid(d, write_zone(a, id, x[id]), x, U2, lev2, {id} \ {id})
    BY <1>12, <1>14, <2>1, Land
  <2> QED
    BY <1>15, <2>2
<1> QED
  BY <1>9, <1>13, <1>16 DEF Settled, z

-----------------------------------------------------------------------------
(* What the commands do to memory.                                          *)

\* The root directory.
LEMMA RootIs ==
  ASSUME NEW v, NEW U, NEW lev, Store(v), Plan(v, U, lev)
  PROVE  /\ Root \in U /\ Root \in Id /\ lev[Root] = 4
         /\ v[Root] = Dentry(v[Root].subs) /\ v[Root].subs \in [File -> {0} \cup Id]
         /\ \A f, c : Pt(v[Root], f, c) <=> f \in File /\ c = v[Root].subs[f] /\ c # 0
         /\ \A f \in File : v[Root].subs[f] # 0
                              => v[Root].subs[f] \in U /\ lev[v[Root].subs[f]] = 3
<1>1. Root \in U /\ Root \in Id /\ lev[Root] = 4
  BY DEF Plan
<1>2. Formed(v[Root]) /\ v[Root].type = "dentry"
  BY <1>1 DEF Plan, Store, Fits
<1>3. v[Root] = Dentry(v[Root].subs) /\ v[Root].subs \in [File -> {0} \cup Id]
  BY <1>2, FormedIs
<1>4. Refs(v[Root]) = v[Root].subs
  BY <1>2 DEF Refs
<1>5. \A f, c : Pt(v[Root], f, c) <=> f \in File /\ c = v[Root].subs[f] /\ c # 0
  BY <1>3, <1>4 DEF Pt
<1>6. ASSUME NEW f \in File, v[Root].subs[f] # 0
      PROVE  v[Root].subs[f] \in U /\ lev[v[Root].subs[f]] = 3
  <2>1. Pt(v[Root], f, v[Root].subs[f])
    BY <1>5, <1>6
  <2>2. v[Root].subs[f] \in U /\ lev[v[Root].subs[f]] = KidLevel(lev[Root], f)
    BY <1>1, <2>1 DEF Plan
  <2> QED
    BY <1>1, <2>2 DEF KidLevel
<1> QED
  BY <1>1, <1>3, <1>5, <1>6

\* With nothing left to write back, v is what memory holds.
LEMMA SettledZone ==
  ASSUME NEW d, NEW m, NEW v, NEW U, NEW lev, Amid(d, m, v, U, lev, {})
  PROVE  v = m.zone
<1>1. \A x \in Id : v[x] = m.zone[x]
  BY DEF Amid
<1>2. v = [x \in Id |-> v[x]] /\ m.zone = [x \in Id |-> m.zone[x]]
  BY DEF Amid, Store, IsMemory
<1>3. [x \in Id |-> v[x]] = [x \in Id |-> m.zone[x]]
  BY <1>1
<1> QED
  BY <1>2, <1>3

\* append.
LEMMA AppendFile ==
  ASSUME NEW d, NEW m, Settled(d, m), NEW f \in File, NEW str, IsSeq(str), NEW undef
  PROVE  Settled(d, append(m, f, str, undef))
<1>1. PICK v, U, lev : Amid(d, m, v, U, lev, {})
  BY DEF Settled
<1>2. v = m.zone
  BY <1>1, SettledZone
<1>3. CASE Find(m, f) = 0
  <2>1. append(m, f, str, undef) = m
    BY <1>3 DEF append
  <2> QED
    BY <2>1
<1>4. CASE Find(m, f) # 0
  <2>1. PICK id : id = Find(m, f)
    OBVIOUS
  <2>2. id \in U /\ lev[id] = 3
    BY <1>1, <1>2, <1>4, <2>1, RootIs DEF Find, Amid
  <2>3. PICK r : r = add_data(m, m.zone[id], str, undef)
    OBVIOUS
  <2>4. Settled(d, write_zone(r.m, id, r.inode))
    BY <1>1, <2>2, <2>3, AddData
  <2>5. append(m, f, str, undef) = write_zone(r.m, id, r.inode)
    BY <1>4, <2>1, <2>3 DEF append
  <2> QED
    BY <2>4, <2>5
<1> QED
  BY <1>3, <1>4

\* mk_file.
LEMMA MkFile ==
  ASSUME NEW d, NEW m, Settled(d, m), NEW f \in File
  PROVE  Settled(d, mk_file(m, f))
<1>1. PICK v, U, lev : Amid(d, m, v, U, lev, {})
  BY DEF Settled
<1>2. v = m.zone
  BY <1>1, SettledZone
<1>3. CASE Find(m, f) # 0 \/ get_free_id(m) < Root
  <2>1. mk_file(m, f) = m
    BY <1>3 DEF mk_file
  <2> QED
    BY <2>1
<1>4. CASE Find(m, f) = 0 /\ ~(get_free_id(m) < Root)
  <2> DEFINE z == Inode(<<>>, 1)
             subs == m.zone[Root].subs
             c == Dentry([subs EXCEPT ![f] = get_free_id(m)])
  <2>1. PICK new \in Id : new = get_free_id(m) /\ m.st[new] = UNOCCUPIED /\ new # 0
    <3>1. get_free_id(m) >= Root
      BY <1>4, FreeIsInt DEF Root
    <3> QED
      BY <3>1, FreeZone, SizeAssumption DEF Id, Root
  <2>2. PICK n : n = write_zone(TakenAs(m, new, I_OCCUPIED), new, z)
    OBVIOUS
  <2>3. mk_file(m, f) = Linked(n, f, new)
    BY <1>4, <2>1, <2>2 DEF mk_file
  <2>4. /\ Root \in U /\ Root \in Id /\ lev[Root] = 4
        /\ v[Root] = Dentry(subs) /\ subs \in [File -> {0} \cup Id] /\ subs[f] = 0
        /\ \A g, x : Pt(v[Root], g, x) <=> g \in File /\ x = subs[g] /\ x # 0
    BY SMTT(30), <1>1, <1>2, <1>4, RootIs DEF Amid, Find
  <2> HIDE DEF subs
  <2>5. PICK more : more = [subs EXCEPT ![f] = new]
    OBVIOUS
  <2>6. more \in [File -> {0} \cup Id] /\ \A g \in File : more[g] = IF g = f THEN new ELSE subs[g]
    BY <2>1, <2>4, <2>5
  <2>7. c = Dentry(more)
    BY <2>1, <2>5
  <2> HIDE DEF c
  <2>8. Formed(c) /\ Fits(c, 4) /\ Refs(c) = more
    <3>1. c.type = "dentry"
      BY <2>7 DEF Dentry
    <3> QED
      BY <2>6, <2>7, <3>1, RefsOf DEF Formed, Fits
  <2>9. Formed(z) /\ Fits(z, 3) /\ Refs(z) = <<>>
    <3>1. z.type = "inode" /\ Refs(z) = <<>>
      BY RefsOf DEF Inode
    <3>2. PICK none \in Seq(Id) : none = <<>> /\ Len(none) <= Pointers
      <4>1. <<>> \in Seq(Id) /\ Len(<<>>) = 0
        OBVIOUS
      <4>2. Pointers \in Nat
        BY SizeAssumption
      <4>3. 0 <= Pointers
        BY <4>2
      <4> QED
        BY <4>1, <4>3
    <3>3. \E s \in Seq(Id) : \E k : Len(s) <= Pointers /\ z = Inode(s, k)
      BY <3>2
    <3>4. Formed(z)
      BY <3>3 DEF Formed
    <3> QED
      BY <3>1, <3>4 DEF Fits
  <2>10. Adds(v[Root], c, f, new)
    <3>1. \A x : ~Pt(v[Root], f, x)
      BY <2>4
    <3>2. \A g, x : Pt(c, g, x) <=> g \in File /\ x = more[g] /\ x # 0
      BY <2>6, <2>8 DEF Pt
    <3>3. \A g, x : Pt(c, g, x) <=> Pt(v[Root], g, x) \/ (g = f /\ x = new)
      BY <2>1, <2>4, <2>6, <3>2
    <3> QED
      BY <3>1, <3>3 DEF Adds
  <2>11. KidLevel(lev[Root], f) = 3
    BY <2>4 DEF KidLevel
  <2> HIDE DEF z
  <2>12. Grown(d, n, v, U, lev, {}, Root, c)
    <3>1. Fits(c, lev[Root]) /\ Fits(z, KidLevel(lev[Root], f)) /\ lev[Root] # 0
      BY <2>4, <2>8, <2>9, <2>11
    <3>2. lev[Root] = 4 /\ z.size = 1
      BY <2>4 DEF z, Inode
    <3>3. /\ I_OCCUPIED \in {F_OCCUPIED, I_OCCUPIED}
          /\ Root = Root \/ Root \in {}
          /\ Root = Root => z.size = 1
          /\ lev[Root] # 4 => f = Len(Refs(c)) /\ Len(Refs(v[Root])) < f
          /\ m.short = {} /\ lev[Root] \in {2, 3} =>
               \A i, x : Pt(v[Root], i, x) => Full(v, x, KidLevel(lev[Root], i))
      BY <3>2
    <3>4. Formed(c) /\ Formed(z) /\ Refs(z) = <<>> /\ Root \in U /\ m.st[new] = UNOCCUPIED
      BY <2>1, <2>4, <2>8, <2>9
    <3>5. Grown(d, write_zone(TakenAs(m, new, I_OCCUPIED), new, z), v, U, lev, {}, Root, c)
      BY <1>1, <2>10, <3>1, <3>3, <3>4, Grow
    <3> QED
      BY <2>2, <3>5
  <2>13. {} \cup {Root} = {Root} /\ {Root} \ {Root} = {}
    OBVIOUS
  <2>14. PICK w, U2, lev2 : Amid(d, n, w, U2, lev2, {Root}) /\ w[Root] = c
    BY <2>12, <2>13 DEF Grown
  <2>15. Amid(d, write_zone(n, Root, c), w, U2, lev2, {})
    <3>1. Rooted(w, lev2, {Root} \ {Root})
      BY DEF Rooted
    <3>2. lev2[Root] # 3 /\ Root \in {Root}
      BY <2>14 DEF Amid, Plan
    <3>3. Amid(d, write_zone(n, Root, w[Root]), w, U2, lev2, {Root} \ {Root})
      BY <2>14, <3>1, <3>2, Land
    <3> QED
      BY <2>13, <2>14, <3>3
  <2>16. n.zone[Root] = v[Root]
    <3>1. IsMemory(m) /\ Logged(d, m) /\ Root # new
      BY <1>1, <2>1, <2>4 DEF Amid, Tally
    <3>2. IsMemory(TakenAs(m, new, I_OCCUPIED)) /\ TakenAs(m, new, I_OCCUPIED).zone = m.zone
      <4>1. I_OCCUPIED \in UNOCCUPIED .. I_OCCUPIED
        BY DEF UNOCCUPIED, I_OCCUPIED
      <4> QED
        BY <2>1, <3>1, <4>1, TakenFields
    <3>3. n.zone = [m.zone EXCEPT ![new] = z]
      BY <2>2, <3>2, MemoryFields
    <3>4. m.zone = [x \in Id |-> m.zone[x]]
      BY <3>1 DEF IsMemory, Store
    <3>5. n.zone[Root] = m.zone[Root]
      BY <2>4, <3>1, <3>3, <3>4
    <3> QED
      BY <1>2, <3>5
  <2>17. n.zone[Root].subs = subs
    BY <2>4, <2>16 DEF Dentry
  <2>18. Linked(n, f, new) = write_zone(n, Root, c)
    BY <2>5, <2>7, <2>17 DEF Linked
  <2> QED
    BY <2>3, <2>15, <2>18 DEF Settled
<1> QED
  BY <1>3, <1>4

\* rm_file: with its pointer, all that hangs on it goes.
LEMMA RmFile ==
  ASSUME NEW d, NEW m, Settled(d, m), NEW f \in File
  PROVE  Settled(d, rm_file(m, f))
<1>1. PICK v, U, lev : Amid(d, m, v, U, lev, {})
  BY DEF Settled
<1>2. v = m.zone
  BY <1>1, SettledZone
<1>3. CASE Find(m, f) = 0
  <2>1. rm_file(m, f) = m
    BY <1>3 DEF rm_file
  <2> QED
    BY <2>1
<1>4. CASE Find(m, f) # 0
  <2>1. PICK id, subs : id = Find(m, f) /\ subs = v[Root].subs
    OBVIOUS
  <2> DEFINE Zs == ZonesOfFile(v, id)
             c == Dentry([subs EXCEPT ![f] = 0])
             n == set_free_id(m, Zs)
             k == write_zone(n, Root, c)
             U2 == U \ Zs
             lev2 == [x \in U2 |-> lev[x]]
             w == [v EXCEPT ![Root] = c]
  <2>2. rm_file(m, f) = Linked(n, f, 0)
    BY <1>2, <1>4, <2>1 DEF rm_file, rm_inode
  <2>3. /\ Root \in U /\ Root \in Id /\ lev[Root] = 4
        /\ v[Root] = Dentry(subs) /\ subs \in [File -> {0} \cup Id]
        /\ subs[f] = id /\ id # 0 /\ id \in U /\ lev[id] = 3
        /\ \A g, x : Pt(v[Root], g, x) <=> g \in File /\ x = subs[g] /\ x # 0
    BY SMTT(30), <1>1, <1>2, <1>4, <2>1, RootIs DEF Amid, Find
  <2>4. Store(v) /\ Plan(v, U, lev) /\ IsMemory(m) /\ Logged(d, m)
    BY <1>1 DEF Amid
  <2>5. Hanging(v, U, id, Zs) /\ Root \notin Zs
    BY <2>3, <2>4, FileZones
  <2> HIDE DEF Zs
  <2>6. U \subseteq Id /\ U2 \subseteq U /\ Root \in U2 /\ \A x \in U2 : x \in U /\ x \notin Zs
    BY <2>3, <2>4, <2>5 DEF Plan
  <2>7. /\ lev2 \in [U2 -> 0 .. 4] /\ \A x \in U2 : lev2[x] = lev[x]
        /\ \A x \in U2 : lev2[x] = 4 <=> x = Root
    BY <2>4, <2>6 DEF Plan
  <2> HIDE DEF U2, lev2
  <2>8. PICK less : less = [subs EXCEPT ![f] = 0]
    OBVIOUS
  <2>9. less \in [File -> {0} \cup Id] /\ \A g \in File : less[g] = IF g = f THEN 0 ELSE subs[g]
    BY <2>3, <2>8
  <2>10. c = Dentry(less)
    BY <2>8
  <2> HIDE DEF c
  <2>11. Formed(c) /\ Fits(c, 4) /\ Refs(c) = less
    <3>1. c.type = "dentry"
      BY <2>10 DEF Dentry
    <3> QED
      BY <2>9, <2>10, <3>1, RefsOf DEF Formed, Fits
  <2>12. \A g, x : Pt(c, g, x) <=> Pt(v[Root], g, x) /\ g # f
    <3>1. \A g, x : Pt(c, g, x) <=> g \in File /\ x = less[g] /\ x # 0
      BY <2>9, <2>11 DEF Pt
    <3> QED
      BY <2>3, <2>9, <3>1
  <2>13. Store(w) /\ \A x \in Id : w[x] = IF x = Root THEN c ELSE v[x]
    <3>1. Root \in Id /\ Store(v) /\ Formed(c)
      BY <2>3, <2>4, <2>11
    <3> QED
      BY <3>1, StoreWrite
  <2> HIDE DEF w
  <2>14. \A y \in U2 : \A i, x : Pt(w[y], i, x) <=> Pt(v[y], i, x) /\ ~(y = Root /\ i = f)
    <3>1. \A y \in U2 : w[y] = IF y = Root THEN c ELSE v[y]
      BY <2>6, <2>13
    <3> QED
      BY <2>12, <3>1
  <2>15. \A y, u \in U : \A i, j, x : Pt(v[y], i, x) /\ Pt(v[u], j, x) => y = u /\ i = j
    BY <2>4 DEF Plan
  <2>16. Pt(v[Root], f, id)
    BY <2>3
  <2>17. ASSUME NEW y \in U2, NEW i, NEW x, Pt(w[y], i, x)
         PROVE  x \in U2
    <3>1. Pt(v[y], i, x) /\ ~(y = Root /\ i = f) /\ y \in U /\ y \notin Zs
      BY <2>6, <2>14, <2>17
    <3>2. x \in U
      BY <2>4, <3>1 DEF Plan
    <3>3. CASE x = id
      <4>1. Pt(v[y], i, id) /\ Pt(v[Root], f, id)
        BY <2>16, <3>1, <3>3
      <4>2. y = Root /\ i = f
        BY <2>3, <2>15, <3>1, <4>1
      <4> QED
        BY <3>1, <4>2
    <3>4. CASE x \in Zs /\ x # id
      <4>1. PICK u \in Zs : \E j : Pt(v[u], j, x)
        BY <2>5, <3>4 DEF Hanging
      <4>2. u \in U
        BY <2>5, <4>1 DEF Hanging
      <4> QED
        BY <2>15, <3>1, <4>1, <4>2
    <3>5. CASE x \notin Zs
      BY <3>2, <3>5 DEF U2
    <3> QED
      BY <3>3, <3>4, <3>5
  <2>18. Plan(w, U2, lev2)
    <3>1. \A y \in U2 : Fits(w[y], lev2[y])
      <4>1. \A y \in U2 : w[y] = IF y = Root THEN c ELSE v[y]
        BY <2>6, <2>13
      <4>2. \A y \in U2 : Fits(v[y], lev2[y])
        BY <2>4, <2>6, <2>7 DEF Plan
      <4>3. Fits(c, lev2[Root])
        BY <2>3, <2>6, <2>7, <2>11
      <4> QED
        BY <4>1, <4>2, <4>3
    <3>2. \A y \in U2 : \A i, x : Pt(w[y], i, x) => x \in U2 /\ lev2[x] = KidLevel(lev2[y], i)
      <4> SUFFICES ASSUME NEW y \in U2, NEW i, NEW x, Pt(w[y], i, x)
                   PROVE  x \in U2 /\ lev2[x] = KidLevel(lev2[y], i)
        OBVIOUS
      <4>1. x \in U2 /\ Pt(v[y], i, x) /\ y \in U
        BY <2>6, <2>14, <2>17
      <4>2. lev[x] = KidLevel(lev[y], i)
        BY <2>4, <4>1 DEF Plan
      <4> QED
        BY <2>7, <4>1, <4>2
    <3>3. \A y, u \in U2 : \A i, j, x : Pt(w[y], i, x) /\ Pt(w[u], j, x) => y = u /\ i = j
      <4> SUFFICES ASSUME NEW y \in U2, NEW u \in U2, NEW i, NEW j, NEW x,
                          Pt(w[y], i, x), Pt(w[u], j, x)
                   PROVE  y = u /\ i = j
        OBVIOUS
      <4>1. y \in U /\ u \in U /\ Pt(v[y], i, x) /\ Pt(v[u], j, x)
        BY <2>6, <2>14
      <4> QED
        BY <2>15, <4>1
    <3> QED
      BY <2>6, <2>7, <3>1, <3>2, <3>3 DEF Plan
  <2>19. /\ n = [zone |-> m.zone, st |-> [i \in Id |-> IF i \in Zs THEN UNOCCUPIED ELSE m.st[i]],
                 short |-> m.short, writes |-> m.writes]
    BY <2>4, MemoryFields
  <2> HIDE DEF n
  <2>20. /\ n = [zone |-> n.zone, st |-> n.st, short |-> n.short, writes |-> n.writes]
         /\ n.zone = m.zone /\ n.short = m.short /\ n.writes = m.writes
         /\ n.st = [i \in Id |-> IF i \in Zs THEN UNOCCUPIED ELSE m.st[i]]
    BY <2>19
  <2>21. /\ n.st \in [Id -> UNOCCUPIED .. I_OCCUPIED]
         /\ \A x \in Id : n.st[x] = IF x \in Zs THEN UNOCCUPIED ELSE m.st[x]
    <3>1. m.st \in [Id -> UNOCCUPIED .. I_OCCUPIED] /\ UNOCCUPIED \in UNOCCUPIED .. I_OCCUPIED
      BY <2>4 DEF IsMemory, UNOCCUPIED, I_OCCUPIED
    <3> QED
      BY <2>20, <3>1
  <2>22. IsMemory(n)
    BY <2>4, <2>20, <2>21 DEF IsMemory
  <2>23. Logged(d, n)
    BY <2>4, <2>20, SameLog
  <2>24. [n.zone EXCEPT ![Root] = c] = w
    BY <1>2, <2>20 DEF w
  <2>25. /\ IsMemory(k) /\ Logged(d, k) /\ k.zone = w /\ k.st = n.st /\ k.short = n.short
    <3>1. w = [n.zone EXCEPT ![Root] = c] /\ Root \in Id /\ Formed(c)
      BY <2>3, <2>11, <2>24
    <3> HIDE DEF k
    <3>2. /\ IsMemory(write_zone(n, Root, c)) /\ Logged(d, write_zone(n, Root, c))
          /\ write_zone(n, Root, c).zone = w
          /\ write_zone(n, Root, c).st = n.st /\ write_zone(n, Root, c).short = n.short
      BY <2>18, <2>22, <2>23, <3>1, LogWrite
    <3> QED
      BY <3>2 DEF k
  <2> HIDE DEF k
  <2>26. Held(v, U) => Held(w, U2)
    <3> SUFFICES ASSUME Held(v, U), NEW x \in U2 \ {Root}
                 PROVE  \E y \in U2 : \E i : Pt(w[y], i, x)
      BY DEF Held
    <3>1. x \in U \ {Root} /\ x \notin Zs /\ x # id
      BY <2>5, <2>6 DEF Hanging
    <3>2. PICK y, i : y \in U /\ Pt(v[y], i, x)
      BY <3>1 DEF Held
    <3>3. y \notin Zs
      BY <2>5, <3>1, <3>2 DEF Hanging
    <3>4. y \in U2
      BY <3>2, <3>3 DEF U2
    <3>5. ~(y = Root /\ i = f)
      BY <2>3, <3>1, <3>2
    <3> QED
      BY <2>14, <3>2, <3>4, <3>5
  <2>27. Tally(k, w, U2)
    <3>1. /\ room \in Id
          /\ \A x \in U : x <= room /\ m.st[x] # UNOCCUPIED
          /\ \A x \in Id : x > room => m.st[x] # UNOCCUPIED
          /\ "index" \notin m.short =>
               Held(v, U) /\ \A x \in Id : x <= room /\ m.st[x] # UNOCCUPIED => x \in U
      BY <1>1 DEF Amid, Tally
    <3>2. \A x \in U2 : x <= room /\ k.st[x] # UNOCCUPIED
      BY <2>6, <2>21, <2>25, <3>1
    <3>3. \A x \in Id : x > room => k.st[x] # UNOCCUPIED
      <4> SUFFICES ASSUME NEW x \in Id, x > room
                   PROVE  k.st[x] # UNOCCUPIED
        OBVIOUS
      <4>1. x \notin Zs
        <5>1. Zs \subseteq U /\ x \in Int /\ room \in Int
          BY <2>5, <3>1, SizeAssumption DEF Hanging, Id, Root
        <5> QED
          BY <3>1, <5>1
      <4> QED
        BY <2>21, <2>25, <3>1, <4>1
    <3>4. ASSUME "index" \notin k.short
          PROVE  Held(w, U2) /\ \A x \in Id : x <= room /\ k.st[x] # UNOCCUPIED => x \in U2
      <4>1. Held(v, U) /\ \A x \in Id : x <= room /\ m.st[x] # UNOCCUPIED => x \in U
        BY <2>20, <2>25, <3>1, <3>4
      <4>2. \A x \in Id : x <= room /\ k.st[x] # UNOCCUPIED => x \in U /\ x \notin Zs
        BY <2>21, <2>25, <4>1
      <4> QED
        BY <2>26, <4>1, <4>2 DEF U2
    <3> QED
      BY <3>1, <3>2, <3>3, <3>4 DEF Tally
  <2>28. Within(k.zone, w, U2, lev2)
    BY <2>18, <2>25 DEF Within, Plan
  <2>29. Tidy(k, w, U2, lev2, {})
    <3> SUFFICES ASSUME k.short = {}
                 PROVE  /\ \A x \in U2 : lev2[x] \in {2, 3} => Packed(w, x, lev2[x])
                        /\ \A x \in U2 : lev2[x] = 3 => Sized(w, x)
      BY DEF Tidy
    <3>1. Tidy(m, v, U, lev, {}) /\ m.short = {}
      BY <1>1, <2>20, <2>25 DEF Amid
    <3>2. /\ \A x \in U : lev[x] \in {2, 3} => Packed(v, x, lev[x])
          /\ \A x \in U : lev[x] = 3 => Sized(v, x)
      BY <3>1 DEF Tidy
    <3>3. \A x \in U : lev[x] # 4 => w[x] = v[x]
      BY <2>3, <2>4, <2>6, <2>13
    <3>4. \A x \in U : lev[x] \in {1, 2} => Refs(w[x]) = Refs(v[x])
      BY <3>3
    <3>5. ASSUME NEW x \in U2, lev2[x] \in {2, 3}
          PROVE  Packed(w, x, lev2[x])
      <4>1. x \in U /\ lev[x] = lev2[x] /\ Refs(w[x]) = Refs(v[x])
        BY <2>6, <2>7, <3>3, <3>5
      <4>2. Packed(v, x, lev[x])
        BY <3>2, <3>5, <4>1
      <4>3. Packed(w, x, lev[x])
        BY <2>4, <3>4, <3>5, <4>1, <4>2, PackedKept
      <4> QED
        BY <4>1, <4>3
    <3>6. ASSUME NEW x \in U2, lev2[x] = 3
          PROVE  Sized(w, x)
      <4>1. x \in U /\ lev[x] = 3 /\ w[x] = v[x] /\ Sized(v, x)
        BY <2>6, <2>7, <3>2, <3>3, <3>6
      <4>2. Hanging(v, U, x, ZonesOfFile(v, x)) /\ Root \notin ZonesOfFile(v, x)
        BY <2>4, <4>1, FileZones
      <4>3. \A y \in ZonesOfFile(v, x) : w[y] = v[y]
        BY <2>4, <2>6, <2>13, <4>2 DEF Hanging
      <4>4. \A y \in ZonesOfFile(v, x) : \A e : Below(w, y, e) <=> Below(v, y, e)
        BY <4>3 DEF Below
      <4>5. ZonesOfFile(w, x) = ZonesOfFile(v, x)
        BY <2>4, <2>13, <2>18, <3>6, <4>1, <4>4, SameFile
      <4> QED
        BY <4>1, <4>5 DEF Sized
    <3> QED
      BY <3>5, <3>6
  <2>30. Amid(d, k, w, U2, lev2, {})
    <3>1. Rooted(w, lev2, {})
      BY DEF Rooted
    <3> QED
      BY <2>13, <2>18, <2>25, <2>27, <2>28, <2>29, <3>1 DEF Amid
  <2>31. Linked(n, f, 0) = k
    BY <1>2, <2>1, <2>20 DEF Linked, k, c
  <2> QED
    BY <2>2, <2>30, <2>31 DEF Settled
<1> QED
  BY <1>3, <1>4

\* The command write is rm, touch and append.
LEMMA WriteFile ==
  ASSUME NEW d, NEW m, Settled(d, m), NEW f \in File, NEW str, IsSeq(str), NEW undef
  PROVE  Settled(d, wrt(m, f, str, undef))
<1>1. Settled(d, rm_file(m, f))
  BY RmFile
<1>2. Settled(d, mk_file(rm_file(m, f), f))
  BY <1>1, MkFile
<1> QED
  BY <1>2, AppendFile DEF wrt

-----------------------------------------------------------------------------
(* The inductive invariant, and what it says.                               *)

\* The disk has a plan, and so has every disk the writes to come lead to; in
\* the end nothing is left to be written back.
IInv ==
  /\ up \in {"on", "dead"} /\ room \in Room /\ short \subseteq {"file", "index"}
  /\ map \in [Id -> UNOCCUPIED .. I_OCCUPIED]
  /\ Safe(disk)
  /\ up = "on" => \E m : m.st = map /\ m.short = short /\ m.writes = todo /\ Settled(disk, m)

\* Settled speaks of one variable only.
LEMMA SettledLater ==
  ASSUME NEW d, NEW m, Settled(d, m), room' = room
  PROVE  Settled(d, m)'
BY DEF Settled, Amid, Tally

\* Between commands memory is as on disk.
LEMMA AtRest ==
  ASSUME IInv, Idle
  PROVE  Settled(disk, Memory)
<1>1. PICK m : m.st = map /\ m.short = short /\ m.writes = <<>> /\ Settled(disk, m)
  BY DEF IInv, Idle
<1>2. IsMemory(m) /\ Logged(disk, m)
  BY <1>1 DEF Settled, Amid
<1>3. m.zone = disk
  BY <1>1, <1>2 DEF Logged
<1>4. m = Memory
  BY <1>1, <1>2, <1>3 DEF IsMemory, Memory
<1> QED
  BY <1>1, <1>4

\* A command has computed the memory n.
LEMMA RunStep ==
  ASSUME IInv, NEW n, Settled(disk, n), up = "on",
         map' = n.st, short' = n.short, todo' = n.writes, UNCHANGED <<up, disk, room>>
  PROVE  IInv'
<1>1. n.st \in [Id -> UNOCCUPIED .. I_OCCUPIED] /\ n.short \subseteq {"file", "index"}
  BY DEF Settled, Amid, IsMemory
<1>2. Settled(disk, n)'
  BY SettledLater
<1>3. Safe(disk)'
  BY DEF IInv
<1> QED
  BY <1>1, <1>2, <1>3 DEF IInv

\* A write of a command is made.
LEMMA PutStep ==
  ASSUME IInv, Put
  PROVE  IInv'
<1>1. PICK m : m.st = map /\ m.short = short /\ m.writes = todo /\ Settled(disk, m)
  BY DEF IInv, Put
<1>2. PICK v, U, lev : Amid(disk, m, v, U, lev, {})
  BY <1>1 DEF Settled
<1>3. IsMemory(m) /\ IsSeq(todo) /\ todo # <<>>
  BY <1>1, <1>2 DEF Amid, IsMemory, Put
<1>4. PICK S : todo \in Seq(S)
  BY <1>3 DEF IsSeq
<1>5. /\ Tail(todo) \in Seq(S) /\ Len(todo) \in Nat /\ Len(todo) >= 1
      /\ Len(Tail(todo)) = Len(todo) - 1 /\ Head(todo) = todo[1]
      /\ \A k \in 1 .. Len(todo) - 1 : Tail(todo)[k] = todo[k + 1]
  BY <1>3, <1>4
<1>6. PICK h : /\ h[0] = disk /\ h[Len(todo)] = m.zone
               /\ \A k \in 0 .. Len(todo) : Safe(h[k])
               /\ \A k \in 1 .. Len(todo) : h[k] = [h[k - 1] EXCEPT ![todo[k][1]] = todo[k][2]]
  BY <1>1, <1>2 DEF Amid, Logged
<1>7. h[1] = disk'
  <2>1. 1 \in 1 .. Len(todo) /\ 1 - 1 = 0
    BY <1>5
  <2>2. h[1] = [h[1 - 1] EXCEPT ![todo[1][1]] = todo[1][2]]
    BY <1>6, <2>1
  <2>3. h[1] = [disk EXCEPT ![todo[1][1]] = todo[1][2]]
    BY <1>6, <2>1, <2>2
  <2>4. disk' = [disk EXCEPT ![Head(todo)[1]] = Head(todo)[2]]
    BY DEF Put
  <2>5. Head(todo) = todo[1]
    BY <1>5
  <2> QED
    BY <2>3, <2>4, <2>5
<1>8. Safe(disk)'
  <2>1. Safe(h[1])
    BY <1>5, <1>6
  <2> QED
    BY <1>7, <2>1 DEF Safe
<1>9. PICK n : n = [zone |-> m.zone, st |-> m.st, short |-> m.short, writes |-> Tail(todo)]
  OBVIOUS
<1>10. /\ n = [zone |-> n.zone, st |-> n.st, short |-> n.short, writes |-> n.writes]
       /\ n.zone = m.zone /\ n.st = m.st /\ n.short = m.short /\ n.writes = Tail(todo)
  BY <1>9
<1>11. IsMemory(n)
  <2>1. IsSeq(Tail(todo))
    BY <1>5 DEF IsSeq
  <2> QED
    BY <1>3, <1>10, <2>1 DEF IsMemory
<1>12. Logged(disk', n)
  <2> DEFINE g == [k \in 0 .. Len(todo) - 1 |-> h[k + 1]]
  <2>1. \A k \in 0 .. Len(todo) - 1 : g[k] = h[k + 1]
    OBVIOUS
  <2> HIDE DEF g
  <2>2. Len(n.writes) = Len(todo) - 1
    BY <1>5, <1>10
  <2>3. g[0] = disk' /\ g[Len(todo) - 1] = m.zone
    BY <1>5, <1>6, <1>7, <2>1
  <2>4. \A k \in 0 .. Len(todo) - 1 : Safe(g[k])
    BY <1>5, <1>6, <2>1
  <2>5. ASSUME NEW k \in 1 .. Len(todo) - 1
        PROVE  g[k] = [g[k - 1] EXCEPT ![n.writes[k][1]] = n.writes[k][2]]
    <3>1. g[k] = h[k + 1] /\ g[k - 1] = h[k] /\ n.writes[k] = todo[k + 1]
      BY <1>5, <1>10, <2>1
    <3>2. k + 1 \in 1 .. Len(todo) /\ (k + 1) - 1 = k
      BY <1>5
    <3>3. h[k + 1] = [h[(k + 1) - 1] EXCEPT ![todo[k + 1][1]] = todo[k + 1][2]]
      BY <1>6, <3>2
    <3> QED
      BY <3>1, <3>2, <3>3
  <2>6. g[Len(n.writes)] = n.zone /\ \A k \in 0 .. Len(n.writes) : Safe(g[k])
    BY <1>10, <2>2, <2>3, <2>4
  <2>7. \A k \in 1 .. Len(n.writes) :
          g[k] = [g[k - 1] EXCEPT ![n.writes[k][1]] = n.writes[k][2]]
    BY <2>2, <2>5
  <2> QED
    BY <2>3, <2>6, <2>7 DEF Logged
<1>13. PICK e : e = disk'
  OBVIOUS
<1>14. Amid(e, n, v, U, lev, {})
  <2>1. Logged(e, n)
    BY <1>12, <1>13
  <2> QED
    BY <1>2, <1>10, <1>11, <2>1 DEF Amid, Tally, Tidy
<1>15. Settled(e, n)
  BY <1>14 DEF Settled
<1>16. Settled(e, n)'
  BY <1>15, SettledLater DEF Put
<1>17. n.st = map' /\ n.short = short' /\ n.writes = todo'
  BY <1>1, <1>10 DEF Put
<1> QED
  <2>1. Settled(disk, n)'
    BY <1>13, <1>16
  <2> QED
    BY <1>8, <1>17, <2>1 DEF IInv, Put

\* The text of a command is a sequence.
LEMMA CharsSeq ==
  ASSUME NEW f, NEW from, NEW n \in Lengths
  PROVE  IsSeq(Chars(f, from, n))
<1>1. n \in Nat
  BY SizeAssumption
<1>2. Chars(f, from, n) \in Seq({<<f, from + j>> : j \in 1 .. n})
  BY <1>1 DEF Chars
<1> QED
  BY <1>2 DEF IsSeq

\* The empty disk with its directory is sound.
LEMMA InitInv ==
  ASSUME Init
  PROVE  IInv
<1> DEFINE U == {Root}
           lev == [z \in U |-> 4]
<1>1. Root \in Id /\ room \in Id
  BY SizeAssumption DEF Init, Id, Root
<1>2. PICK none \in [File -> {0} \cup Id] : none = [f \in File |-> 0]
  OBVIOUS
<1>3. Formed(Blank) /\ Formed(Dentry(none)) /\ Refs(Dentry(none)) = none
  BY RefsOf DEF Formed
<1>4. disk[Root] = Dentry(none) /\ Dentry(none).type = "dentry"
  BY <1>1, <1>2 DEF Init, Dentry
<1>5. Store(disk)
  <2>1. disk = [id \in Id |-> disk[id]]
    BY DEF Init
  <2>2. \A id \in Id : Formed(disk[id])
    BY <1>2, <1>3 DEF Init
  <2> QED
    BY <2>1, <2>2 DEF Store
<1>6. \A i, c : ~Pt(disk[Root], i, c)
  BY <1>2, <1>3, <1>4 DEF Pt
<1>7. Plan(disk, U, lev)
  <2>1. lev \in [U -> 0 .. 4] /\ \A z \in U : lev[z] = 4
    OBVIOUS
  <2>2. Fits(disk[Root], 4)
    BY <1>4 DEF Fits
  <2> HIDE DEF lev
  <2> QED
    BY <1>1, <1>6, <2>1, <2>2 DEF Plan
<1>8. Safe(disk)
  BY <1>5, <1>7 DEF Safe
<1>9. /\ Memory = [zone |-> Memory.zone, st |-> Memory.st, short |-> Memory.short,
                   writes |-> Memory.writes]
      /\ Memory.zone = disk /\ Memory.st = map /\ Memory.short = {} /\ Memory.writes = <<>>
  BY DEF Memory, Init
<1>10. map \in [Id -> UNOCCUPIED .. I_OCCUPIED]
  BY DEF Init, UNOCCUPIED, D_OCCUPIED, F_OCCUPIED, I_OCCUPIED
<1>11. IsMemory(Memory)
  <2>1. IsSeq(<<>>)
    BY DEF IsSeq
  <2> QED
    BY <1>5, <1>9, <1>10, <2>1 DEF IsMemory
<1>12. Logged(disk, Memory)
  <2> DEFINE h == [k \in 0 .. 0 |-> disk]
  <2>1. Len(Memory.writes) = 0
    BY <1>9
  <2>2. h[0] = disk /\ \A k \in 0 .. 0 : h[k] = disk
    OBVIOUS
  <2> HIDE DEF h
  <2> QED
    BY <1>8, <1>9, <2>1, <2>2 DEF Logged
<1>13. Within(Memory.zone, disk, U, lev)
  BY <1>7, <1>9 DEF Within, Plan
<1>14. Held(disk, U)
  BY DEF Held
<1>15. Tally(Memory, disk, U)
  <2>1. Root <= room
    BY <1>1, SizeAssumption DEF Id, Root
  <2>2. map[Root] # UNOCCUPIED
    BY <1>1 DEF Init, UNOCCUPIED, D_OCCUPIED
  <2>3. \A z \in Id : z > room => map[z] # UNOCCUPIED
    BY DEF Init, UNOCCUPIED, D_OCCUPIED, F_OCCUPIED
  <2>4. \A z \in Id : z <= room /\ map[z] # UNOCCUPIED => z \in U
    <3>1. \A z \in Id : z \in Int /\ room \in Int
      BY <1>1, SizeAssumption DEF Id, Root
    <3> QED
      BY <3>1 DEF Init
  <2> QED
    BY <1>1, <1>9, <1>14, <2>1, <2>2, <2>3, <2>4 DEF Tally
<1>16. Amid(disk, Memory, disk, U, lev, {})
  <2>1. \A z \in U : lev[z] \notin {2, 3}
    OBVIOUS
  <2> HIDE DEF lev
  <2>2. Tidy(Memory, disk, U, lev, {})
    BY <2>1 DEF Tidy
  <2>3. Rooted(disk, lev, {})
    BY DEF Rooted
  <2> QED
    BY <1>5, <1>7, <1>9, <1>11, <1>12, <1>13, <1>15, <2>2, <2>3 DEF Amid
<1>17. Settled(disk, Memory)
  BY <1>16 DEF Settled
<1> QED
  BY <1>8, <1>9, <1>10, <1>17 DEF IInv, Init

\* Every command, every write and the death of the server keep the invariant.
LEMMA NextInv ==
  ASSUME IInv, [Next]_vars
  PROVE  IInv'
<1>1. ASSUME NEW f \in File, touch(f)
      PROVE  IInv'
  <2>1. PICK n : n = mk_file(Memory, f)
    OBVIOUS
  <2>2. Settled(disk, n)
    BY <1>1, <2>1, AtRest, MkFile DEF touch
  <2> QED
    BY <1>1, <2>1, <2>2, RunStep DEF touch, Run, Idle
<1>2. ASSUME NEW f \in File, rm(f)
      PROVE  IInv'
  <2>1. PICK n : n = rm_file(Memory, f)
    OBVIOUS
  <2>2. Settled(disk, n)
    BY <1>2, <2>1, AtRest, RmFile DEF rm
  <2> QED
    BY <1>2, <2>1, <2>2, RunStep DEF rm, Run, Idle
<1>3. ASSUME NEW f \in File, Append_(f)
      PROVE  IInv'
  <2>1. PICK n, undef, t :
          /\ n \in Lengths /\ undef \in BOOLEAN
          /\ t = Text(f)
          /\ Run("append", f, t \o Chars(f, Len(t), n),
                 append(Memory, f, Chars(f, Len(t), n), undef))
    BY <1>3 DEF Append_
  <2>2. PICK str : str = Chars(f, Len(t), n)
    OBVIOUS
  <2>3. IsSeq(str)
    BY <2>1, <2>2, CharsSeq
  <2>4. PICK r : r = append(Memory, f, str, undef)
    OBVIOUS
  <2>5. Settled(disk, r)
    BY <1>3, <2>3, <2>4, AtRest, AppendFile DEF Append_
  <2> QED
    BY <1>3, <2>1, <2>2, <2>4, <2>5, RunStep DEF Append_, Run, Idle
<1>4. ASSUME NEW f \in File, write(f)
      PROVE  IInv'
  <2>1. PICK n \in Lengths, undef \in BOOLEAN :
          Run("write", f, Chars(f, 0, n), wrt(Memory, f, Chars(f, 0, n), undef))
    BY <1>4 DEF write
  <2>2. PICK str : str = Chars(f, 0, n)
    OBVIOUS
  <2>3. IsSeq(str)
    BY <2>2, CharsSeq
  <2>4. PICK r : r = wrt(Memory, f, str, undef)
    OBVIOUS
  <2>5. Settled(disk, r)
    BY <1>4, <2>3, <2>4, AtRest, WriteFile DEF write
  <2> QED
    BY <1>4, <2>1, <2>2, <2>4, <2>5, RunStep DEF write, Run, Idle
<1>5. ASSUME Reply
      PROVE  IInv'
  <2>1. PICK m : m.st = map /\ m.short = short /\ m.writes = todo /\ Settled(disk, m)
    BY <1>5 DEF IInv, Reply
  <2> QED
    BY <1>5, <2>1, RunStep DEF Reply
<1>6. ASSUME Crash
      PROVE  IInv'
  BY <1>6 DEF Crash, IInv, Safe
<1>7. ASSUME UNCHANGED vars
      PROVE  IInv'
  <2>1. CASE up = "on"
    <3>1. PICK m : m.st = map /\ m.short = short /\ m.writes = todo /\ Settled(disk, m)
      BY <2>1 DEF IInv
    <3> QED
      BY <1>7, <2>1, <3>1, RunStep DEF vars
  <2>2. CASE up # "on"
    BY <1>7, <2>2 DEF IInv, vars, Safe
  <2> QED
    BY <2>1, <2>2
<1> QED
  BY <1>1, <1>2, <1>3, <1>4, <1>5, <1>6, <1>7, PutStep DEF Next

\* The zones in use: all are in any plan, and if each zone of it is held they
\* are the plan.
LEMMA InUse ==
  ASSUME NEW U, NEW lev, Store(disk), Plan(disk, U, lev)
  PROVE  ZonesInUse \subseteq U /\ (Held(disk, U) => U = ZonesInUse)
<1> DEFINE subs == disk[Root].subs
           Of(f) == ZonesOfFile(disk, subs[f])
<1>1. /\ Root \in U /\ Root \in Id /\ lev[Root] = 4
      /\ \A f, c : Pt(disk[Root], f, c) <=> f \in File /\ c = subs[f] /\ c # 0
      /\ \A f \in File : subs[f] # 0 => subs[f] \in U /\ lev[subs[f]] = 3
  BY RootIs
<1>2. \A f \in File : Find(Memory, f) = subs[f]
  BY DEF Find, Memory
<1>3. \A f \in File : subs[f] # 0 => Hanging(disk, U, subs[f], Of(f))
  <2> SUFFICES ASSUME NEW f \in File, subs[f] # 0
               PROVE  Hanging(disk, U, subs[f], Of(f))
    OBVIOUS
  <2>1. PICK id \in U : id = subs[f] /\ lev[id] = 3
    BY <1>1
  <2> QED
    BY <2>1, FileZones
<1>4. \A c : c \in ZonesInUse <=> c = Root \/ \E f \in File : subs[f] # 0 /\ c \in Of(f)
  BY <1>2 DEF ZonesInUse, Files, Exists
<1> HIDE DEF subs, Of
<1>5. ZonesInUse \subseteq U
  BY <1>1, <1>3, <1>4 DEF Hanging
<1>6. ASSUME Held(disk, U)
      PROVE  U \subseteq ZonesInUse
  <2>1. \A y \in U : \A i, c : Pt(disk[y], i, c) => c \in U /\ lev[c] = KidLevel(lev[y], i)
    BY DEF Plan
  <2>2. \A y \in U : lev[y] \in 0 .. 4 /\ (lev[y] = 4 <=> y = Root)
    BY DEF Plan
  <2>3. ASSUME NEW c \in U \ {Root}
        PROVE  \E y \in U : \E i : Pt(disk[y], i, c) /\ lev[y] > lev[c]
    <3>1. PICK y \in U : \E i : Pt(disk[y], i, c)
      BY <1>6 DEF Held
    <3>2. PICK i : Pt(disk[y], i, c)
      BY <3>1
    <3>3. lev[c] = KidLevel(lev[y], i) /\ Formed(disk[y]) /\ Fits(disk[y], lev[y])
      BY <2>1, <3>2 DEF Plan, Store
    <3>4. lev[y] # 0
      <4>1. lev[y] = 0 => lev[y] \in 0 .. 2
        OBVIOUS
      <4>2. lev[y] = 0 => ~Pt(disk[y], i, c)
        BY <4>1, Kids
      <4> QED
        BY <3>2, <4>2
    <3>5. lev[y] \in 1 .. 4
      BY <2>2, <3>4
    <3>6. KidLevel(lev[y], i) < lev[y]
      BY <3>5, Levels
    <3> QED
      BY <2>2, <3>2, <3>3, <3>6
  <2>4. ASSUME NEW c \in U \ {Root}, NEW y \in ZonesInUse, NEW i, Pt(disk[y], i, c)
        PROVE  c \in ZonesInUse
    <3>1. CASE y = Root
      <4>1. i \in File /\ c = subs[i] /\ subs[i] # 0
        BY <1>1, <2>4, <3>1
      <4>2. c \in Of(i)
        BY <1>3, <4>1 DEF Hanging
      <4> QED
        BY <1>4, <4>1, <4>2
    <3>2. CASE y # Root
      <4>1. PICK f \in File : subs[f] # 0 /\ y \in Of(f)
        BY <1>4, <3>2
      <4>2. c \in Of(f)
        BY <1>3, <2>4, <4>1 DEF Hanging
      <4> QED
        BY <1>4, <4>1, <4>2
    <3> QED
      BY <3>1, <3>2
  <2>5. \A c \in U : lev[c] = 4 => c \in ZonesInUse
    BY <1>4, <2>2
  <2>6. \A c \in U : lev[c] = 3 => c \in ZonesInUse
    <3> SUFFICES ASSUME NEW c \in U, lev[c] = 3
                 PROVE  c \in ZonesInUse
      OBVIOUS
    <3>1. PICK y, i : y \in U /\ Pt(disk[y], i, c) /\ lev[y] > lev[c]
      BY <2>2, <2>3
    <3>2. lev[y] = 4
      BY <2>2, <3>1
    <3> QED
      BY <2>2, <2>4, <2>5, <3>1, <3>2
  <2>7. \A c \in U : lev[c] = 2 => c \in ZonesInUse
    <3> SUFFICES ASSUME NEW c \in U, lev[c] = 2
                 PROVE  c \in ZonesInUse
      OBVIOUS
    <3>1. PICK y, i : y \in U /\ Pt(disk[y], i, c) /\ lev[y] > lev[c]
      BY <2>2, <2>3
    <3>2. lev[y] \in {3, 4}
      BY <2>2, <3>1
    <3> QED
      BY <2>2, <2>4, <2>5, <2>6, <3>1, <3>2
  <2>8. \A c \in U : lev[c] = 1 => c \in ZonesInUse
    <3> SUFFICES ASSUME NEW c \in U, lev[c] = 1
                 PROVE  c \in ZonesInUse
      OBVIOUS
    <3>1. PICK y, i : y \in U /\ Pt(disk[y], i, c) /\ lev[y] > lev[c]
      BY <2>2, <2>3
    <3>2. lev[y] \in {2, 3, 4}
      BY <2>2, <3>1
    <3> QED
      BY <2>2, <2>4, <2>5, <2>6, <2>7, <3>1, <3>2
  <2>9. \A c \in U : lev[c] = 0 => c \in ZonesInUse
    <3> SUFFICES ASSUME NEW c \in U, lev[c] = 0
                 PROVE  c \in ZonesInUse
      OBVIOUS
    <3>1. PICK y, i : y \in U /\ Pt(disk[y], i, c) /\ lev[y] > lev[c]
      BY <2>2, <2>3
    <3>2. lev[y] \in {1, 2, 3, 4}
      BY <2>2, <3>1
    <3> QED
      BY <2>2, <2>4, <2>5, <2>6, <2>7, <2>8, <3>1, <3>2
  <2> QED
    BY <2>2, <2>5, <2>6, <2>7, <2>8, <2>9
<1> QED
  BY <1>5, <1>6

\* A sound disk has zones of the right form.
LEMMA InvTypes ==
  ASSUME IInv
  PROVE  TypeOK
<1>1. Store(disk)
  BY DEF IInv, Safe
<1>2. ASSUME NEW id \in Id
      PROVE  IsZone(disk[id])
  <2>1. Formed(disk[id])
    BY <1>1 DEF Store
  <2>2. PICK z : z = disk[id]
    OBVIOUS
  <2>3. \A s \in Seq(Id) : Range(s) \subseteq Id
    BY DEF Range
  <2>4. \A s \in [File -> {0} \cup Id] : Range(s) \subseteq {0} \cup Id
    BY DEF Range
  <2>5. IsZone(z)
    BY <2>1, <2>2, <2>3, <2>4, FormedIs DEF IsZone
  <2> QED
    BY <2>2, <2>5
<1> QED
  BY <1>2 DEF TypeOK, IInv

\* In a forest no zone has two pointers to it.
LEMMA InvApart ==
  ASSUME IInv
  PROVE  NothingShared
<1>1. PICK U, lev : Store(disk) /\ Plan(disk, U, lev)
  BY DEF IInv, Safe
<1>2. ZonesInUse \subseteq U
  BY <1>1, InUse
<1> DEFINE From(z) == {i \in DOMAIN Refs(disk[z]) : Refs(disk[z])[i] # 0}
           To(p) == Refs(disk[p[1]])[p[2]]
           Pointer == UNION {{<<z, i>> : i \in From(z)} : z \in ZonesInUse}
<1>3. ASSUME NEW p \in Pointer
      PROVE  p = <<p[1], p[2]>> /\ p[1] \in U /\ Pt(disk[p[1]], p[2], To(p))
  <2>1. PICK z \in ZonesInUse : p \in {<<z, i>> : i \in From(z)}
    BY <1>3
  <2>2. PICK i \in From(z) : p = <<z, i>>
    BY <2>1
  <2>3. p[1] = z /\ p[2] = i
    BY <2>2
  <2> QED
    BY <1>2, <2>2, <2>3 DEF Pt
<1> HIDE DEF Pointer, To
<1>4. ASSUME NEW p \in Pointer
      PROVE  To(p) # Root
  <2>1. p[1] \in U /\ Pt(disk[p[1]], p[2], To(p))
    BY <1>3, <1>4
  <2>2. PICK y, i, c : y \in U /\ y = p[1] /\ i = p[2] /\ c = To(p) /\ Pt(disk[y], i, c)
    BY <2>1
  <2>3. lev[y] \in 0 .. 4 /\ Formed(disk[y]) /\ Fits(disk[y], lev[y]) /\ lev[Root] = 4
    BY <1>1, <2>2 DEF Plan, Store
  <2>4. lev[y] # 0
    BY <1>1, <2>2, <2>3, Kids
  <2>5. lev[c] = KidLevel(lev[y], i)
    BY <1>1, <2>2 DEF Plan
  <2>6. lev[c] \in 0 .. 3
    <3>1. lev[y] \in 1 .. 4
      BY <2>3, <2>4
    <3> QED
      BY <2>5, <3>1, Levels
  <2> QED
    BY <2>2, <2>3, <2>6
<1>5. ASSUME NEW p \in Pointer, NEW q \in Pointer, To(p) = To(q)
      PROVE  p = q
  <2>1. /\ p = <<p[1], p[2]>> /\ p[1] \in U /\ Pt(disk[p[1]], p[2], To(p))
        /\ q = <<q[1], q[2]>> /\ q[1] \in U /\ Pt(disk[q[1]], q[2], To(p))
    BY <1>3, <1>5
  <2>2. \A y, u \in U : \A i, j, x : Pt(disk[y], i, x) /\ Pt(disk[u], j, x) => y = u /\ i = j
    BY <1>1 DEF Plan
  <2>3. p[1] = q[1] /\ p[2] = q[2]
    BY <2>1, <2>2
  <2> QED
    BY <2>1, <2>3
<1>6. \A p, q \in Pointer : To(p) # Root /\ (To(p) = To(q) => p = q)
  BY <1>4, <1>5
<1> QED
  BY <1>6 DEF NothingShared, Pointer, To

\* With nothing left to write the plan holds just the zones in use.
LEMMA InvUsage ==
  ASSUME IInv
  PROVE  UsageExact
<1> SUFFICES ASSUME Idle
             PROVE  /\ ZonesInUse \subseteq Occupied
                    /\ "index" \notin short => Occupied = ZonesInUse
  BY DEF UsageExact
<1>1. PICK v, U, lev : Amid(disk, Memory, v, U, lev, {})
  BY AtRest DEF Settled
<1>2. v = disk
  BY <1>1, SettledZone DEF Memory
<1>3. Store(disk) /\ Plan(disk, U, lev) /\ Tally(Memory, disk, U)
  BY <1>1, <1>2 DEF Amid
<1>4. ZonesInUse \subseteq U /\ (Held(disk, U) => U = ZonesInUse)
  BY <1>3, InUse
<1>5. /\ room \in Id /\ \A z \in U : z <= room /\ map[z] # UNOCCUPIED
      /\ "index" \notin short =>
           Held(disk, U) /\ \A z \in Id : z <= room /\ map[z] # UNOCCUPIED => z \in U
  BY <1>3 DEF Tally, Memory
<1>6. U \subseteq Id
  BY <1>3 DEF Plan
<1>7. \A z : z \in Occupied <=> z \in Id /\ z <= room /\ map[z] # UNOCCUPIED
  BY <1>5, SizeAssumption DEF Occupied, Id, Root
<1> QED
  BY <1>4, <1>5, <1>6, <1>7

\* Between commands the plan has a file for each name, and its size is right.
LEMMA InvSizes ==
  ASSUME IInv
  PROVE  SizeRight
<1> SUFFICES ASSUME Idle, short = {}, NEW f \in Files
             PROVE  disk[Find(Memory, f)].size
                      = Cardinality(ZonesOfFile(disk, Find(Memory, f)))
  BY DEF SizeRight
<1>1. PICK v, U, lev : Amid(disk, Memory, v, U, lev, {})
  BY AtRest DEF Settled
<1>2. v = disk
  BY <1>1, SettledZone DEF Memory
<1>3. Store(disk) /\ Plan(disk, U, lev) /\ Tidy(Memory, disk, U, lev, {})
  BY <1>1, <1>2 DEF Amid
<1>4. PICK id : id = Find(Memory, f)
  OBVIOUS
<1>5. f \in File /\ id = disk[Root].subs[f] /\ id # 0
  BY <1>4 DEF Files, Exists, Find, Memory
<1>6. id \in U /\ lev[id] = 3
  BY <1>3, <1>5, RootIs
<1>7. Memory.short = {}
  BY DEF Memory
<1>8. Sized(disk, id)
  BY <1>3, <1>6, <1>7 DEF Tidy
<1> QED
  BY <1>4, <1>8 DEF Sized

-----------------------------------------------------------------------------

\* The invariant holds of every run.
THEOREM Invariant == Spec => []IInv
<1>1. Init => IInv
  BY InitInv
<1>2. IInv /\ [Next]_vars => IInv'
  BY NextInv
<1> QED
  BY <1>1, <1>2, PTL DEF Spec

\* Zones hold what their type says and no more than fits.
THEOREM TypeCorrect == Spec => []TypeOK
<1>1. IInv => TypeOK
  BY InvTypes
<1> QED
  BY <1>1, Invariant, PTL

\* Nothing in use has two pointers to it, whenever the server may die.
THEOREM FilesApart == Spec => []NothingShared
<1>1. IInv => NothingShared
  BY InvApart
<1> QED
  BY <1>1, Invariant, PTL

\* Between commands the zones taken are those in use, but for what an index
\* that ran out of room has lost.
THEOREM UsageRight == Spec => []UsageExact
<1>1. IInv => UsageExact
  BY InvUsage
<1> QED
  BY <1>1, Invariant, PTL

\* Between commands the size of a file is the number of its zones, while no
\* zone was missing.
THEOREM SizesRight == Spec => []SizeRight
<1>1. IInv => SizeRight
  BY InvSizes
<1> QED
  BY <1>1, Invariant, PTL
=============================================================================

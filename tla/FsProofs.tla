------------------------------ MODULE FsProofs ------------------------------
(*************************************************************************)
(* What TLAPS proves of Fs under the uses of MCFsSession, for every      *)
(* disk, every number of entries in a dentry and every set of paths:     *)
(* that the disk is a tree at any moment at which the server may die,    *)
(* that between commands the bitmap describes it, that directories have  *)
(* no gaps, that the working directory is in the tree, that ls shows the *)
(* right size, and that to its user the file system is Namespace. First  *)
(* the invariant and what it says of the disk, then the theorems, then   *)
(* the refinement.                                                       *)
(*************************************************************************)
EXTENDS FsLemmas

-----------------------------------------------------------------------------
(* The invariant.                                                           *)

\* A write reaches the disk: it is the first of the log.
LEMMA LogPut ==
  ASSUME NEW d, NEW m, NEW at, Sound(d, m, at), m.writes # <<>>,
         NEW e, e = [d EXCEPT ![Head(m.writes)[1]] = Head(m.writes)[2]]
  PROVE  /\ Safe(e)
         /\ \E n : n.st = m.st /\ n.writes = Tail(m.writes) /\ Sound(e, n, at)
<1>1. PICK w : w = m.writes
  OBVIOUS
<1>2. IsMemory(m) /\ Logged(d, m) /\ Whole(m.zone, m.st) /\ Here(m.zone, at)
  BY DEF Sound
<1>3. PICK L : L = Len(w)
  OBVIOUS
<1>4. /\ IsSeq(w) /\ IsSeq(Tail(w)) /\ L \in Nat \ {0} /\ Len(Tail(w)) = L - 1
      /\ Head(w) = w[1] /\ \A k \in 1 .. L - 1 : Tail(w)[k] = w[k + 1]
  <2>1. PICK S : w \in Seq(S)
    BY <1>1, <1>2 DEF IsMemory, IsSeq
  <2>2. w # <<>>
    BY <1>1
  <2>3. /\ Tail(w) \in Seq(S) /\ L \in Nat \ {0} /\ Len(Tail(w)) = L - 1
        /\ Head(w) = w[1] /\ \A k \in 1 .. L - 1 : Tail(w)[k] = w[k + 1]
    BY <1>3, <2>1, <2>2
  <2> QED
    BY <2>1, <2>3 DEF IsSeq
<1>5. PICK h : /\ h[0] = d /\ h[L] = m.zone
               /\ \A k \in 0 .. L : Safe(h[k])
               /\ \A k \in 1 .. L : /\ w[k][1] \in Id
                                    /\ h[k] = [h[k - 1] EXCEPT ![w[k][1]] = w[k][2]]
  <2>1. m.writes = w /\ Len(m.writes) = L
    BY <1>1, <1>3
  <2>2. \E f : /\ f[0] = d /\ f[Len(m.writes)] = m.zone
               /\ \A k \in 0 .. Len(m.writes) : Safe(f[k])
               /\ \A k \in 1 .. Len(m.writes) :
                    /\ m.writes[k][1] \in Id
                    /\ f[k] = [f[k - 1] EXCEPT ![m.writes[k][1]] = m.writes[k][2]]
    BY <1>2, Zenon DEF Logged
  <2>3. \E f : /\ f[0] = d /\ f[L] = m.zone
               /\ \A k \in 0 .. L : Safe(f[k])
               /\ \A k \in 1 .. L :
                    /\ w[k][1] \in Id
                    /\ f[k] = [f[k - 1] EXCEPT ![w[k][1]] = w[k][2]]
    BY <2>1, <2>2, Zenon
  <2> QED
    BY <2>3, Zenon
<1>6. h[1] = e /\ Safe(e)
  <2>1. 1 \in 1 .. L /\ 1 \in 0 .. L /\ 1 - 1 = 0
    BY <1>4
  <2>2. h[1] = [h[0] EXCEPT ![w[1][1]] = w[1][2]]
    BY <1>5, <2>1
  <2>3. e = [d EXCEPT ![w[1][1]] = w[1][2]]
    BY <1>1, <1>4
  <2>4. h[0] = d
    BY <1>5
  <2>5. h[1] = e
    BY <2>2, <2>3, <2>4
  <2> QED
    BY <1>5, <2>1, <2>5
<1> DEFINE n == [zone |-> m.zone, st |-> m.st, writes |-> Tail(w)]
           g == [k \in 0 .. L - 1 |-> h[k + 1]]
<1>7. /\ n = [zone |-> n.zone, st |-> n.st, writes |-> n.writes]
      /\ n.zone = m.zone /\ n.st = m.st /\ n.writes = Tail(w)
  OBVIOUS
<1> HIDE DEF n
<1>8. IsMemory(n)
  BY <1>2, <1>4, <1>7 DEF IsMemory
<1>9. \A k \in 0 .. L - 1 : g[k] = h[k + 1]
  OBVIOUS
<1> HIDE DEF g
<1>10. Logged(e, n)
  <2>1. Len(n.writes) = L - 1
    BY <1>4, <1>7
  <2>2. g[0] = e
    BY <1>4, <1>6, <1>9
  <2>3. g[L - 1] = n.zone
    <3>1. L - 1 \in 0 .. L - 1 /\ (L - 1) + 1 = L
      BY <1>4
    <3> QED
      BY <1>5, <1>7, <1>9, <3>1
  <2>4. \A k \in 0 .. L - 1 : Safe(g[k])
    BY <1>4, <1>5, <1>9
  <2>5. ASSUME NEW k \in 1 .. L - 1
        PROVE  /\ n.writes[k][1] \in Id
               /\ g[k] = [g[k - 1] EXCEPT ![n.writes[k][1]] = n.writes[k][2]]
    <3>1. k + 1 \in 1 .. L /\ k \in 0 .. L - 1 /\ k - 1 \in 0 .. L - 1 /\ (k - 1) + 1 = k
          /\ (k + 1) - 1 = k
      BY <1>4
    <3>2. n.writes[k] = w[k + 1] /\ g[k] = h[k + 1] /\ g[k - 1] = h[k]
      BY <1>4, <1>7, <1>9, <3>1
    <3>3. w[k + 1][1] \in Id /\ h[k + 1] = [h[k] EXCEPT ![w[k + 1][1]] = w[k + 1][2]]
      BY <1>5, <3>1
    <3> QED
      BY <3>2, <3>3
  <2> QED
    BY <2>1, <2>2, <2>3, <2>4, <2>5 DEF Logged
<1>11. Sound(e, n, at)
  BY <1>2, <1>7, <1>8, <1>10 DEF Sound
<1> QED
  BY <1>1, <1>6, <1>7, <1>11

\* What is in memory while the server is on is what the disk will be once all
\* of todo is written.
IInv ==
  /\ up \in {"on", "off", "dead"}
  /\ Safe(disk)
  /\ map \in [Id -> UNOCCUPIED .. I_OCCUPIED]
  /\ saved \in [Id -> UNOCCUPIED .. I_OCCUPIED]
  /\ (req # NONE) <=> (todo # <<>>)
  /\ up = "on" => \E m : m.st = map /\ m.writes = todo /\ Sound(disk, m, pwd)
  /\ up # "on" => pwd = <<Root>> /\ todo = <<>>
  /\ up = "off" => Whole(disk, saved)

\* Between two commands it is what the disk is.
LEMMA Idle ==
  ASSUME IInv, up = "on", req = NONE, NEW m, m = Memory
  PROVE  Sound(disk, m, pwd) /\ m.zone = disk /\ m.st = map /\ m.writes = <<>> /\ todo = <<>>
<1>1. todo = <<>>
  BY DEF IInv
<1>2. PICK n : n.st = map /\ n.writes = todo /\ Sound(disk, n, pwd)
  BY DEF IInv
<1>3. n = [zone |-> n.zone, st |-> n.st, writes |-> n.writes] /\ Logged(disk, n)
  BY <1>2 DEF Sound, IsMemory
<1>4. n.zone = disk
  <2>1. Len(n.writes) = 0
    BY <1>1, <1>2
  <2> QED
    BY <1>3, <2>1 DEF Logged
<1>5. m = n
  BY <1>1, <1>2, <1>3, <1>4 DEF Memory
<1> QED
  BY <1>1, <1>2, <1>4, <1>5

\* A command under way.
LEMMA PerformKeeps ==
  ASSUME IInv, NEW op \in {"touch", "mkdir", "rm", "rmdir", "append", "write"}, NEW p \in Path,
         NEW r, Perform(op, p, r), Sound(disk, r.m, pwd), r.ans \in {"0", "4"}
  PROVE  IInv'
<1>1. /\ map' = r.m.st /\ todo' = r.m.writes
      /\ req' = IF r.m.writes = <<>> THEN NONE ELSE [op |-> op, path |-> p, ans |-> r.ans]
      /\ up' = up /\ disk' = disk /\ saved' = saved /\ pwd' = pwd /\ up = "on"
  BY DEF Perform, Ready
<1>2. [op |-> op, path |-> p, ans |-> r.ans] # NONE
  BY RequestAssumption
<1>3. (req # NONE)' <=> (todo # <<>>)'
  BY <1>1, <1>2
<1>4. r.m.st \in [Id -> UNOCCUPIED .. I_OCCUPIED]
  BY DEF Sound, IsMemory
<1>5. Sound(disk', r.m, pwd')
  BY <1>1
<1>6. \E m : m.st = map' /\ m.writes = todo' /\ Sound(disk', m, pwd')
  BY <1>1, <1>5
<1> QED
  BY <1>1, <1>3, <1>4, <1>6 DEF IInv

\* The next write.
LEMMA PutKeeps ==
  ASSUME IInv, Put
  PROVE  IInv'
<1>1. PICK m : m.st = map /\ m.writes = todo /\ Sound(disk, m, pwd)
  BY DEF IInv, Put
<1>2. /\ up = "on" /\ todo # <<>> /\ up' = up /\ map' = map /\ saved' = saved /\ pwd' = pwd
      /\ disk' = [disk EXCEPT ![Head(todo)[1]] = Head(todo)[2]]
      /\ todo' = Tail(todo)
      /\ IF Tail(todo) = <<>> THEN req' = NONE ELSE req' = req
  BY DEF Put
<1>3. PICK e : e = disk'
  OBVIOUS
<1>4. /\ Safe(e)
      /\ \E n : n.st = m.st /\ n.writes = Tail(m.writes) /\ Sound(e, n, pwd)
  <2>1. e = [disk EXCEPT ![Head(m.writes)[1]] = Head(m.writes)[2]] /\ m.writes # <<>>
    BY <1>1, <1>2, <1>3
  <2> QED
    BY <1>1, <2>1, LogPut
<1>5. (req # NONE)' <=> (todo # <<>>)'
  BY <1>2 DEF IInv
<1>6. Safe(disk') /\ \E n : n.st = map' /\ n.writes = todo' /\ Sound(disk', n, pwd')
  BY <1>1, <1>2, <1>3, <1>4
<1> QED
  BY <1>2, <1>5, <1>6 DEF IInv

\* An empty disk.
LEMMA InitInv ==
  ASSUME Init
  PROVE  IInv
<1>1. /\ up = "off" /\ map = [id \in Id |-> IF id = Root THEN D_OCCUPIED ELSE UNOCCUPIED]
      /\ saved = map /\ pwd = <<Root>> /\ todo = <<>> /\ req = NONE
      /\ disk = [id \in Id |-> IF id = Root THEN Dentry(0) ELSE Blank]
  BY DEF Init
<1>2. PICK z : z = Dentry(0)
  OBVIOUS
<1>3. /\ Formed(z) /\ z.type = "dentry" /\ \A i, c : ~Pt(z, i, c)
  <2>1. PICK s : s = NoEntries(NUM_OF_DENTRY_SUBS)
    OBVIOUS
  <2>2. z = DentryOf(0, s)
    BY <1>2, <2>1 DEF Dentry, DentryOf
  <2>3. s = [i \in Subs |-> NoEntry]
    BY <2>1 DEF NoEntries, Subs
  <2>4. IsSubs(s)
    <3>1. \A i \in Subs : s[i] = NoEntry
      BY <2>3
    <3>2. NoEntry.id = 0
      BY DEF NoEntry, Entry
    <3>3. s = [i \in Subs |-> s[i]]
      BY <2>3, <3>1
    <3> QED
      BY <3>1, <3>2, <3>3 DEF IsSubs
  <2>5. Formed(z)
    BY <2>2, <2>4 DEF Formed
  <2>6. z.type = "dentry" /\ z.subs = s
    BY <2>2 DEF DentryOf
  <2>7. \A i, c : ~Pt(z, i, c)
    <3>1. \A i \in Subs : s[i].id = 0
      BY <2>3 DEF NoEntry, Entry
    <3> QED
      BY <2>6, <3>1 DEF Pt
  <2> QED
    BY <2>5, <2>6, <2>7
<1>4. \A x \in Id : disk[x] = IF x = Root THEN z ELSE Blank
  BY <1>1, <1>2
<1>5. Store(disk)
  <2>1. \A x \in Id : Formed(disk[x])
    BY <1>3, <1>4 DEF Formed
  <2>2. disk = [x \in Id |-> disk[x]]
    BY <1>1, <1>4
  <2> QED
    BY <2>1, <2>2 DEF Store
<1> DEFINE r == [x \in {Root} |-> 0]
<1>6. Plan(disk, {Root}, r) /\ Held(disk, {Root})
  <2>1. r \in [{Root} -> Nat] /\ r[Root] = 0
    OBVIOUS
  <2> HIDE DEF r
  <2> QED
    BY <1>3, <1>4, <2>1, Limits DEF Plan, Held
<1>7. Tally(map, disk, {Root})
  <2>1. \A x \in Id : map[x] = IF x = Root THEN D_OCCUPIED ELSE UNOCCUPIED
    BY <1>1
  <2> QED
    BY <1>3, <1>4, <2>1 DEF Tally
<1>8. map \in [Id -> UNOCCUPIED .. I_OCCUPIED]
  BY <1>1 DEF UNOCCUPIED, D_OCCUPIED, I_OCCUPIED
<1>9. Safe(disk) /\ Whole(disk, saved)
  BY <1>1, <1>5, <1>6, <1>7 DEF Safe, Whole
<1> QED
  BY <1>1, <1>8, <1>9 DEF IInv

\* cd: a path to a directory, or refused.
LEMMA CdKeeps ==
  ASSUME IInv, NEW p \in Path, cd(p)
  PROVE  IInv'
<1>1. PICK m, way : m = Memory /\ way = get_path(m, p).at
  OBVIOUS
<1>2. /\ up = "on" /\ req = NONE /\ up' = up /\ disk' = disk /\ map' = map /\ saved' = saved
      /\ todo' = todo /\ req' = req
      /\ IF way # NONE /\ get_state(map, Last(way)) = D_OCCUPIED THEN pwd' = way ELSE pwd' = pwd
  BY <1>1 DEF cd, Ready
<1>3. Sound(disk, m, pwd) /\ m.zone = disk /\ m.st = map /\ m.writes = <<>> /\ todo = <<>>
  BY <1>1, <1>2, Idle
<1>4. ASSUME way # NONE, get_state(map, Last(way)) = D_OCCUPIED
      PROVE  Here(m.zone, way)
  <2>1. IsMemory(m) /\ Store(m.zone) /\ Here(m.zone, pwd)
    BY <1>3 DEF Sound, IsMemory
  <2>2. PICK U, r : Plan(m.zone, U, r) /\ Held(m.zone, U) /\ Tally(m.st, m.zone, U)
    BY <1>3 DEF Sound, Whole
  <2>3. Way(m.zone, way)
    BY <1>1, <1>4, <2>1, <2>2, PathLeads
  <2>4. PICK x : x = Last(way)
    OBVIOUS
  <2>5. x \in U
    BY <2>2, <2>3, <2>4, WayIn
  <2>6. x \in Id /\ m.zone[x].type \in {"dentry", "inode", "data"}
    BY <2>2, <2>5 DEF Plan
  <2>7. m.st[x] = D_OCCUPIED
    BY <1>3, <1>4, <2>4, <2>6, Limits DEF get_state
  <2>8. m.zone[x].type = "dentry"
    BY <2>2, <2>5, <2>6, <2>7 DEF Tally, D_OCCUPIED, I_OCCUPIED, F_OCCUPIED
  <2> QED
    BY <2>3, <2>4, <2>8 DEF Here
<1>5. Sound(disk, m, pwd')
  <2>1. Here(m.zone, pwd')
    <3>1. Here(m.zone, pwd)
      BY <1>3 DEF Sound
    <3> QED
      BY <1>2, <1>4, <3>1
  <2> QED
    BY <1>3, <2>1 DEF Sound
<1>6. \E n : n.st = map' /\ n.writes = todo' /\ Sound(disk', n, pwd')
  BY <1>2, <1>3, <1>5
<1> QED
  BY <1>2, <1>6 DEF IInv

\* The end of a session, in order or not.
LEMMA EndKeeps ==
  ASSUME IInv, exit \/ Crash
  PROVE  IInv'
<1>1. CASE exit
  <2>1. /\ up = "on" /\ req = NONE /\ up' = "off" /\ saved' = map /\ pwd' = <<Root>>
        /\ disk' = disk /\ map' = map /\ todo' = todo /\ req' = req
    BY <1>1 DEF exit
  <2>2. PICK m : m = Memory
    OBVIOUS
  <2>3. Sound(disk, m, pwd) /\ m.zone = disk /\ m.st = map /\ todo = <<>>
    BY <2>1, <2>2, Idle
  <2>4. Whole(disk, map)
    BY <2>3 DEF Sound
  <2>5. Whole(disk', saved')
    BY <2>1, <2>4
  <2> QED
    BY <2>1, <2>3, <2>5 DEF IInv
<1>2. CASE Crash
  <2>1. /\ up' = "dead" /\ todo' = <<>> /\ req' = NONE /\ pwd' = <<Root>>
        /\ disk' = disk /\ map' = map /\ saved' = saved
    BY <1>2 DEF Crash
  <2> QED
    BY <2>1 DEF IInv
<1> QED
  BY <1>1, <1>2

\* A session on states that describe the disk.
LEMMA StartKeeps ==
  ASSUME IInv, start, Whole(disk, saved)
  PROVE  IInv'
<1>1. /\ up # "on" /\ up' = "on" /\ map' = saved
      /\ disk' = disk /\ saved' = saved /\ pwd' = pwd /\ todo' = todo /\ req' = req
  BY DEF start
<1>2. pwd = <<Root>> /\ todo = <<>> /\ Safe(disk) /\ saved \in [Id -> UNOCCUPIED .. I_OCCUPIED]
  BY <1>1 DEF IInv
<1> DEFINE n == [zone |-> disk, st |-> saved, writes |-> <<>>]
<1>3. n.zone = disk /\ n.st = saved /\ n.writes = <<>>
      /\ n = [zone |-> n.zone, st |-> n.st, writes |-> n.writes]
  OBVIOUS
<1> HIDE DEF n
<1>4. IsMemory(n)
  <2>1. IsSeq(<<>>)
    BY DEF IsSeq
  <2> QED
    BY <1>2, <1>3, <2>1 DEF IsMemory, Safe
<1>5. Logged(disk, n)
  <2> DEFINE h == [k \in 0 .. 0 |-> disk]
  <2>1. h[0] = disk /\ Len(n.writes) = 0
    BY <1>3
  <2> HIDE DEF h
  <2>2. /\ h[0] = disk /\ h[Len(n.writes)] = n.zone
        /\ \A k \in 0 .. Len(n.writes) : Safe(h[k])
        /\ \A k \in 1 .. Len(n.writes) :
             /\ n.writes[k][1] \in Id
             /\ h[k] = [h[k - 1] EXCEPT ![n.writes[k][1]] = n.writes[k][2]]
    BY <1>2, <1>3, <2>1
  <2> QED
    BY <2>2 DEF Logged
<1>6. Here(disk, pwd)
  <2>1. disk[Root].type = "dentry"
    BY <1>2 DEF Safe, Plan
  <2>2. pwd \in Seq(Id) /\ Len(pwd) = 1 /\ pwd[1] = Root
    BY <1>2, Limits
  <2> QED
    BY <2>1, <2>2 DEF Here, Way, Last
<1>7. Sound(disk, n, pwd)
  BY <1>3, <1>4, <1>5, <1>6 DEF Sound
<1>8. n.st = map' /\ n.writes = todo' /\ Sound(disk', n, pwd')
  BY <1>1, <1>2, <1>3, <1>7
<1> QED
  BY <1>1, <1>2, <1>8 DEF IInv

-----------------------------------------------------------------------------
(* What the disk holds, as seen from the root.                              *)

\* A directory is one zone.
LEMMA ChainIs ==
  ASSUME Store(disk), NEW x \in Id
  PROVE  Chain(x) = {x}
<1> DEFINE g == [q \in -1 .. MAX_ID |-> IF q < Root THEN {} ELSE {q}]
           f == CHOOSE f : f = [q \in -1 .. MAX_ID |->
                  IF q < Root THEN {} ELSE {q} \cup f[NextOf(disk[q])]]
<1>1. \A q \in -1 .. MAX_ID : ~(q < Root) => NextOf(disk[q]) = 0
  <2>1. \A q \in -1 .. MAX_ID : q < Root \/ q \in Id
    BY Limits
  <2> QED
    BY <2>1, FormedIs DEF Store
<1>2. 0 \in -1 .. MAX_ID /\ 0 < Root /\ x \in -1 .. MAX_ID /\ ~(x < Root)
  BY Limits
<1>3. g[0] = {}
  BY <1>2
<1>4. \A q \in -1 .. MAX_ID : g[q] = IF q < Root THEN {} ELSE {q} \cup g[NextOf(disk[q])]
  BY <1>1, <1>3
<1>5. g = [q \in -1 .. MAX_ID |-> g[q]]
  OBVIOUS
<1>6. g = [q \in -1 .. MAX_ID |-> IF q < Root THEN {} ELSE {q} \cup g[NextOf(disk[q])]]
  <2> HIDE DEF g
  <2> QED
    BY <1>4, <1>5, Zenon
<1>7. f = [q \in -1 .. MAX_ID |-> IF q < Root THEN {} ELSE {q} \cup f[NextOf(disk[q])]]
  <2> HIDE DEF g
  <2> QED
    BY <1>6, Zenon
<1>8. Chain(x) = f[x]
  BY DEF Chain
<1> HIDE DEF f, g
<1>9. f[0] = {}
  BY <1>2, <1>7
<1>10. f[x] = {x}
  BY <1>1, <1>2, <1>7, <1>9
<1> QED
  BY <1>8, <1>10

\* Its entries are those of the zone.
LEMMA EntriesAre ==
  ASSUME Store(disk), NEW x \in Id, disk[x].type = "dentry"
  PROVE  /\ EntriesOf(x) = {disk[x].subs[i] : i \in Used(disk[x])}
         /\ \A i : i \in Used(disk[x]) <=> i \in Subs /\ disk[x].subs[i].id # 0
         /\ \A i \in Used(disk[x]) : disk[x].subs[i].id \in Id
                                     /\ Pt(disk[x], i, disk[x].subs[i].id)
         /\ \A i, c : Pt(disk[x], i, c) => i \in Used(disk[x]) /\ disk[x].subs[i].id = c
<1>1. PICK z : z = disk[x]
  OBVIOUS
<1>2. Formed(z) /\ z.type = "dentry"
  BY <1>1 DEF Store
<1>3. {y \in Chain(x) : IsDirZone(y)} = {x}
  BY <1>1, <1>2, ChainIs DEF IsDirZone
<1>4. EntriesOf(x) = {z.subs[i] : i \in Used(z)}
  BY <1>1, <1>3 DEF EntriesOf
<1>5. /\ \A i : i \in Used(z) <=> i \in Subs /\ z.subs[i].id # 0
      /\ \A i \in Used(z) : z.subs[i].id \in Id /\ Pt(z, i, z.subs[i].id)
      /\ \A i, c : Pt(z, i, c) <=> i \in Subs /\ z.subs[i].id = c /\ c # 0
  BY <1>2, Pointers
<1> QED
  BY <1>1, <1>4, <1>5

\* Where there is no entry left, all are in use.
LEMMA FullUse ==
  ASSUME NEW z, Formed(z), z.type = "dentry", Cardinality(Used(z)) < NUM_OF_DENTRY_SUBS
  PROVE  Room(z)
<1> SUFFICES ASSUME ~Room(z)
             PROVE  FALSE
  OBVIOUS
<1>1. \A i : i \in Used(z) <=> i \in Subs /\ z.subs[i].id # 0
  BY Pointers
<1>2. Used(z) = 1 .. NUM_OF_DENTRY_SUBS
  BY <1>1 DEF Room, Subs
<1>3. Cardinality(1 .. NUM_OF_DENTRY_SUBS) = NUM_OF_DENTRY_SUBS
  <2>1. Cardinality(1 .. NUM_OF_DENTRY_SUBS)
          = IF 1 > NUM_OF_DENTRY_SUBS THEN 0 ELSE NUM_OF_DENTRY_SUBS - 1 + 1
    BY Limits, FS_Interval
  <2> QED
    BY <2>1, Limits
<1> QED
  BY <1>2, <1>3, Limits

\* Where a request may lead.
LEMMA LeadsIs ==
  ASSUME NEW m, Sound(disk, m, pwd), m = Memory, NEW p \in Path,
         NEW way, way = get_path(m, p).at, way # NONE
  PROVE  Leads(p) /\ To(p) = Last(way) /\ Last(way) \in Id
<1>1. IsMemory(m) /\ Store(m.zone) /\ Here(m.zone, pwd)
  BY DEF Sound, IsMemory
<1>2. PICK U, r : Plan(m.zone, U, r) /\ Held(m.zone, U) /\ Tally(m.st, m.zone, U)
  BY DEF Sound, Whole
<1>3. Way(m.zone, way)
  BY <1>1, <1>2, PathLeads
<1>4. Last(way) \in U
  BY <1>2, <1>3, WayIn
<1>5. Last(way) \in Id
  BY <1>2, <1>4 DEF Plan
<1> QED
  BY <1>5 DEF Leads, To

\* What the guards of a session say of a request.
LEMMA MayCreates ==
  ASSUME Session, NEW m, Sound(disk, m, pwd), m = Memory, m.zone = disk,
         NEW p \in Path, MayCreate(p)
  PROVE  Creates(m, p)
<1> SUFFICES ASSUME get_path(m, p).at = NONE
             PROVE  Creates(m, p)
  BY DEF Creates
<1>1. /\ p.comps # <<>>
      /\ \A i \in 1 .. Len(p.comps) - 1 : p.comps[i] \in {".", ".."}
      /\ p.abs => Len(p.comps) > 1
      /\ Last(p.comps) \notin {".", ".."}
      /\ LET dir == get_path(Memory, [p EXCEPT !.comps = Front(p.comps)]).at IN
         dir # NONE /\ Last(dir) \in Id /\ disk[Last(dir)].type = "dentry" =>
           Cardinality(Used(disk[Last(dir)])) < NUM_OF_DENTRY_SUBS
  BY DEF MayCreate, Session
<1>2. Dotted(p)
  BY <1>1 DEF Dotted
<1>3. PICK at : at = get_path(m, DirOf(p)).at
  OBVIOUS
<1>4. at # NONE /\ Last(at) \in Id /\ disk[Last(at)].type = "dentry" =>
        Cardinality(Used(disk[Last(at)])) < NUM_OF_DENTRY_SUBS
  BY <1>1, <1>3 DEF DirOf
<1>5. IsMemory(m) /\ Store(m.zone) /\ Here(m.zone, pwd)
  BY DEF Sound, IsMemory
<1>6. PICK U, r : Plan(m.zone, U, r)
  BY DEF Sound, Whole
<1>7. at = NONE \/ Here(m.zone, at)
  <2>1. LastStep(m.zone, m, m, p)
    BY <1>2, <1>5, <1>6, DotPath
  <2> QED
    BY <1>3, <2>1 DEF LastStep
<1>8. ASSUME at # NONE, m.zone[Last(at)].type = "dentry"
      PROVE  Room(m.zone[Last(at)])
  <2>1. PICK h, z : h = Last(at) /\ z = m.zone[h]
    OBVIOUS
  <2>2. Way(m.zone, at)
    BY <1>7, <1>8 DEF Here
  <2>3. h \in U /\ h \in Id
    BY ZenonT(30), <1>6, <2>1, <2>2, WayIn DEF Plan
  <2>4. Cardinality(Used(z)) < NUM_OF_DENTRY_SUBS
    BY <1>4, <1>8, <2>1, <2>3
  <2>5. Formed(z) /\ z.type = "dentry"
    BY <1>5, <1>8, <2>1, <2>3 DEF Store
  <2>6. Room(z)
    BY <2>4, <2>5, FullUse
  <2> QED
    BY <2>1, <2>6
<1> QED
  BY <1>1, <1>2, <1>3, <1>8 DEF Creates

\* y is what entry i of directory x leads to.
Under(x, i, y) ==
  /\ disk[x.id].type = "dentry" /\ Pt(disk[x.id], i, y.id)
  /\ y = [at |-> Append(x.at, disk[x.id].subs[i].name), id |-> y.id]

\* The nodes, by how many names lead to them.
Levels(f) ==
  /\ f[0] = {[at |-> <<>>, id |-> Root]}
  /\ \A n \in 1 .. MAX_ID - Root : f[n] = UNION {Below(x) : x \in f[n - 1]}
  /\ Nodes = UNION {f[n] : n \in 0 .. MAX_ID - Root}

\* The recursion of Nodes is well founded.
LEMMA LevelsAre == \E f : Levels(f)
<1> DEFINE first == {[at |-> <<>>, id |-> Root]}
           More(S) == UNION {Below(x) : x \in S}
           Rec(f, n) == f = [i \in 0 .. n |-> IF i = 0 THEN first ELSE More(f[i - 1])]
           Has == {n \in Nat : \E f : Rec(f, n)}
           k == MAX_ID - Root
<1>0. k \in Nat
  BY Limits
<1>1. 0 \in Has
  <2> DEFINE f == [i \in 0 .. 0 |-> first]
  <2>1. Rec(f, 0)
    OBVIOUS
  <2> QED
    BY <2>1
<1>2. ASSUME NEW n \in Nat, n \in Has
      PROVE  n + 1 \in Has
  <2> HIDE DEF first, More
  <2>1. PICK f : Rec(f, n)
    BY <1>2
  <2> DEFINE g == [i \in 0 .. n + 1 |-> IF i <= n THEN f[i] ELSE More(f[n])]
  <2>2. ASSUME NEW i \in 0 .. n + 1
        PROVE  g[i] = IF i = 0 THEN first ELSE More(g[i - 1])
    <3>1. CASE i = 0
      BY <2>1, <3>1
    <3>2. CASE i \in 1 .. n
      BY <2>1, <3>2
    <3>3. CASE i = n + 1
      BY <2>1, <3>3
    <3> QED
      BY <3>1, <3>2, <3>3
  <2>3. Rec(g, n + 1)
    <3> HIDE DEF g
    <3>1. g = [i \in 0 .. n + 1 |-> g[i]]
      BY DEF g
    <3> QED
      BY <2>2, <3>1
  <2>4. \E h : Rec(h, n + 1)
    <3> HIDE DEF g
    <3> QED
      BY <2>3
  <2> QED
    BY <2>4
<1>3. k \in Has
  <2> HIDE DEF Has, k
  <2> QED
    BY <1>0, <1>1, <1>2, Induct
<1> DEFINE f == CHOOSE f : f = [i \in 0 .. MAX_ID - Root |->
                  IF i = 0 THEN first ELSE UNION {Below(x) : x \in f[i - 1]}]
<1>4. f = [i \in 0 .. k |-> IF i = 0 THEN first ELSE More(f[i - 1])]
  <2>1. PICK h : Rec(h, k)
    BY <1>3
  <2> HIDE DEF first
  <2> QED
    BY <2>1
<1>5. Nodes = UNION {f[n] : n \in DOMAIN f}
  BY DEF Nodes
<1> HIDE DEF f, first
<1>6. DOMAIN f = 0 .. k /\ f[0] = first
  BY <1>0, <1>4
<1>7. \A n \in 1 .. k : f[n] = More(f[n - 1])
  <2> HIDE DEF More
  <2> QED
    BY <1>0, <1>4
<1>8. f[0] = {[at |-> <<>>, id |-> Root]}
  BY <1>6 DEF first
<1>9. Nodes = UNION {f[n] : n \in 0 .. MAX_ID - Root}
  BY <1>5, <1>6, Zenon
<1>10. \A n \in 1 .. MAX_ID - Root : f[n] = UNION {Below(x) : x \in f[n - 1]}
  BY <1>7, Zenon
<1>11. Levels(f)
  BY <1>8, <1>9, <1>10, Zenon DEF Levels
<1> QED
  BY <1>11

\* Below a directory is what its entries lead to.
LEMMA BelowIs ==
  ASSUME Store(disk), NEW x, x.id \in Id
  PROVE  \A y : y \in Below(x) <=> \E i : Under(x, i, y)
<1>1. CASE disk[x.id].type # "dentry"
  BY <1>1 DEF Below, Under
<1>2. CASE disk[x.id].type = "dentry"
  <2>1. PICK z : z = disk[x.id]
    OBVIOUS
  <2>2. EntriesOf(x.id) = {z.subs[i] : i \in Used(z)}
    BY <1>2, <2>1, EntriesAre
  <2>3. \A i, c : Pt(z, i, c) <=> i \in Used(z) /\ z.subs[i].id = c
    <3>1. Formed(z) /\ z.type = "dentry"
      BY <1>2, <2>1 DEF Store
    <3> QED
      BY <3>1, Pointers
  <2>4. Below(x) = {[at |-> Append(x.at, e.name), id |-> e.id] : e \in EntriesOf(x.id)}
    BY <1>2 DEF Below
  <2>5. \A y : y \in Below(x) <=>
          \E i \in Used(z) : y = [at |-> Append(x.at, z.subs[i].name), id |-> z.subs[i].id]
    BY <2>2, <2>4
  <2>6. ASSUME NEW y
        PROVE  y \in Below(x) <=> \E i : Under(x, i, y)
    <3>1. ASSUME NEW i \in Used(z),
                 y = [at |-> Append(x.at, z.subs[i].name), id |-> z.subs[i].id]
          PROVE  Under(x, i, y)
      <4>1. y.id = z.subs[i].id
        BY <3>1
      <4> QED
        BY <1>2, <2>1, <2>3, <3>1, <4>1 DEF Under
    <3>2. ASSUME NEW i, Under(x, i, y)
          PROVE  i \in Used(z) /\ y = [at |-> Append(x.at, z.subs[i].name), id |-> z.subs[i].id]
      BY <2>1, <2>3, <3>2 DEF Under
    <3> QED
      BY <2>5, <3>1, <3>2
  <2> QED
    BY <2>6
<1> QED
  BY <1>1, <1>2

\* A node n names below the root of the tree U.
Deep(U, r, x, n) ==
  /\ x.id \in U /\ x.id \in Id /\ r[x.id] = n /\ disk[x.id].type \in {"dentry", "inode"}
  /\ IsSeq(x.at) /\ Len(x.at) = n /\ x = [at |-> x.at, id |-> x.id]

\* One name further.
LEMMA UnderDeep ==
  ASSUME NEW U, NEW r, Plan(disk, U, r), NEW x, NEW n \in Nat, Deep(U, r, x, n),
         NEW i, NEW y, Under(x, i, y)
  PROVE  Deep(U, r, y, n + 1) /\ disk[y.id].parent = x.id
<1>1. /\ disk[x.id].type = "dentry" /\ Pt(disk[x.id], i, y.id) /\ x.id \in U /\ r[x.id] = n
      /\ IsSeq(x.at) /\ Len(x.at) = n
  BY DEF Under, Deep
<1>2. y.id \in U /\ U \subseteq Id /\ Kid(disk, x.id, y.id, r)
  BY <1>1 DEF Plan
<1>3. disk[y.id].type \in {"dentry", "inode"} /\ disk[y.id].parent = x.id /\ r[y.id] = n + 1
  BY <1>1, <1>2 DEF Kid
<1>4. PICK e : y = [at |-> Append(x.at, e), id |-> y.id]
  BY DEF Under
<1>5. IsSeq(y.at) /\ Len(y.at) = n + 1 /\ y = [at |-> y.at, id |-> y.id]
  <2>1. y.at = Append(x.at, e)
    BY <1>4
  <2>2. IsSeq(Append(x.at, e)) /\ Len(Append(x.at, e)) = Len(x.at) + 1
    BY <1>1, SeqGrows
  <2> QED
    BY <1>1, <1>4, <2>1, <2>2
<1> QED
  BY <1>2, <1>3, <1>5 DEF Deep

\* From level to level.
LEMMA LevelUp ==
  ASSUME NEW U, NEW r, Store(disk), Plan(disk, U, r), NEW f, Levels(f),
         NEW n \in 0 .. MAX_ID - Root - 1, \A x \in f[n] : Deep(U, r, x, n)
  PROVE  \A y : y \in f[n + 1] <=> \E x \in f[n] : \E i : Under(x, i, y)
<1>1. n + 1 \in 1 .. MAX_ID - Root /\ (n + 1) - 1 = n
  BY Limits
<1>2. f[n + 1] = UNION {Below(x) : x \in f[n]}
  BY <1>1 DEF Levels
<1>3. \A x \in f[n] : x.id \in Id
  BY DEF Deep
<1>4. \A x \in f[n] : \A y : y \in Below(x) <=> \E i : Under(x, i, y)
  BY <1>3, BelowIs
<1> QED
  BY <1>2, <1>4

\* Every node is as deep as its level.
LEMMA LevelIs ==
  ASSUME NEW U, NEW r, Store(disk), Plan(disk, U, r), NEW f, Levels(f)
  PROVE  \A n \in 0 .. MAX_ID - Root : \A x \in f[n] : Deep(U, r, x, n)
<1> DEFINE T == {n \in 0 .. MAX_ID - Root : \A x \in f[n] : Deep(U, r, x, n)}
<1>1. MAX_ID - Root \in Nat
  BY Limits
<1>2. 0 \in T
  <2> SUFFICES ASSUME NEW x \in f[0]
               PROVE  Deep(U, r, x, 0)
    BY <1>1
  <2>1. x = [at |-> <<>>, id |-> Root]
    BY DEF Levels
  <2>2. x.at = <<>> /\ x.id = Root /\ IsSeq(<<>>) /\ Len(<<>>) = 0
    BY <2>1 DEF IsSeq
  <2>3. Root \in U /\ r[Root] = 0 /\ disk[Root].type = "dentry"
    BY DEF Plan
  <2> QED
    BY <2>1, <2>2, <2>3, Limits DEF Deep
<1>3. ASSUME NEW n \in 0 .. MAX_ID - Root - 1, n \in T
      PROVE  n + 1 \in T
  <2>1. n + 1 \in 0 .. MAX_ID - Root /\ n \in Nat
    BY <1>1
  <2> SUFFICES ASSUME NEW y \in f[n + 1]
               PROVE  Deep(U, r, y, n + 1)
    BY <2>1
  <2>2. \A x \in f[n] : Deep(U, r, x, n)
    BY <1>3
  <2>3. PICK x \in f[n] : \E i : Under(x, i, y)
    BY <2>2, LevelUp
  <2>4. PICK i : Under(x, i, y)
    BY <2>3
  <2>5. Deep(U, r, x, n)
    BY <2>2
  <2> QED
    BY <2>1, <2>4, <2>5, UnderDeep
<1>4. 0 .. MAX_ID - Root \subseteq T
  <2> HIDE DEF T
  <2> QED
    BY <1>1, <1>2, <1>3, InductTo
<1> QED
  BY <1>4

\* A node is known by its zone, and by its names.
LEMMA OneNode ==
  ASSUME NEW U, NEW r, Store(disk), Plan(disk, U, r), NEW f, Levels(f)
  PROVE  \A n \in 0 .. MAX_ID - Root : \A x, y \in f[n] : x.id = y.id \/ x.at = y.at => x = y
<1> DEFINE Same(n) == \A x, y \in f[n] : x.id = y.id \/ x.at = y.at => x = y
           T == {n \in 0 .. MAX_ID - Root : Same(n)}
<1>1. MAX_ID - Root \in Nat
  BY Limits
<1>2. 0 \in T
  BY <1>1 DEF Levels
<1>3. ASSUME NEW n \in 0 .. MAX_ID - Root - 1, n \in T
      PROVE  n + 1 \in T
  <2>1. n + 1 \in 0 .. MAX_ID - Root /\ n \in Nat /\ n \in 0 .. MAX_ID - Root
    BY <1>1
  <2> SUFFICES ASSUME NEW x \in f[n + 1], NEW y \in f[n + 1], x.id = y.id \/ x.at = y.at
               PROVE  x = y
    BY <2>1
  <2>2. \A v \in f[n] : Deep(U, r, v, n)
    BY <2>1, LevelIs
  <2>3. /\ \E v \in f[n] : \E i : Under(v, i, x)
        /\ \E w \in f[n] : \E j : Under(w, j, y)
    BY <2>2, LevelUp
  <2>4. PICK v \in f[n] : \E i : Under(v, i, x)
    BY <2>3
  <2>5. PICK w \in f[n] : \E j : Under(w, j, y)
    BY <2>3
  <2>6. PICK i : Under(v, i, x)
    BY <2>4
  <2>7. PICK j : Under(w, j, y)
    BY <2>5
  <2>8. Deep(U, r, v, n) /\ Deep(U, r, w, n)
    BY <2>2
  <2>9. v.id \in U /\ v.id \in Id /\ w.id \in U /\ IsSeq(v.at) /\ IsSeq(w.at)
        /\ Len(v.at) = n /\ Len(w.at) = n
    BY <2>8 DEF Deep
  <2>10. PICK z : z = disk[v.id]
    OBVIOUS
  <2>11. PICK a, b : a = z.subs[i].name /\ b = disk[w.id].subs[j].name
    OBVIOUS
  <2>12. /\ z.type = "dentry" /\ Pt(z, i, x.id) /\ x = [at |-> Append(v.at, a), id |-> x.id]
         /\ Pt(disk[w.id], j, y.id) /\ y = [at |-> Append(w.at, b), id |-> y.id]
    BY <2>6, <2>7, <2>10, <2>11 DEF Under
  <2>13. x.at = Append(v.at, a) /\ y.at = Append(w.at, b)
    BY <2>12
  <2>14. CASE x.id = y.id
    <3>1. v.id = w.id /\ i = j
      <4>1. \A g, h \in U : \A k, l, c : Pt(disk[g], k, c) /\ Pt(disk[h], l, c) => g = h /\ k = l
        BY DEF Plan
      <4>2. v.id \in U /\ w.id \in U
        BY <2>9
      <4>3. Pt(disk[v.id], i, x.id) /\ Pt(disk[w.id], j, x.id)
        BY <2>10, <2>12, <2>14
      <4> QED
        BY <4>1, <4>2, <4>3
    <3>2. v = w /\ a = b
      BY <1>3, <2>10, <2>11, <3>1
    <3> QED
      BY <2>12, <2>14, <3>2
  <2>15. CASE x.at = y.at
    <3>1. v.at = w.at /\ a = b
      <4>1. /\ \A k \in 1 .. n : Append(v.at, a)[k] = v.at[k]
            /\ Append(v.at, a)[n + 1] = a
        BY <2>9, SeqGrows
      <4>2. /\ \A k \in 1 .. n : Append(w.at, b)[k] = w.at[k]
            /\ Append(w.at, b)[n + 1] = b
        BY <2>9, SeqGrows
      <4>3. a = b /\ \A k \in 1 .. n : v.at[k] = w.at[k]
        BY <2>13, <2>15, <4>1, <4>2
      <4>4. PICK S, S2 : v.at \in Seq(S) /\ w.at \in Seq(S2)
        BY <2>9 DEF IsSeq
      <4>5. v.at = [k \in 1 .. n |-> v.at[k]] /\ w.at = [k \in 1 .. n |-> w.at[k]]
        BY <2>9, <4>4
      <4> QED
        BY <4>3, <4>5
    <3>2. v = w
      BY <1>3, <3>1
    <3>3. Pt(z, j, y.id) /\ z.subs[i].name = z.subs[j].name
      BY <2>10, <2>11, <2>12, <3>1, <3>2
    <3>4. i = j /\ x.id = y.id
      <4>1. Formed(z)
        BY <2>9, <2>10 DEF Store
      <4>2. IsSubs(z.subs)
        BY <2>12, <4>1, FormedIs
      <4>3. /\ i \in Subs /\ z.subs[i].id = x.id /\ x.id # 0
            /\ j \in Subs /\ z.subs[j].id = y.id /\ y.id # 0
        BY <2>12, <3>3, <4>1, Points
      <4>4. i = j
        BY <3>3, <4>2, <4>3 DEF IsSubs
      <4> QED
        BY <4>3, <4>4
    <3> QED
      BY <2>12, <2>15, <3>1, <3>2, <3>4
  <2> QED
    BY <2>14, <2>15
<1>4. 0 .. MAX_ID - Root \subseteq T
  <2> HIDE DEF T
  <2> QED
    BY <1>1, <1>2, <1>3, InductTo
<1> QED
  BY <1>4

\* Above a node is one of every lesser depth.
LEMMA Above ==
  ASSUME NEW U, NEW r, Store(disk), Plan(disk, U, r), NEW f, Levels(f)
  PROVE  \A n \in 0 .. MAX_ID - Root : \A x \in f[n] : \A k \in 0 .. n : \E u \in U : r[u] = k
<1> DEFINE T == {n \in 0 .. MAX_ID - Root :
                   \A x \in f[n] : \A k \in 0 .. n : \E u \in U : r[u] = k}
<1>1. MAX_ID - Root \in Nat
  BY Limits
<1>2. \A n \in 0 .. MAX_ID - Root : \A x \in f[n] : Deep(U, r, x, n)
  BY LevelIs
<1>3. 0 \in T
  <2>1. Root \in U /\ r[Root] = 0
    BY DEF Plan
  <2> QED
    BY <1>1, <2>1
<1>4. ASSUME NEW n \in 0 .. MAX_ID - Root - 1, n \in T
      PROVE  n + 1 \in T
  <2>1. n + 1 \in 0 .. MAX_ID - Root /\ n \in Nat /\ n \in 0 .. MAX_ID - Root
    BY <1>1
  <2> SUFFICES ASSUME NEW y \in f[n + 1], NEW k \in 0 .. n + 1
               PROVE  \E u \in U : r[u] = k
    BY <2>1
  <2>2. \A x \in f[n] : Deep(U, r, x, n)
    BY <1>2, <2>1
  <2>3. PICK x \in f[n] : \E i : Under(x, i, y)
    BY <2>2, LevelUp
  <2>4. CASE k \in 0 .. n
    BY <1>4, <2>3, <2>4
  <2>5. CASE k = n + 1
    <3>1. Deep(U, r, y, n + 1)
      BY <1>2, <2>1
    <3> QED
      BY <2>5, <3>1 DEF Deep
  <2> QED
    BY <2>1, <2>4, <2>5
<1>5. 0 .. MAX_ID - Root \subseteq T
  <2> HIDE DEF T
  <2> QED
    BY <1>1, <1>3, <1>4, InductTo
<1> QED
  BY <1>5

\* There are not more depths than zones.
LEMMA NotDeeper ==
  ASSUME NEW U, U \subseteq Id, NEW r, NEW n \in Nat,
         \A k \in 0 .. n : \E u \in U : r[u] = k
  PROVE  n <= MAX_ID - Root
<1> SUFFICES ASSUME n > MAX_ID - Root
             PROVE  FALSE
  BY Limits
<1>1. Root \in Int /\ MAX_ID \in Int /\ MAX_ID >= Root /\ 0 \in Int /\ n \in Int
  BY Limits
<1>2. IsFiniteSet(Id) /\ Cardinality(Id) = MAX_ID - Root + 1
  <2>1. /\ IsFiniteSet(Root .. MAX_ID)
        /\ Cardinality(Root .. MAX_ID) = IF Root > MAX_ID THEN 0 ELSE MAX_ID - Root + 1
    BY <1>1, FS_Interval
  <2> QED
    BY <1>1, <2>1 DEF Id
<1>3. IsFiniteSet(0 .. n) /\ Cardinality(0 .. n) = n + 1
  <2>1. IsFiniteSet(0 .. n) /\ Cardinality(0 .. n) = IF 0 > n THEN 0 ELSE n - 0 + 1
    BY <1>1, FS_Interval
  <2> QED
    BY <1>1, <2>1
<1> DEFINE g == [k \in 0 .. n |-> CHOOSE u \in U : r[u] = k]
<1>4. \A k \in 0 .. n : g[k] \in U /\ r[g[k]] = k
  OBVIOUS
<1>5. g \in [0 .. n -> Id]
  BY <1>4
<1> HIDE DEF g
<1>6. Cardinality(Id) < Cardinality(0 .. n)
  BY <1>1, <1>2, <1>3
<1>7. \E k, l \in 0 .. n : k # l /\ g[k] = g[l]
  BY <1>2, <1>3, <1>5, <1>6, FS_PigeonHole
<1> QED
  BY <1>4, <1>7

\* What is below a node is a node.
LEMMA Downward ==
  ASSUME NEW U, NEW r, Store(disk), Plan(disk, U, r), NEW f, Levels(f),
         NEW n \in 0 .. MAX_ID - Root, NEW x \in f[n], NEW i, NEW y, Under(x, i, y)
  PROVE  n + 1 \in 0 .. MAX_ID - Root /\ y \in f[n + 1]
<1>1. MAX_ID - Root \in Nat /\ n \in Nat
  BY Limits
<1>2. Deep(U, r, x, n)
  BY LevelIs
<1>3. y.id \in U /\ r[y.id] = n + 1 /\ U \subseteq Id
  <2>1. Deep(U, r, y, n + 1)
    BY <1>1, <1>2, UnderDeep
  <2> QED
    BY <2>1 DEF Deep, Plan
<1>4. \A k \in 0 .. n : \E u \in U : r[u] = k
  BY Above
<1>5. \A k \in 0 .. n + 1 : \E u \in U : r[u] = k
  <2>1. \A k \in 0 .. n + 1 : k \in 0 .. n \/ k = n + 1
    BY <1>1
  <2> QED
    BY <1>3, <1>4, <2>1
<1>6. n + 1 <= MAX_ID - Root
  BY <1>1, <1>3, <1>5, NotDeeper
<1>7. n \in 0 .. MAX_ID - Root - 1 /\ n + 1 \in 0 .. MAX_ID - Root
  BY <1>1, <1>6
<1>8. \A v \in f[n] : Deep(U, r, v, n)
  BY LevelIs
<1>9. y \in f[n + 1] <=> \E v \in f[n] : \E j : Under(v, j, y)
  BY <1>7, <1>8, LevelUp
<1> QED
  BY <1>7, <1>9

-----------------------------------------------------------------------------
(* Steps.                                                                   *)

\* The commands that make.
LEMMA MakeStep ==
  ASSUME Session, IInv, NEW p \in Path, MayCreate(p), touch(p) \/ mkdir(p)
  PROVE  IInv'
<1>1. up = "on" /\ req = NONE
  BY DEF touch, mkdir, Perform, Ready
<1>2. PICK m : m = Memory
  OBVIOUS
<1>3. Sound(disk, m, pwd) /\ m.zone = disk
  BY <1>1, <1>2, Idle
<1>4. Creates(m, p)
  BY <1>2, <1>3, MayCreates
<1>5. ASSUME NEW state \in {I_OCCUPIED, D_OCCUPIED}, NEW op \in {"touch", "mkdir"},
             NEW res, res = make(m, p, state), Perform(op, p, res)
      PROVE  IInv'
  <2>1. Sound(disk, res.m, pwd) /\ (res.ans = "0" \/ (res.ans = "4" /\ res.m = m))
    BY <1>3, <1>4, <1>5, MakeKeeps
  <2>2. Sound(disk, res.m, pwd) /\ res.ans \in {"0", "4"}
    BY <2>1
  <2> QED
    BY <1>5, <2>2, PerformKeeps
<1>6. CASE touch(p)
  <2>1. Perform("touch", p, make(m, p, I_OCCUPIED))
    BY <1>2, <1>6 DEF touch, mk_file
  <2> QED
    BY <1>5, <2>1
<1>7. CASE mkdir(p)
  <2>1. Perform("mkdir", p, make(m, p, D_OCCUPIED))
    BY <1>2, <1>7 DEF mkdir, mk_dir
  <2> QED
    BY <1>5, <2>1
<1> QED
  BY <1>6, <1>7

\* rm.
LEMMA RmStep ==
  ASSUME Session, IInv, NEW p \in Path, MayRm(p), rm(p)
  PROVE  IInv'
<1>1. PICK lost : Perform("rm", p, rm_file(Memory, p, lost))
  BY DEF rm
<1>2. up = "on" /\ req = NONE
  BY <1>1 DEF Perform, Ready
<1>3. PICK m, res, way : m = Memory /\ res = rm_file(m, p, lost) /\ way = get_path(m, p).at
  OBVIOUS
<1>4. Sound(disk, m, pwd) /\ m.zone = disk
  BY <1>2, <1>3, Idle
<1>5. way # NONE => m.zone[Last(way)].type = "inode"
  BY <1>3, <1>4, LeadsIs DEF MayRm, Session
<1>6. /\ way = NONE => res = Refused(m)
      /\ way # NONE => /\ res.ans = "0"
                       /\ Removed(disk, res.m, pwd, way[Len(way) - 1])
  BY <1>3, <1>4, <1>5, RmFileKeeps
<1>7. Sound(disk, res.m, pwd) /\ res.ans \in {"0", "4"}
  <2>1. CASE way = NONE
    BY <1>4, <1>6, <2>1 DEF Refused
  <2>2. CASE way # NONE
    BY <1>6, <2>2 DEF Removed
  <2> QED
    BY <2>1, <2>2
<1>8. Perform("rm", p, res)
  BY <1>1, <1>3
<1> QED
  BY <1>7, <1>8, PerformKeeps

\* rmdir of an empty directory that is not on the session's way.
LEMMA RmdirOf ==
  ASSUME Session, NEW m, m = Memory, Sound(disk, m, pwd), m.zone = disk,
         NEW p \in Path, MayRmdir(p), NEW way, way = get_path(m, p).at, way # NONE
  PROVE  /\ m.zone[Last(way)].type = "dentry" /\ Used(m.zone[Last(way)]) = {}
         /\ \A k \in 1 .. Len(pwd) : pwd[k] # Last(way)
<1>1. PICK x : x = Last(way)
  OBVIOUS
<1>2. Leads(p) /\ To(p) = x /\ x \in Id
  BY <1>1, LeadsIs
<1>3. disk[x].type = "dentry" /\ EntriesOf(x) = {} /\ x \notin Range(pwd)
  BY <1>2 DEF MayRmdir, Session
<1>4. EntriesOf(x) = {disk[x].subs[i] : i \in Used(disk[x])}
  <2>1. Store(disk)
    BY DEF Sound, IsMemory
  <2> QED
    BY <1>2, <1>3, <2>1, EntriesAre
<1>5. Used(disk[x]) = {}
  BY <1>3, <1>4
<1>6. \A k \in 1 .. Len(pwd) : pwd[k] # x
  <2>1. pwd \in Seq(Id)
    BY DEF Sound, Here, Way
  <2>2. Range(pwd) = {pwd[k] : k \in 1 .. Len(pwd)}
    BY <2>1 DEF Range
  <2> QED
    BY <1>3, <2>2
<1> QED
  BY <1>1, <1>3, <1>5, <1>6

\* rmdir.
LEMMA RmdirStep ==
  ASSUME Session, IInv, NEW p \in Path, MayRmdir(p), rmdir(p)
  PROVE  IInv'
<1>1. PICK lost : Perform("rmdir", p, rm_dir(Memory, p, lost))
  BY DEF rmdir
<1>2. up = "on" /\ req = NONE
  BY <1>1 DEF Perform, Ready
<1>3. PICK m, res, way : m = Memory /\ res = rm_dir(m, p, lost) /\ way = get_path(m, p).at
  OBVIOUS
<1>4. Sound(disk, m, pwd) /\ m.zone = disk
  BY <1>2, <1>3, Idle
<1>5. way # NONE => /\ m.zone[Last(way)].type = "dentry" /\ Used(m.zone[Last(way)]) = {}
                    /\ \A k \in 1 .. Len(pwd) : pwd[k] # Last(way)
  BY <1>1, <1>3, <1>4, RmdirOf
<1>6. res = Refused(m) \/ (res.ans = "0" /\ Sound(disk, res.m, pwd))
  BY <1>3, <1>4, <1>5, RmDirKeeps
<1>7. Sound(disk, res.m, pwd) /\ res.ans \in {"0", "4"}
  BY <1>4, <1>6 DEF Refused
<1>8. Perform("rmdir", p, res)
  BY <1>1, <1>3
<1> QED
  BY <1>7, <1>8, PerformKeeps

\* append.
LEMMA AppendStep ==
  ASSUME IInv, NEW p \in Path, Append_(p)
  PROVE  IInv'
<1>1. PICK k \in NewZones : Ready /\ Perform("append", p, append(Memory, p, k))
  BY DEF Append_
<1>2. k \in Nat /\ up = "on" /\ req = NONE
  BY <1>1, LimitsAssumption DEF Ready
<1>3. PICK m, res : m = Memory /\ res = append(m, p, k)
  OBVIOUS
<1>4. Sound(disk, m, pwd)
  BY <1>2, <1>3, Idle
<1>5. res = Refused(m) \/ (res.ans = "0" /\ Sound(disk, res.m, pwd))
  BY <1>2, <1>3, <1>4, AppendKeeps
<1>6. Sound(disk, res.m, pwd) /\ res.ans \in {"0", "4"}
  BY <1>4, <1>5 DEF Refused
<1>7. Perform("append", p, res)
  BY <1>1, <1>3
<1> QED
  BY <1>6, <1>7, PerformKeeps

\* write.
LEMMA WriteStep ==
  ASSUME Session, IInv, NEW p \in Path, MayWrite(p), write(p)
  PROVE  IInv'
<1>1. PICK k \in NewZones, lost \in Leftover : Perform("write", p, wrt(Memory, p, k, lost))
  BY DEF write
<1>2. k \in Nat /\ up = "on" /\ req = NONE
  BY <1>1, LimitsAssumption DEF Perform, Ready
<1>3. PICK m, res, way : m = Memory /\ res = wrt(m, p, k, lost) /\ way = get_path(m, p).at
  OBVIOUS
<1>4. Sound(disk, m, pwd) /\ m.zone = disk
  BY <1>2, <1>3, Idle
<1>5. MayCreate(p)
  BY DEF MayWrite
<1>6. Creates(m, p)
  BY <1>3, <1>4, <1>5, MayCreates
<1>7. p.comps # <<>> => Dotted(p)
  BY DEF MayWrite, Session, Dotted
<1>8. way # NONE => m.zone[Last(way)].type = "inode"
  <2>1. way # NONE => Leads(p) /\ To(p) = Last(way)
    BY <1>3, <1>4, LeadsIs
  <2>2. Leads(p) => disk[To(p)].type = "inode"
    BY DEF MayWrite
  <2> QED
    BY <1>4, <2>1, <2>2
<1>9. Sound(disk, res.m, pwd) /\ res.ans \in {"0", "4"}
  BY <1>2, <1>3, <1>4, <1>6, <1>7, <1>8, WriteKeeps
<1>10. Perform("write", p, res)
  BY <1>1, <1>3
<1> QED
  BY <1>9, <1>10, PerformKeeps

\* Nodes are files and directories of the tree.
LEMMA NodeIs ==
  ASSUME NEW U, NEW r, Store(disk), Plan(disk, U, r), NEW x \in Nodes
  PROVE  x.id \in U /\ x.id \in Id /\ disk[x.id].type \in {"dentry", "inode"}
<1>1. PICK f : Levels(f)
  BY LevelsAre
<1>2. PICK n \in 0 .. MAX_ID - Root : x \in f[n]
  BY <1>1 DEF Levels
<1>3. Deep(U, r, x, n)
  BY <1>1, <1>2, LevelIs
<1> QED
  BY <1>3 DEF Deep

\* Two nodes differ in their zone and in their names.
LEMMA NodesDiffer ==
  ASSUME NEW U, NEW r, Store(disk), Plan(disk, U, r), NEW x \in Nodes, NEW y \in Nodes,
         x.id = y.id \/ x.at = y.at
  PROVE  x = y
<1>1. PICK f : Levels(f)
  BY LevelsAre
<1>2. PICK n \in 0 .. MAX_ID - Root : x \in f[n]
  BY <1>1 DEF Levels
<1>3. PICK k \in 0 .. MAX_ID - Root : y \in f[k]
  BY <1>1 DEF Levels
<1>4. Deep(U, r, x, n) /\ Deep(U, r, y, k)
  BY <1>1, <1>2, <1>3, LevelIs
<1>5. n = k
  BY <1>4 DEF Deep
<1> QED
  BY <1>1, <1>2, <1>3, <1>5, OneNode

\* A node but the root is below another, its parent.
LEMMA NodeAbove ==
  ASSUME NEW U, NEW r, Store(disk), Plan(disk, U, r), NEW x \in Nodes
  PROVE  \/ x = [at |-> <<>>, id |-> Root]
         \/ /\ x.at # <<>>
            /\ [at |-> Front(x.at), id |-> disk[x.id].parent] \in Nodes
            /\ \E v \in Nodes : \E i : Under(v, i, x)
<1>1. PICK f : Levels(f)
  BY LevelsAre
<1>2. PICK n \in 0 .. MAX_ID - Root : x \in f[n]
  BY <1>1 DEF Levels
<1>3. CASE n = 0
  BY <1>1, <1>2, <1>3 DEF Levels
<1>4. CASE n # 0
  <2>1. PICK k : k = n - 1
    OBVIOUS
  <2>2. k \in 0 .. MAX_ID - Root - 1 /\ k + 1 = n /\ k \in 0 .. MAX_ID - Root /\ k \in Nat
    BY <1>4, <2>1, Limits
  <2>3. \A v \in f[k] : Deep(U, r, v, k)
    BY <1>1, <2>2, LevelIs
  <2>4. x \in f[k + 1] <=> \E v \in f[k] : \E i : Under(v, i, x)
    BY <1>1, <2>2, <2>3, LevelUp
  <2>5. PICK v \in f[k] : \E i : Under(v, i, x)
    BY <1>2, <2>2, <2>4
  <2>6. PICK i : Under(v, i, x)
    BY <2>5
  <2>7. Deep(U, r, v, k)
    BY <2>3
  <2>8. disk[x.id].parent = v.id
    BY <2>2, <2>6, <2>7, UnderDeep
  <2>9. PICK e : x = [at |-> Append(v.at, e), id |-> x.id]
    BY <2>6 DEF Under
  <2>10. x.at = Append(v.at, e)
    BY <2>9
  <2>11. Front(x.at) = v.at /\ x.at # <<>>
    BY <2>7, <2>10, FrontOf DEF Deep
  <2>12. v = [at |-> Front(x.at), id |-> disk[x.id].parent]
    BY <2>7, <2>8, <2>11 DEF Deep
  <2>13. v \in Nodes
    BY <1>1, <2>2 DEF Levels
  <2> QED
    BY <2>6, <2>11, <2>12, <2>13
<1> QED
  BY <1>3, <1>4

\* What is below a node is one.
LEMMA NodeBelow ==
  ASSUME NEW U, NEW r, Store(disk), Plan(disk, U, r), NEW x \in Nodes, NEW i, NEW y, Under(x, i, y)
  PROVE  y \in Nodes
<1>1. PICK f : Levels(f)
  BY LevelsAre
<1>2. PICK n \in 0 .. MAX_ID - Root : x \in f[n]
  BY <1>1 DEF Levels
<1>3. n + 1 \in 0 .. MAX_ID - Root /\ y \in f[n + 1]
  BY <1>1, <1>2, Downward
<1> QED
  BY <1>1, <1>3 DEF Levels

\* The root is a node.
LEMMA RootNode == [at |-> <<>>, id |-> Root] \in Nodes
<1>1. PICK f : Levels(f)
  BY LevelsAre
<1>2. 0 \in 0 .. MAX_ID - Root
  BY Limits
<1> QED
  BY <1>1, <1>2 DEF Levels

\* The zones of a node: its own, and data if it is a file.
LEMMA ZonesAre ==
  ASSUME NEW U, NEW r, Store(disk), Plan(disk, U, r), NEW x \in U,
         disk[x].type \in {"dentry", "inode"}
  PROVE  /\ \A z : z \in Zones(x) <=>
                     z = x \/ (disk[x].type = "inode" /\ \E i : Pt(disk[x], i, z))
         /\ \A z \in Zones(x) \ {x} : z \in U /\ z \in Id /\ disk[z].type = "data"
<1>1. x \in Id /\ U \subseteq Id
  BY DEF Plan
<1>2. CASE disk[x].type = "dentry"
  <2>1. Zones(x) = {x}
    BY <1>1, <1>2, ChainIs DEF Zones
  <2> QED
    BY <1>2, <2>1
<1>3. CASE disk[x].type = "inode"
  <2>1. PICK z : z = disk[x]
    OBVIOUS
  <2>2. Formed(z) /\ z.type = "inode"
    BY <1>1, <1>3, <2>1 DEF Store
  <2>3. /\ z.ptrs \in Seq(Id)
        /\ \A i, c : Pt(z, i, c) <=> i \in 1 .. Len(z.ptrs) /\ z.ptrs[i] = c
    BY <2>2, FormedIs, Pointers
  <2>4. Range(z.ptrs) = {z.ptrs[i] : i \in 1 .. Len(z.ptrs)}
    BY <2>3 DEF Range
  <2>5. Zones(x) = {x} \cup Range(z.ptrs)
    BY <1>3, <2>1 DEF Zones
  <2>6. \A c : c \in Zones(x) <=> c = x \/ \E i : Pt(z, i, c)
    BY <2>3, <2>4, <2>5
  <2>7. \A i, c : Pt(disk[x], i, c) => c \in U /\ disk[c].type = "data"
    BY <1>3 DEF Plan, Kid
  <2> QED
    BY <1>1, <1>3, <2>1, <2>6, <2>7
<1> QED
  BY <1>2, <1>3

\* A tree on disk is what DiskIsTree says.
LEMMA TreeOnDisk ==
  ASSUME Safe(disk)
  PROVE  DiskIsTree
<1>1. PICK U, r : Plan(disk, U, r)
  BY DEF Safe
<1>2. Store(disk)
  BY DEF Safe
<1>3. ASSUME NEW x \in Nodes
      PROVE  /\ x.id \in Id
             /\ disk[x.id].type \in {"dentry", "inode"}
             /\ x.at # <<>> => [at |-> Front(x.at), id |-> disk[x.id].parent] \in Nodes
             /\ \A z \in Zones(x.id) \ {x.id} : disk[z].type \in {"data", "dzone"}
  <2>1. x.id \in U /\ x.id \in Id /\ disk[x.id].type \in {"dentry", "inode"}
    BY <1>1, <1>2, NodeIs
  <2>2. \A z \in Zones(x.id) \ {x.id} : disk[z].type = "data"
    BY <1>1, <1>2, <2>1, ZonesAre
  <2>3. x.at # <<>> => [at |-> Front(x.at), id |-> disk[x.id].parent] \in Nodes
    <3>1. \/ x = [at |-> <<>>, id |-> Root]
          \/ /\ x.at # <<>>
             /\ [at |-> Front(x.at), id |-> disk[x.id].parent] \in Nodes
             /\ \E v \in Nodes : \E i : Under(v, i, x)
      BY <1>1, <1>2, NodeAbove
    <3>2. x = [at |-> <<>>, id |-> Root] => x.at = <<>>
      OBVIOUS
    <3> QED
      BY <3>1, <3>2
  <2> QED
    BY <2>1, <2>2, <2>3
<1>4. ASSUME NEW x \in Nodes, NEW y \in Nodes, x # y
      PROVE  x.at # y.at /\ Zones(x.id) \cap Zones(y.id) = {}
  <2>1. x.at # y.at /\ x.id # y.id
    BY <1>1, <1>2, <1>4, NodesDiffer
  <2>2. PICK a, b : a = x.id /\ b = y.id
    OBVIOUS
  <2>3. a \in U /\ disk[a].type \in {"dentry", "inode"} /\ b \in U /\ disk[b].type \in {"dentry", "inode"}
    BY <1>1, <1>2, <2>2, NodeIs
  <2>4. /\ \A z : z \in Zones(a) <=> z = a \/ (disk[a].type = "inode" /\ \E i : Pt(disk[a], i, z))
        /\ \A z \in Zones(a) \ {a} : disk[z].type = "data"
    BY <1>1, <1>2, <2>3, ZonesAre
  <2>5. /\ \A z : z \in Zones(b) <=> z = b \/ (disk[b].type = "inode" /\ \E i : Pt(disk[b], i, z))
        /\ \A z \in Zones(b) \ {b} : disk[z].type = "data"
    BY <1>1, <1>2, <2>3, ZonesAre
  <2>6. ASSUME NEW z, z \in Zones(a), z \in Zones(b)
        PROVE  FALSE
    <3>1. z # a /\ z # b
      BY <2>1, <2>2, <2>3, <2>4, <2>5, <2>6
    <3>2. PICK i, j : Pt(disk[a], i, z) /\ Pt(disk[b], j, z)
      BY <2>4, <2>5, <2>6, <3>1
    <3> QED
      BY <1>1, <2>1, <2>2, <2>3, <3>2 DEF Plan
  <2> QED
    BY <2>1, <2>2, <2>6
<1> QED
  BY <1>3, <1>4 DEF DiskIsTree

\* The zones of all nodes.
Reached == {c \in Id : \E x \in Nodes : c \in Zones(x.id)}

\* What they are.
LEMMA ReachedIs ==
  ASSUME NEW U, NEW r, Store(disk), Plan(disk, U, r)
  PROVE  /\ Reached \subseteq U
         /\ \A x \in Nodes : x.id \in Reached
         /\ \A c \in Reached : disk[c].type \in {"dentry", "inode"} => \E x \in Nodes : x.id = c
         /\ \A c \in Reached : disk[c].type = "data" <=>
              \E x \in Nodes : c \in Zones(x.id) \ {x.id}
         /\ \A c : \A x \in Nodes : c \in Zones(x.id) \ {x.id} =>
              c \in Reached /\ \E i : Pt(disk[x.id], i, c)
<1>1. ASSUME NEW x \in Nodes
      PROVE  /\ x.id \in U /\ x.id \in Id /\ disk[x.id].type \in {"dentry", "inode"}
             /\ \A z : z \in Zones(x.id) <=>
                         z = x.id \/ (disk[x.id].type = "inode" /\ \E i : Pt(disk[x.id], i, z))
             /\ \A z \in Zones(x.id) \ {x.id} : z \in U /\ z \in Id /\ disk[z].type = "data"
  <2>1. x.id \in U /\ x.id \in Id /\ disk[x.id].type \in {"dentry", "inode"}
    BY NodeIs
  <2>2. PICK a : a = x.id
    OBVIOUS
  <2>3. /\ \A z : z \in Zones(a) <=> z = a \/ (disk[a].type = "inode" /\ \E i : Pt(disk[a], i, z))
        /\ \A z \in Zones(a) \ {a} : z \in U /\ z \in Id /\ disk[z].type = "data"
    BY <2>1, <2>2, ZonesAre
  <2> QED
    BY <2>1, <2>2, <2>3
<1>2. Reached \subseteq U
  BY <1>1 DEF Reached
<1>3. \A x \in Nodes : x.id \in Reached
  BY <1>1 DEF Reached
<1>4. \A c \in Reached : disk[c].type \in {"dentry", "inode"} => \E x \in Nodes : x.id = c
  BY <1>1 DEF Reached
<1>5. \A c \in Reached : disk[c].type = "data" <=> \E x \in Nodes : c \in Zones(x.id) \ {x.id}
  BY <1>1 DEF Reached
<1>6. \A c : \A x \in Nodes : c \in Zones(x.id) \ {x.id} =>
        c \in Reached /\ \E i : Pt(disk[x.id], i, c)
  BY <1>1 DEF Reached
<1> QED
  BY <1>2, <1>3, <1>4, <1>5, <1>6

\* They are a tree of their own.
LEMMA ReachedPlan ==
  ASSUME NEW U, NEW r, Store(disk), Plan(disk, U, r)
  PROVE  \E q : Plan(disk, Reached, q) /\ Held(disk, Reached)
<1>1. /\ Reached \subseteq U
      /\ \A x \in Nodes : x.id \in Reached
      /\ \A c \in Reached : disk[c].type \in {"dentry", "inode"} => \E x \in Nodes : x.id = c
      /\ \A c \in Reached : disk[c].type = "data" <=>
           \E x \in Nodes : c \in Zones(x.id) \ {x.id}
      /\ \A c : \A x \in Nodes : c \in Zones(x.id) \ {x.id} =>
           c \in Reached /\ \E i : Pt(disk[x.id], i, c)
  BY ReachedIs
<1>2. /\ U \subseteq Id /\ Root \in U
      /\ r \in [U -> Nat] /\ r[Root] = 0 /\ disk[Root].type = "dentry"
      /\ \A x \in U : disk[x].type \in {"dentry", "inode", "data"}
      /\ \A x \in U : \A i, c : Pt(disk[x], i, c) => c \in U /\ Kid(disk, x, c, r)
      /\ \A x, y \in U : \A i, j, c : Pt(disk[x], i, c) /\ Pt(disk[y], j, c) => x = y /\ i = j
  BY DEF Plan
<1>3. Root \in Reached
  <2>1. [at |-> <<>>, id |-> Root].id = Root
    OBVIOUS
  <2> QED
    BY <1>1, <2>1, RootNode
<1>4. ASSUME NEW a \in Reached, NEW i, NEW c, Pt(disk[a], i, c)
      PROVE  c \in Reached
  <2>1. a \in U /\ a \in Id /\ c \in U /\ c \in Id
    BY <1>1, <1>2, <1>4
  <2>2. disk[a].type \in {"dentry", "inode"}
    BY <1>4 DEF Pt
  <2>3. PICK x \in Nodes : x.id = a
    BY <1>1, <2>2
  <2>4. CASE disk[a].type = "dentry"
    <3> DEFINE y == [at |-> Append(x.at, disk[a].subs[i].name), id |-> c]
    <3>1. y.id = c /\ y = [at |-> Append(x.at, disk[a].subs[i].name), id |-> y.id]
      OBVIOUS
    <3> HIDE DEF y
    <3>2. Under(x, i, y)
      BY <1>4, <2>3, <2>4, <3>1 DEF Under
    <3>3. y \in Nodes
      BY <3>2, NodeBelow
    <3> QED
      BY <1>1, <3>1, <3>3
  <2>5. CASE disk[a].type = "inode"
    <3>1. c \in Zones(a)
      BY <1>4, <2>1, <2>5, ZonesAre
    <3> QED
      BY <2>1, <2>3, <3>1 DEF Reached
  <2> QED
    BY <2>2, <2>4, <2>5
<1> DEFINE q == [c \in Reached |-> r[c]]
<1>5. q \in [Reached -> Nat] /\ \A c \in Reached : q[c] = r[c]
  BY <1>1, <1>2
<1> HIDE DEF q
<1>6. Plan(disk, Reached, q)
  <2>1. Reached \subseteq Id /\ q[Root] = 0
    BY <1>1, <1>2, <1>3, <1>5
  <2>2. \A x \in Reached : disk[x].type \in {"dentry", "inode", "data"}
    BY <1>1, <1>2
  <2>3. \A x \in Reached : \A i, c : Pt(disk[x], i, c) => c \in Reached /\ Kid(disk, x, c, q)
    <3> SUFFICES ASSUME NEW x \in Reached, NEW i, NEW c, Pt(disk[x], i, c)
                 PROVE  c \in Reached /\ Kid(disk, x, c, q)
      OBVIOUS
    <3>1. c \in Reached
      BY <1>4
    <3>2. Kid(disk, x, c, r)
      BY <1>1, <1>2
    <3>3. q[x] = r[x] /\ q[c] = r[c]
      BY <1>5, <3>1
    <3> QED
      BY <3>1, <3>2, <3>3 DEF Kid
  <2>4. \A x, y \in Reached : \A i, j, c :
          Pt(disk[x], i, c) /\ Pt(disk[y], j, c) => x = y /\ i = j
    BY <1>1, <1>2
  <2> QED
    BY <1>2, <1>3, <1>5, <2>1, <2>2, <2>3, <2>4 DEF Plan
<1>7. ASSUME NEW c \in Reached \ {Root}
      PROVE  \E a \in Reached : \E i : Pt(disk[a], i, c)
  <2>1. disk[c].type \in {"dentry", "inode", "data"}
    BY <1>1, <1>2
  <2>2. CASE disk[c].type = "data"
    BY <1>1, <2>2
  <2>3. CASE disk[c].type \in {"dentry", "inode"}
    <3>1. PICK x \in Nodes : x.id = c
      BY <1>1, <2>3
    <3>2. x # [at |-> <<>>, id |-> Root]
      BY <3>1
    <3>3. PICK v \in Nodes : \E i : Under(v, i, x)
      BY <3>2, NodeAbove
    <3> QED
      BY <1>1, <3>1, <3>3 DEF Under
  <2> QED
    BY <2>1, <2>2, <2>3
<1> QED
  BY <1>6, <1>7 DEF Held

\* A tree without loose zones is all reached.
LEMMA HeldReached ==
  ASSUME NEW U, NEW r, Store(disk), Plan(disk, U, r), Held(disk, U)
  PROVE  U = Reached
<1>1. /\ Reached \subseteq U
      /\ \A x \in Nodes : x.id \in Reached
  BY ReachedIs
<1>2. /\ U \subseteq Id /\ Root \in U
      /\ r \in [U -> Nat] /\ r[Root] = 0 /\ disk[Root].type = "dentry"
      /\ \A x \in U : disk[x].type \in {"dentry", "inode", "data"}
      /\ \A x \in U : \A i, c : Pt(disk[x], i, c) => c \in U /\ Kid(disk, x, c, r)
  BY DEF Plan
<1> DEFINE T == {n \in Nat : \A c \in U : r[c] = n /\ disk[c].type \in {"dentry", "inode"} =>
                               \E x \in Nodes : x.id = c}
<1>3. ASSUME NEW c \in U, c # Root, disk[c].type \in {"dentry", "inode"}
      PROVE  \E a \in U : /\ disk[a].type = "dentry" /\ r[c] = r[a] + 1 /\ r[a] \in Nat
                          /\ (\E x \in Nodes : x.id = a) => \E x \in Nodes : x.id = c
  <2>1. PICK a \in U : \E i : Pt(disk[a], i, c)
    BY <1>3 DEF Held
  <2>2. PICK i : Pt(disk[a], i, c)
    BY <2>1
  <2>3. Kid(disk, a, c, r) /\ disk[a].type \in {"dentry", "inode"}
    BY <1>2, <2>2 DEF Pt
  <2>4. disk[a].type = "dentry" /\ r[c] = r[a] + 1 /\ r[a] \in Nat
    BY <1>2, <1>3, <2>3 DEF Kid
  <2>5. ASSUME NEW x \in Nodes, x.id = a
        PROVE  \E y \in Nodes : y.id = c
    <3> DEFINE y == [at |-> Append(x.at, disk[a].subs[i].name), id |-> c]
    <3>1. y.id = c /\ y = [at |-> Append(x.at, disk[a].subs[i].name), id |-> y.id]
      OBVIOUS
    <3> HIDE DEF y
    <3>2. Under(x, i, y)
      BY <2>2, <2>4, <2>5, <3>1 DEF Under
    <3>3. y \in Nodes
      BY <3>2, NodeBelow
    <3> QED
      BY <3>1, <3>3
  <2> QED
    BY <2>4, <2>5
<1>4. 0 \in T
  <2> SUFFICES ASSUME NEW c \in U, r[c] = 0, disk[c].type \in {"dentry", "inode"}
               PROVE  \E x \in Nodes : x.id = c
    OBVIOUS
  <2>1. c = Root
    BY <1>3
  <2>2. [at |-> <<>>, id |-> Root].id = Root
    OBVIOUS
  <2> QED
    BY <2>1, <2>2, RootNode
<1>5. ASSUME NEW n \in Nat, n \in T
      PROVE  n + 1 \in T
  <2> SUFFICES ASSUME NEW c \in U, r[c] = n + 1, disk[c].type \in {"dentry", "inode"}
               PROVE  \E x \in Nodes : x.id = c
    OBVIOUS
  <2>1. c # Root
    BY <1>2
  <2>2. PICK a \in U : /\ disk[a].type = "dentry" /\ r[c] = r[a] + 1 /\ r[a] \in Nat
                       /\ (\E x \in Nodes : x.id = a) => \E x \in Nodes : x.id = c
    BY <1>3, <2>1
  <2>3. r[a] = n
    BY <2>2
  <2> QED
    BY <1>5, <2>2, <2>3
<1>6. Nat \subseteq T
  <2> HIDE DEF T
  <2> QED
    BY <1>4, <1>5, Induct
<1>7. ASSUME NEW c \in U, disk[c].type \in {"dentry", "inode"}
      PROVE  \E x \in Nodes : x.id = c
  <2>1. r[c] \in T
    <3> HIDE DEF T
    <3> QED
      BY <1>2, <1>6
  <2> QED
    BY <1>7, <2>1
<1> HIDE DEF T
<1>8. ASSUME NEW c \in U
      PROVE  c \in Reached
  <2>1. CASE disk[c].type \in {"dentry", "inode"}
    BY <1>1, <1>7, <2>1
  <2>2. CASE disk[c].type = "data"
    <3>1. c # Root
      BY <1>2, <2>2
    <3>6. PICK a \in U : \E i : Pt(disk[a], i, c)
      BY <3>1 DEF Held
    <3>2. PICK i : Pt(disk[a], i, c)
      BY <3>6
    <3>3. disk[a].type = "inode"
      <4>1. Kid(disk, a, c, r) /\ disk[a].type \in {"dentry", "inode"}
        BY <1>2, <3>2 DEF Pt
      <4> QED
        BY <2>2, <4>1 DEF Kid
    <3>4. PICK x \in Nodes : x.id = a
      BY <1>7, <3>3
    <3>5. c \in Zones(a)
      BY <3>2, <3>3, ZonesAre
    <3> QED
      BY <1>2, <3>4, <3>5 DEF Reached
  <2> QED
    BY <1>2, <2>1, <2>2
<1> QED
  BY <1>1, <1>8

\* States describe the disk that say what each zone reached is.
LEMMA DescribesIs ==
  ASSUME NEW U, NEW r, Store(disk), Plan(disk, U, r), NEW st
  PROVE  Describes(st) <=> Tally(st, disk, Reached)
<1>1. /\ Reached \subseteq U
      /\ \A x \in Nodes : x.id \in Reached
      /\ \A c \in Reached : disk[c].type \in {"dentry", "inode"} => \E x \in Nodes : x.id = c
      /\ \A c \in Reached : disk[c].type = "data" <=>
           \E x \in Nodes : c \in Zones(x.id) \ {x.id}
      /\ \A c : \A x \in Nodes : c \in Zones(x.id) \ {x.id} =>
           c \in Reached /\ \E i : Pt(disk[x.id], i, c)
  BY ReachedIs
<1>2. \A c \in Reached : disk[c].type \in {"dentry", "inode", "data"}
  BY <1>1 DEF Plan
<1>3. ASSUME NEW c \in Id
      PROVE  /\ c \in Reached /\ disk[c].type = "dentry" <=>
                  \E x \in Nodes : x.id = c /\ disk[c].type = "dentry"
             /\ c \in Reached /\ disk[c].type = "inode" <=>
                  \E x \in Nodes : x.id = c /\ disk[c].type = "inode"
             /\ c \in Reached /\ disk[c].type = "data" <=>
                  \E x \in Nodes : c \in Zones(x.id) \ {x.id}
  BY <1>1
<1>4. ASSUME NEW c \in Id
      PROVE  (st[c] = CASE \E x \in Nodes : x.id = c /\ disk[c].type = "dentry" -> D_OCCUPIED
                        [] \E x \in Nodes : x.id = c /\ disk[c].type = "inode"  -> I_OCCUPIED
                        [] \E x \in Nodes : c \in Zones(x.id) \ {x.id}          -> F_OCCUPIED
                        [] OTHER                                                -> UNOCCUPIED)
             <=>
             (/\ c \notin Reached => st[c] = UNOCCUPIED
              /\ c \in Reached /\ disk[c].type = "dentry" => st[c] = D_OCCUPIED
              /\ c \in Reached /\ disk[c].type = "inode" => st[c] = I_OCCUPIED
              /\ c \in Reached /\ disk[c].type = "data" => st[c] = F_OCCUPIED)
  <2> DEFINE A == \E x \in Nodes : x.id = c /\ disk[c].type = "dentry"
             B == \E x \in Nodes : x.id = c /\ disk[c].type = "inode"
             C == \E x \in Nodes : c \in Zones(x.id) \ {x.id}
  <2>1. /\ A <=> c \in Reached /\ disk[c].type = "dentry"
        /\ B <=> c \in Reached /\ disk[c].type = "inode"
        /\ C <=> c \in Reached /\ disk[c].type = "data"
    BY <1>3
  <2>2. c \notin Reached \/ disk[c].type \in {"dentry", "inode", "data"}
    BY <1>2
  <2>3. (st[c] = CASE A -> D_OCCUPIED [] B -> I_OCCUPIED [] C -> F_OCCUPIED [] OTHER -> UNOCCUPIED)
        <=> (/\ c \notin Reached => st[c] = UNOCCUPIED
             /\ c \in Reached /\ disk[c].type = "dentry" => st[c] = D_OCCUPIED
             /\ c \in Reached /\ disk[c].type = "inode" => st[c] = I_OCCUPIED
             /\ c \in Reached /\ disk[c].type = "data" => st[c] = F_OCCUPIED)
    <3> HIDE DEF A, B, C
    <3> QED
      BY <2>1, <2>2
  <2> QED
    BY <2>3
<1>5. \A c \in Id : c \in Reached \/ c \notin Reached
  OBVIOUS
<1> QED
  BY <1>4 DEF Describes, Tally

-----------------------------------------------------------------------------
(* Theorems.                                                                *)

\* The disk is described by states that are those of a tree without loose
\* zones, and by no others.
LEMMA DescribedIs ==
  ASSUME Safe(disk), NEW st
  PROVE  Describes(st) <=> Whole(disk, st)
<1>1. PICK U, r : Plan(disk, U, r)
  BY DEF Safe
<1>2. Store(disk)
  BY DEF Safe
<1>3. PICK q : Plan(disk, Reached, q) /\ Held(disk, Reached)
  BY <1>1, <1>2, ReachedPlan
<1>4. Describes(st) <=> Tally(st, disk, Reached)
  BY <1>1, <1>2, DescribesIs
<1>5. ASSUME Whole(disk, st)
      PROVE  Tally(st, disk, Reached)
  <2>1. PICK V, s : Plan(disk, V, s) /\ Held(disk, V) /\ Tally(st, disk, V)
    BY <1>5 DEF Whole
  <2>2. V = Reached
    BY <1>2, <2>1, HeldReached
  <2> QED
    BY <2>1, <2>2
<1>6. Tally(st, disk, Reached) => Whole(disk, st)
  BY <1>3 DEF Whole
<1> QED
  BY <1>4, <1>5, <1>6

\* Every step of a session keeps the invariant.
LEMMA StepKeeps ==
  ASSUME Session, IInv, [MCNext]_vars
  PROVE  IInv'
<1>1. CASE \E p \in Path : MayCreate(p) /\ (touch(p) \/ mkdir(p))
  BY <1>1, MakeStep
<1>2. CASE \E p \in Path : MayRm(p) /\ rm(p)
  BY <1>2, RmStep
<1>3. CASE \E p \in Path : MayRmdir(p) /\ rmdir(p)
  BY <1>3, RmdirStep
<1>4. CASE \E p \in Path : Append_(p)
  BY <1>4, AppendStep
<1>5. CASE \E p \in Path : MayWrite(p) /\ write(p)
  BY <1>5, WriteStep
<1>6. CASE \E p \in Path : cd(p)
  BY <1>6, CdKeeps
<1>7. CASE Put
  BY <1>7, PutKeeps
<1>8. CASE exit \/ Crash
  BY <1>8, EndKeeps
<1>9. CASE MayStart /\ start
  <2>1. Safe(disk) /\ up \in {"on", "off", "dead"} /\ (up = "off" => Whole(disk, saved))
    BY DEF IInv
  <2>2. Describes(saved) <=> Whole(disk, saved)
    BY <2>1, DescribedIs
  <2>3. Whole(disk, saved)
    BY <1>9, <2>1, <2>2 DEF MayStart, Session
  <2> QED
    BY <1>9, <2>3, StartKeeps
<1>10. CASE UNCHANGED vars
  BY <1>10 DEF vars, IInv
<1> QED
  BY <1>1, <1>2, <1>3, <1>4, <1>5, <1>6, <1>7, <1>8, <1>9, <1>10 DEF MCNext

\* In every session the disk is a tree and what is left to write leads from
\* safe disk to safe disk, to the one that memory describes.
THEOREM InvHolds ==
  ASSUME Session
  PROVE  MCSpec => []IInv
<1>1. Init => IInv
  BY InitInv
<1>2. IInv /\ [MCNext]_vars => IInv'
  BY StepKeeps
<1> QED
  BY <1>1, <1>2, PTL DEF MCSpec

\* The zone where a session works.
LEMMA WhereIs ==
  ASSUME IInv, req = NONE
  PROVE  Here(disk, pwd)
<1>1. CASE up = "on"
  <2>1. PICK m : m = Memory
    OBVIOUS
  <2>2. Sound(disk, m, pwd) /\ m.zone = disk
    BY <1>1, <2>1, Idle
  <2> QED
    BY <2>2 DEF Sound
<1>2. CASE up # "on"
  <2>1. pwd = <<Root>> /\ Safe(disk)
    BY <1>2 DEF IInv
  <2>2. disk[Root].type = "dentry"
    BY <2>1 DEF Safe, Plan
  <2>3. pwd \in Seq(Id) /\ Len(pwd) = 1 /\ pwd[1] = Root
    BY <2>1, Limits
  <2> QED
    BY <2>2, <2>3 DEF Here, Way, Last
<1> QED
  BY <1>1, <1>2

\* The types of Fs.
LEMMA TypesHold ==
  ASSUME IInv
  PROVE  TypeOK
<1>1. /\ up \in {"on", "off", "dead"}
      /\ map \in [Id -> UNOCCUPIED .. I_OCCUPIED]
      /\ saved \in [Id -> UNOCCUPIED .. I_OCCUPIED]
      /\ (req # NONE) <=> (todo # <<>>)
  BY DEF IInv
<1>2. \A id \in Id : disk[id].type \in {"blank", "data", "dentry", "dzone", "inode"}
  BY FormedIs DEF IInv, Safe, Store
<1>3. \A i \in 1 .. Len(pwd) : pwd[i] \in Id
  <2>1. pwd \in Seq(Id)
    <3>1. CASE up = "on"
      BY <3>1 DEF IInv, Sound, Here, Way
    <3>2. CASE up # "on"
      <4>1. pwd = <<Root>>
        BY <3>2 DEF IInv
      <4> QED
        BY <4>1, Limits
    <3> QED
      BY <3>1, <3>2
  <2> QED
    BY <2>1
<1>4. \A i \in 1 .. Len(todo) : todo[i][1] \in Id
  <2>1. CASE up = "on"
    <3>1. PICK m : m.writes = todo /\ Sound(disk, m, pwd)
      BY <2>1 DEF IInv
    <3>2. Logged(disk, m)
      BY <3>1 DEF Sound
    <3>3. \A k \in 1 .. Len(m.writes) : m.writes[k][1] \in Id
      BY <3>2 DEF Logged
    <3> QED
      BY <3>1, <3>3
  <2>2. CASE up # "on"
    <3>1. todo = <<>>
      BY <2>2 DEF IInv
    <3>2. Len(todo) = 0
      BY <3>1
    <3> QED
      BY <3>2
  <2> QED
    BY <2>1, <2>2
<1> QED
  BY <1>1, <1>2, <1>3, <1>4 DEF TypeOK

\* The zones a directory has, and no gaps in them.
LEMMA GapsHold ==
  ASSUME Safe(disk)
  PROVE  NoGaps
<1>1. PICK U, r : Plan(disk, U, r)
  BY DEF Safe
<1>2. Store(disk)
  BY DEF Safe
<1>3. ASSUME NEW x \in Nodes, disk[x.id].type = "dentry",
             NEW z \in {y \in Chain(x.id) : IsDirZone(y)}
      PROVE  /\ \A i \in Used(disk[z]) : \A j \in 1 .. i : j \in Used(disk[z])
             /\ disk[z].next # 0 => Used(disk[z]) = DOMAIN disk[z].subs
  <2>1. PICK a, y : a = x.id /\ y = disk[a]
    OBVIOUS
  <2>2. a \in Id /\ y.type = "dentry" /\ Formed(y)
    BY <1>1, <1>2, <1>3, <2>1, NodeIs DEF Store
  <2>3. z = a
    BY <1>2, <1>3, <2>1, <2>2, ChainIs
  <2>4. y.next = 0 /\ IsSubs(y.subs)
    BY <2>2, FormedIs
  <2>5. \A i : i \in Used(y) <=> i \in Subs /\ y.subs[i].id # 0
    BY <2>2, Pointers
  <2>6. ASSUME NEW i \in Used(y), NEW j \in 1 .. i
        PROVE  j \in Used(y)
    <3>1. i \in Subs /\ y.subs[i].id # 0
      BY <2>5
    <3>2. j \in Subs /\ j <= i
      BY <3>1, Limits DEF Subs
    <3>3. y.subs[j].id # 0
      BY <2>4, <3>1, <3>2 DEF IsSubs
    <3> QED
      BY <2>5, <3>2, <3>3
  <2> QED
    BY <2>1, <2>3, <2>4, <2>6
<1> QED
  BY <1>3 DEF NoGaps

\* The bitmap between two commands.
LEMMA UsageHolds ==
  ASSUME IInv
  PROVE  UsageExact
<1> SUFFICES ASSUME up = "on", req = NONE
             PROVE  Describes(map)
  BY DEF UsageExact
<1>1. PICK m : m = Memory
  OBVIOUS
<1>2. Sound(disk, m, pwd) /\ m.zone = disk /\ m.st = map
  BY <1>1, Idle
<1>3. Whole(disk, map)
  BY <1>2 DEF Sound
<1>4. Safe(disk)
  BY DEF IInv
<1> QED
  BY <1>3, <1>4, DescribedIs

\* The working directory between two commands.
LEMMA CwdHolds ==
  ASSUME IInv
  PROVE  CwdInTree
<1> SUFFICES ASSUME req = NONE
             PROVE  /\ pwd[1] = Root
                    /\ \A i \in 2 .. Len(pwd) : \E e \in EntriesOf(pwd[i - 1]) : e.id = pwd[i]
                    /\ disk[Last(pwd)].type = "dentry"
  BY DEF CwdInTree
<1>1. Here(disk, pwd)
  BY WhereIs
<1>2. /\ pwd \in Seq(Id) /\ pwd[1] = Root /\ disk[Last(pwd)].type = "dentry"
      /\ \A k \in 2 .. Len(pwd) :
           disk[pwd[k - 1]].type = "dentry" /\ \E i : Pt(disk[pwd[k - 1]], i, pwd[k])
  BY <1>1 DEF Here, Way
<1>3. Store(disk)
  BY DEF IInv, Safe
<1>4. ASSUME NEW i \in 2 .. Len(pwd)
      PROVE  \E e \in EntriesOf(pwd[i - 1]) : e.id = pwd[i]
  <2>1. PICK x, c : x = pwd[i - 1] /\ c = pwd[i]
    OBVIOUS
  <2>2. x \in Id /\ disk[x].type = "dentry" /\ \E j : Pt(disk[x], j, c)
    BY <1>2, <2>1
  <2>3. PICK j : Pt(disk[x], j, c)
    BY <2>2
  <2>4. j \in Used(disk[x]) /\ disk[x].subs[j].id = c
        /\ EntriesOf(x) = {disk[x].subs[k] : k \in Used(disk[x])}
    BY <1>3, <2>2, <2>3, EntriesAre
  <2>5. \E e \in EntriesOf(x) : e.id = c
    BY <2>4
  <2> QED
    BY <2>1, <2>5
<1> QED
  BY <1>2, <1>4

\* Fs keeps its types.
THEOREM TypeHolds ==
  ASSUME Session
  PROVE  MCSpec => []TypeOK
<1>1. IInv => TypeOK
  BY TypesHold
<1> QED
  BY <1>1, InvHolds, PTL

\* README.md:33: the disk is a tree at every moment, also between two writes
\* of a command and after a kill.
THEOREM TreeHolds ==
  ASSUME Session
  PROVE  MCSpec => []DiskIsTree
<1>1. IInv => DiskIsTree
  BY TreeOnDisk DEF IInv
<1> QED
  BY <1>1, InvHolds, PTL

\* README.md:45: between two commands the bitmap in memory says of every zone
\* what the tree on disk says.
THEOREM UsageIsExact ==
  ASSUME Session
  PROVE  MCSpec => []UsageExact
<1>1. IInv => UsageExact
  BY UsageHolds
<1> QED
  BY <1>1, InvHolds, PTL

\* No entry of a directory lies behind a free one, where the loops of fs_lib.c
\* would not find it.
THEOREM NoGapsHold ==
  ASSUME Session
  PROVE  MCSpec => []NoGaps
<1>1. IInv => NoGaps
  BY GapsHold DEF IInv
<1> QED
  BY <1>1, InvHolds, PTL

\* The working directory stays a directory of the tree, reached by the way it
\* was entered.
THEOREM CwdStays ==
  ASSUME Session
  PROVE  MCSpec => []CwdInTree
<1>1. IInv => CwdInTree
  BY CwdHolds
<1> QED
  BY <1>1, InvHolds, PTL

-----------------------------------------------------------------------------
(* The size of a directory.                                                 *)

\* get_size, of sizes g for what is below.
Counted(z) == {i \in Used(z) : \A j \in 1 .. i : j \in Used(z)}
SizeOf(g, sub) == IF get_state(map, sub) = I_OCCUPIED THEN disk[sub].size ELSE g[sub]
DirSize(g, id) ==
  IF \E i \in Counted(disk[id]) :
       get_state(map, disk[id].subs[i].id) \notin {I_OCCUPIED, D_OCCUPIED}
  THEN 0
  ELSE 1 + Total([i \in Counted(disk[id]) |-> SizeOf(g, disk[id].subs[i].id)])
         + IF disk[id].next # 0 /\ Counted(disk[id]) = DOMAIN disk[id].subs
           THEN g[disk[id].next] ELSE 0
Sizes(g) == g = [id \in DirZones |-> DirSize(g, id)]

\* get_size is such sizes, if there are any.
LEMMA GetSizeIs ==
  ASSUME NEW g, Sizes(g)
  PROVE  Sizes(get_size)
<1>1. get_size = CHOOSE f : Sizes(f)
  BY Zenon DEF get_size, Sizes, DirSize, SizeOf, Counted, Total
<1> QED
  BY <1>1

\* What they are of a directory zone.
LEMMA DirSizeIs ==
  ASSUME Store(disk), NEW x \in Id, disk[x].type = "dentry", NEW g
  PROVE  /\ x \in DirZones
         /\ Counted(disk[x]) = Used(disk[x])
         /\ Used(disk[x]) \subseteq Subs /\ IsFiniteSet(Used(disk[x]))
         /\ \A i \in Used(disk[x]) : disk[x].subs[i].id \in Id /\ Pt(disk[x], i, disk[x].subs[i].id)
         /\ \A c : (\E i : Pt(disk[x], i, c)) <=> \E i \in Used(disk[x]) : disk[x].subs[i].id = c
         /\ DirSize(g, x) =
              IF \E i \in Used(disk[x]) :
                   get_state(map, disk[x].subs[i].id) \notin {I_OCCUPIED, D_OCCUPIED}
              THEN 0
              ELSE 1 + Total([i \in Used(disk[x]) |-> SizeOf(g, disk[x].subs[i].id)]) + 0
<1>1. PICK z : z = disk[x]
  OBVIOUS
<1>2. Formed(z) /\ z.type = "dentry"
  BY <1>1 DEF Store
<1>3. z.next = 0 /\ IsSubs(z.subs)
  BY <1>2, FormedIs
<1>4. /\ \A i : i \in Used(z) <=> i \in Subs /\ z.subs[i].id # 0
      /\ \A i \in Used(z) : z.subs[i].id \in Id /\ Pt(z, i, z.subs[i].id)
      /\ \A i, c : Pt(z, i, c) <=> i \in Subs /\ z.subs[i].id = c /\ c # 0
  BY <1>2, Pointers
<1>5. Counted(z) = Used(z)
  <2>1. ASSUME NEW i \in Used(z), NEW j \in 1 .. i
        PROVE  j \in Used(z)
    <3>1. i \in Subs /\ j \in Subs /\ j <= i
      BY <1>4, Limits DEF Subs
    <3> QED
      BY <1>3, <1>4, <2>1, <3>1 DEF IsSubs
  <2> QED
    BY <2>1 DEF Counted
<1>6. Used(z) \subseteq Subs /\ IsFiniteSet(Used(z))
  <2>1. Used(z) \subseteq Subs
    BY <1>4
  <2>2. IsFiniteSet(Subs)
    BY FS_Interval, Limits DEF Subs
  <2> QED
    BY <2>1, <2>2, FS_Subset
<1>7. x \in DirZones
  BY DEF DirZones, IsDirZone
<1>8. ~(z.next # 0 /\ Counted(z) = DOMAIN z.subs)
  BY <1>3
<1>9. DirSize(g, x) =
        IF \E i \in Used(z) : get_state(map, z.subs[i].id) \notin {I_OCCUPIED, D_OCCUPIED}
        THEN 0
        ELSE 1 + Total([i \in Used(z) |-> SizeOf(g, z.subs[i].id)]) + 0
  BY <1>1, <1>5, <1>8, Zenon DEF DirSize
<1>10. \A c : (\E i : Pt(z, i, c)) <=> \E i \in Used(z) : z.subs[i].id = c
  BY <1>4, Limits
<1> QED
  BY <1>1, <1>4, <1>5, <1>6, <1>7, <1>9, <1>10

\* The hangs of a directory have the sizes they are given.
Hung(U, g) ==
  \A x \in U : disk[x].type = "dentry" => g[x] = Cardinality(Hang(disk, U, x))

\* Of a directory in use with the right sizes below: one more, and those.
LEMMA DirHang ==
  ASSUME NEW U, NEW r, Store(disk), Plan(disk, U, r), Tally(map, disk, U),
         NEW x \in U, disk[x].type = "dentry", NEW g,
         \A y \in U : disk[y].type = "inode" => disk[y].size = 1 + Len(disk[y].ptrs),
         \A i \in Used(disk[x]) :
           disk[disk[x].subs[i].id].type = "dentry" =>
             g[disk[x].subs[i].id] = Cardinality(Hang(disk, U, disk[x].subs[i].id))
  PROVE  DirSize(g, x) = Cardinality(Hang(disk, U, x))
<1> DEFINE s == Used(disk[x])
           k(i) == disk[x].subs[i].id
           H == [i \in s |-> Hang(disk, U, k(i))]
           w == [i \in s |-> SizeOf(g, k(i))]
<1>0. U \subseteq Id /\ IsFiniteSet(U)
  <2>1. IsFiniteSet(Id)
    BY FS_Interval, Limits DEF Id
  <2> QED
    BY <2>1, FS_Subset DEF Plan
<1>1. /\ IsFiniteSet(s)
      /\ \A i \in s : k(i) \in Id /\ Pt(disk[x], i, k(i))
      /\ \A c : (\E i : Pt(disk[x], i, c)) <=> \E i \in s : k(i) = c
      /\ DirSize(g, x) =
           IF \E i \in s : get_state(map, k(i)) \notin {I_OCCUPIED, D_OCCUPIED}
           THEN 0 ELSE 1 + Total(w) + 0
  BY <1>0, DirSizeIs
<1>2. ASSUME NEW i \in s
      PROVE  /\ k(i) \in U
             /\ \/ disk[k(i)].type = "dentry" /\ get_state(map, k(i)) = D_OCCUPIED
                \/ disk[k(i)].type = "inode" /\ get_state(map, k(i)) = I_OCCUPIED
  <2>1. k(i) \in U /\ Kid(disk, x, k(i), r)
    BY <1>1 DEF Plan
  <2>2. disk[k(i)].type \in {"dentry", "inode"}
    BY <2>1 DEF Kid
  <2>3. get_state(map, k(i)) = map[k(i)]
    <3>1. PICK c : c = k(i)
      OBVIOUS
    <3>2. c \in Id
      BY <1>1, <3>1
    <3>3. ~(c < Root)
      BY <3>2, Limits
    <3>4. get_state(map, c) = map[c]
      BY <3>3 DEF get_state
    <3> QED
      BY <3>1, <3>4
  <2> QED
    BY <1>0, <2>1, <2>2, <2>3 DEF Tally
<1>3. ASSUME NEW i \in s
      PROVE  IsFiniteSet(H[i]) /\ w[i] = Cardinality(H[i])
  <2>1. H[i] \subseteq U /\ IsFiniteSet(H[i])
    <3>1. H[i] \subseteq U
      BY DEF Hang
    <3> QED
      BY <1>0, <3>1, FS_Subset
  <2>2. CASE disk[k(i)].type = "dentry" /\ get_state(map, k(i)) = D_OCCUPIED
    <3>1. w[i] = g[k(i)]
      BY <2>2 DEF SizeOf, D_OCCUPIED, I_OCCUPIED
    <3> QED
      BY <2>1, <2>2, <3>1
  <2>3. CASE disk[k(i)].type = "inode" /\ get_state(map, k(i)) = I_OCCUPIED
    <3>1. w[i] = disk[k(i)].size
      BY <2>3 DEF SizeOf
    <3>2. Cardinality(Hang(disk, U, k(i))) = 1 + Len(disk[k(i)].ptrs)
      BY <1>2, <2>3, HangFile
    <3> QED
      BY <1>2, <2>1, <2>3, <3>1, <3>2
  <2> QED
    BY <1>2, <2>2, <2>3
<1>4. ASSUME NEW i \in s, NEW j \in s, i # j
      PROVE  H[i] \cap H[j] = {}
  <2>1. Pt(disk[x], i, k(i)) /\ Pt(disk[x], j, k(j))
    BY <1>1
  <2>2. k(i) # k(j)
    <3>1. \A c : Pt(disk[x], i, c) /\ Pt(disk[x], j, c) => i = j
      BY DEF Plan
    <3> QED
      BY <1>4, <2>1, <3>1
  <2>3. Hang(disk, U, k(i)) \cap Hang(disk, U, k(j)) = {}
    BY <2>1, <2>2, HangsApart
  <2> QED
    BY <2>3
<1>5. Terms(w, s, H)
  <2>1. DOMAIN w = s
    OBVIOUS
  <2> HIDE DEF s, w, H
  <2> QED
    BY <1>1, <1>3, <1>4, <2>1 DEF Terms
<1>6. Total(w) = Cardinality(Union(H, s))
  <2> HIDE DEF s, w, H
  <2> QED
    BY <1>5, SumIs
<1>7. Hang(disk, U, x) = {x} \cup Union(H, s) /\ x \notin Union(H, s)
  <2> DEFINE t == [i \in s |-> k(i)]
  <2>1. \A i \in s : t[i] = k(i)
    OBVIOUS
  <2>2. Leading(disk[x], s, t)
    BY <1>1 DEF Leading
  <2>3. Hangs(disk, U, s, t, H)
    BY <2>1 DEF Hangs
  <2> HIDE DEF s, t, H
  <2> QED
    BY <2>2, <2>3, HangParts
<1>8. Cardinality(Hang(disk, U, x)) = Cardinality(Union(H, s)) + 1 /\ Cardinality(Union(H, s)) \in Nat
  <2>1. IsFiniteSet(Union(H, s))
    BY <1>5, UnionFinite
  <2> HIDE DEF s, H
  <2> QED
    BY <1>7, <2>1, FS_AddElement, FS_CardinalityType
<1>9. ~\E i \in s : get_state(map, k(i)) \notin {I_OCCUPIED, D_OCCUPIED}
  BY <1>2
<1>10. DirSize(g, x) = 1 + Total(w) + 0
  BY <1>1, <1>9
<1> HIDE DEF w, H, s
<1>11. DirSize(g, x) = 1 + Cardinality(Union(H, s)) + 0
  BY <1>6, <1>10, Zenon
<1> QED
  BY <1>8, <1>11

\* All files have the size of what they point to.
FilesSized(U) == \A y \in U : disk[y].type = "inode" => disk[y].size = 1 + Len(disk[y].ptrs)

\* There are such sizes, for the directories of no use too.
LEMMA SizesExist ==
  ASSUME NEW U, NEW r, Store(disk), Plan(disk, U, r), Tally(map, disk, U), FilesSized(U)
  PROVE  \E g : Sizes(g)
<1> DEFINE c == [id \in DirZones |-> Cardinality(Hang(disk, U, id))]
           g == [id \in DirZones |-> DirSize(c, id)]
<1>1. ASSUME NEW x \in U, disk[x].type = "dentry"
      PROVE  x \in DirZones /\ c[x] = Cardinality(Hang(disk, U, x))
  <2>1. x \in Id
    BY DEF Plan
  <2>2. x \in DirZones
    BY <1>1, <2>1 DEF DirZones, IsDirZone
  <2> QED
    BY <2>2
<1>2. ASSUME NEW x \in U, disk[x].type = "dentry"
      PROVE  g[x] = c[x]
  <2>1. ASSUME NEW i \in Used(disk[x]), disk[disk[x].subs[i].id].type = "dentry"
        PROVE  c[disk[x].subs[i].id] = Cardinality(Hang(disk, U, disk[x].subs[i].id))
    <3>1. PICK y : y = disk[x].subs[i].id
      OBVIOUS
    <3>2. x \in Id
      BY DEF Plan
    <3>3. Pt(disk[x], i, y)
      BY <1>2, <3>1, <3>2, DirSizeIs
    <3>4. y \in U
      BY <3>3 DEF Plan
    <3> QED
      BY <1>1, <2>1, <3>1, <3>4
  <2>2. DirSize(c, x) = Cardinality(Hang(disk, U, x))
    <3> HIDE DEF c
    <3> QED
      BY <1>2, <2>1, DirHang DEF FilesSized
  <2> QED
    BY <1>1, <1>2, <2>2
<1>3. ASSUME NEW x \in DirZones
      PROVE  DirSize(g, x) = DirSize(c, x)
  <2>1. x \in Id /\ disk[x].type = "dentry"
    <3>1. Formed(disk[x]) /\ x \in Id /\ disk[x].type \in {"dentry", "dzone"}
      BY DEF DirZones, IsDirZone, Store
    <3> QED
      BY <3>1, FormedIs
  <2> DEFINE s == Used(disk[x])
             k(i) == disk[x].subs[i].id
             bad == \E i \in s : get_state(map, k(i)) \notin {I_OCCUPIED, D_OCCUPIED}
  <2>2. /\ \A i \in s : k(i) \in Id
        /\ DirSize(g, x) = IF bad THEN 0 ELSE 1 + Total([i \in s |-> SizeOf(g, k(i))]) + 0
        /\ DirSize(c, x) = IF bad THEN 0 ELSE 1 + Total([i \in s |-> SizeOf(c, k(i))]) + 0
    <3> HIDE DEF g, c
    <3> QED
      BY <2>1, DirSizeIs
  <2>3. ASSUME ~bad, NEW i \in s
        PROVE  SizeOf(g, k(i)) = SizeOf(c, k(i))
    <3>1. PICK y : y = k(i)
      OBVIOUS
    <3>2. y \in Id /\ get_state(map, y) \in {I_OCCUPIED, D_OCCUPIED}
      BY <2>2, <2>3, <3>1
    <3>3. get_state(map, y) = map[y]
      <4>1. ~(y < Root)
        BY <3>2, Limits
      <4> QED
        BY <4>1 DEF get_state
    <3>4. CASE map[y] = I_OCCUPIED
      <4>1. SizeOf(g, y) = disk[y].size /\ SizeOf(c, y) = disk[y].size
        BY <3>3, <3>4 DEF SizeOf
      <4> QED
        BY <3>1, <4>1
    <3>5. CASE map[y] = D_OCCUPIED
      <4>1. y \in U /\ disk[y].type = "dentry"
        BY <3>2, <3>5 DEF Tally, Plan, UNOCCUPIED, D_OCCUPIED, I_OCCUPIED, F_OCCUPIED
      <4>2. g[y] = c[y]
        BY <1>2, <4>1
      <4>3. SizeOf(g, y) = g[y] /\ SizeOf(c, y) = c[y]
        BY <3>3, <3>5 DEF SizeOf, D_OCCUPIED, I_OCCUPIED
      <4> QED
        BY <3>1, <4>2, <4>3
    <3> QED
      BY <3>2, <3>3, <3>4, <3>5
  <2>4. ~bad => [i \in s |-> SizeOf(g, k(i))] = [i \in s |-> SizeOf(c, k(i))]
    <3> HIDE DEF bad, g, c, s
    <3> QED
      BY <2>3
  <2> HIDE DEF bad, g, c, s
  <2> QED
    BY <2>2, <2>4
<1>4. g = [id \in DirZones |-> DirSize(g, id)]
  <2>1. \A id \in DirZones : g[id] = DirSize(c, id)
    OBVIOUS
  <2>2. g = [id \in DirZones |-> g[id]]
    OBVIOUS
  <2> HIDE DEF g, c
  <2> QED
    BY <1>3, <2>1, <2>2
<1> HIDE DEF g
<1> QED
  BY <1>4 DEF Sizes

\* Less hangs below an entry of a directory than below it.
LEMMA HangLess ==
  ASSUME NEW d, NEW U, NEW r, Plan(d, U, r), NEW x \in U, d[x].type = "dentry",
         NEW i, NEW y, Pt(d[x], i, y)
  PROVE  /\ y \in U
         /\ Cardinality(Hang(d, U, y)) \in Nat /\ Cardinality(Hang(d, U, x)) \in Nat
         /\ Cardinality(Hang(d, U, y)) < Cardinality(Hang(d, U, x))
<1>1. y \in U /\ Kid(d, x, y, r) /\ r \in [U -> Nat] /\ U \subseteq Id
  BY DEF Plan
<1>2. d[y].type \in {"dentry", "inode"} /\ r[y] = r[x] + 1
  BY <1>1 DEF Kid
<1>3. PICK A, B : A = Hang(d, U, y) /\ B = Hang(d, U, x)
  OBVIOUS
<1>4. x \notin A
  <2>1. r[x] \in Nat /\ ~(r[y] <= r[x])
    BY <1>1, <1>2
  <2> QED
    BY <1>1, <1>2, <1>3, <2>1, HangLow
<1>5. x \in B /\ y \in B /\ B \subseteq U /\ Onward(d, B)
  <2>1. x \in B /\ B \subseteq U /\ Onward(d, B)
    BY <1>3, HangIs
  <2> QED
    BY <2>1 DEF Onward
<1>6. A \subseteq B
  BY <1>1, <1>3, <1>5, HangIs
<1>7. IsFiniteSet(B)
  <2>1. IsFiniteSet(Id)
    BY FS_Interval, Limits DEF Id
  <2> QED
    BY <1>1, <1>5, <2>1, FS_Subset
<1>8. IsFiniteSet(A) /\ Cardinality(A) <= Cardinality(B) /\ Cardinality(A) # Cardinality(B)
  BY <1>4, <1>5, <1>6, <1>7, FS_Subset
<1>9. Cardinality(A) \in Nat /\ Cardinality(B) \in Nat
  BY <1>7, <1>8, FS_CardinalityType
<1> QED
  BY <1>1, <1>3, <1>8, <1>9

\* get_size is the size of what hangs there.
LEMMA SizesHang ==
  ASSUME NEW U, NEW r, Store(disk), Plan(disk, U, r), Tally(map, disk, U), FilesSized(U)
  PROVE  \A x \in U : disk[x].type = "dentry" => get_size[x] = Cardinality(Hang(disk, U, x))
<1>1. PICK f : f = get_size
  OBVIOUS
<1>2. Sizes(f)
  BY <1>1, SizesExist, GetSizeIs
<1> DEFINE Bad == {x \in U : disk[x].type = "dentry" /\ f[x] # Cardinality(Hang(disk, U, x))}
           T == {Cardinality(Hang(disk, U, x)) : x \in Bad}
<1>3. T \subseteq Nat
  <2>1. IsFiniteSet(Id)
    BY FS_Interval, Limits DEF Id
  <2>2. ASSUME NEW x \in U
        PROVE  Cardinality(Hang(disk, U, x)) \in Nat
    <3>1. Hang(disk, U, x) \subseteq Id
      BY DEF Hang, Plan
    <3> QED
      BY <2>1, <3>1, FS_Subset, FS_CardinalityType
  <2> QED
    BY <2>2
<1>4. ASSUME NEW x \in Bad, \A n \in T : Cardinality(Hang(disk, U, x)) <= n
      PROVE  FALSE
  <2>1. x \in U /\ x \in Id /\ disk[x].type = "dentry" /\ f[x] # Cardinality(Hang(disk, U, x))
    BY DEF Plan
  <2>2. ASSUME NEW i \in Used(disk[x]), disk[disk[x].subs[i].id].type = "dentry"
        PROVE  f[disk[x].subs[i].id] = Cardinality(Hang(disk, U, disk[x].subs[i].id))
    <3>1. PICK y : y = disk[x].subs[i].id
      OBVIOUS
    <3>2. Pt(disk[x], i, y)
      BY <2>1, <3>1, DirSizeIs
    <3>3. /\ y \in U
          /\ Cardinality(Hang(disk, U, y)) \in Nat /\ Cardinality(Hang(disk, U, x)) \in Nat
          /\ Cardinality(Hang(disk, U, y)) < Cardinality(Hang(disk, U, x))
      BY <2>1, <3>2, HangLess
    <3>4. Cardinality(Hang(disk, U, y)) \notin T
      <4> HIDE DEF T
      <4> QED
        BY <1>4, <3>3
    <3>5. y \notin Bad
      BY <3>4
    <3> QED
      BY <2>2, <3>1, <3>3, <3>5
  <2>3. DirSize(f, x) = Cardinality(Hang(disk, U, x))
    BY <2>1, <2>2, DirHang DEF FilesSized
  <2>4. f[x] = DirSize(f, x)
    <3>1. x \in DirZones
      BY <2>1, DirSizeIs
    <3> QED
      BY <1>2, <3>1 DEF Sizes
  <2> QED
    BY <2>1, <2>3, <2>4
<1>5. T = {}
  <2> SUFFICES ASSUME T # {}
               PROVE  FALSE
    OBVIOUS
  <2>1. PICK n \in T : \A k \in T : n <= k
    <3> HIDE DEF T
    <3> QED
      BY <1>3, LeastNat
  <2>2. PICK x \in Bad : n = Cardinality(Hang(disk, U, x))
    BY <2>1
  <2> HIDE DEF T, Bad
  <2> QED
    BY <1>4, <2>1, <2>2
<1>6. Bad = {}
  BY <1>5
<1> QED
  BY <1>1, <1>6

\* What ls shows of the root between two commands.
LEMMA ListedHolds ==
  ASSUME IInv
  PROVE  ListedSize
<1> SUFFICES ASSUME up = "on", req = NONE,
                    \A x \in Nodes : disk[x.id].type = "inode" =>
                      disk[x.id].size = 1 + Len(disk[x.id].ptrs)
             PROVE  get_size[Root] = Cardinality({id \in Id : map[id] # UNOCCUPIED})
  BY DEF ListedSize
<1>1. PICK m : m = Memory
  OBVIOUS
<1>2. Sound(disk, m, pwd) /\ m.zone = disk /\ m.st = map
  BY <1>1, Idle
<1>3. Whole(disk, map) /\ Store(disk)
  BY <1>2 DEF Sound, IsMemory
<1>4. PICK U, r : Plan(disk, U, r) /\ Held(disk, U) /\ Tally(map, disk, U)
  BY <1>3 DEF Whole
<1>5. FilesSized(U)
  <2>1. U = Reached
    BY <1>3, <1>4, HeldReached
  <2>2. \A y \in U : disk[y].type = "inode" => \E x \in Nodes : x.id = y
    BY <1>3, <1>4, <2>1, ReachedIs
  <2> QED
    BY <2>2 DEF FilesSized
<1>6. Root \in U /\ disk[Root].type = "dentry" /\ U \subseteq Id
  BY <1>4 DEF Plan
<1>7. get_size[Root] = Cardinality(Hang(disk, U, Root))
  BY <1>3, <1>4, <1>5, <1>6, SizesHang
<1>8. Hang(disk, U, Root) = U
  BY <1>4, HangAll
<1>9. {id \in Id : map[id] # UNOCCUPIED} = U
  <2>1. \A x \in U : disk[x].type \in {"dentry", "inode", "data"}
    BY <1>4 DEF Plan
  <2> QED
    BY <1>4, <1>6, <2>1 DEF Tally, UNOCCUPIED, D_OCCUPIED, I_OCCUPIED, F_OCCUPIED
<1> QED
  BY <1>7, <1>8, <1>9

\* fs_lib.c:478: the size ls shows of the root, which get_size adds up down the
\* tree, is the number of zones taken, if every file's own size is right.
THEOREM SizesListed ==
  ASSUME Session
  PROVE  MCSpec => []ListedSize
<1>1. IInv => ListedSize
  BY ListedHolds
<1> QED
  BY <1>1, InvHolds, PTL

-----------------------------------------------------------------------------
(* The user's view of the disk.                                             *)

\* x is a node with the names that lead to it.
AtNode(x) ==
  x = [at |-> x.at, id |-> x.id] /\ \E s : Spelled(disk, s, x.at) /\ Last(s) = x.id

\* The root is reached by no names.
LEMMA RootSpelled ==
  ASSUME NEW d
  PROVE  Spelled(d, <<Root>>, <<>>) /\ Last(<<Root>>) = Root
<1>1. <<Root>> \in Seq(Id) /\ <<>> \in Seq(STRING) /\ Len(<<Root>>) = Len(<<>>) + 1
  BY Limits
<1>2. \A k \in 1 .. Len(<<>>) : FALSE
  OBVIOUS
<1>3. <<Root>>[1] = Root /\ Last(<<Root>>) = Root
  BY DEF Last
<1> QED
  BY <1>1, <1>2, <1>3 DEF Spelled

\* One level further.
LEMMA UnderSpelled ==
  ASSUME Store(disk), NEW x, x.id \in Id, AtNode(x), NEW i, NEW y, Under(x, i, y)
  PROVE  AtNode(y)
<1>1. PICK s : Spelled(disk, s, x.at) /\ Last(s) = x.id
  BY DEF AtNode
<1>2. PICK n, c : n = disk[x.id].subs[i].name /\ c = y.id
  OBVIOUS
<1>3. disk[x.id].type = "dentry" /\ Pt(disk[x.id], i, c) /\ y = [at |-> Append(x.at, n), id |-> c]
  BY <1>2 DEF Under
<1>4. Formed(disk[x.id])
  BY DEF Store
<1>5. Ent(disk[x.id], n, c)
  BY <1>2, <1>3, <1>4, EntIs
<1>6. Spelled(disk, Append(s, c), Append(x.at, n)) /\ Last(Append(s, c)) = c
  BY <1>1, <1>5, SpelledFurther
<1>7. y.at = Append(x.at, n) /\ y.id = c /\ y = [at |-> y.at, id |-> y.id]
  BY <1>3
<1> QED
  BY <1>6, <1>7 DEF AtNode

\* Every node has names that lead to it.
LEMMA NodesSpelled ==
  ASSUME NEW U, NEW r, Store(disk), Plan(disk, U, r)
  PROVE  \A x \in Nodes : x.id \in Id /\ AtNode(x)
<1>1. PICK f : Levels(f)
  BY LevelsAre
<1>2. \A n \in 0 .. MAX_ID - Root : \A x \in f[n] : Deep(U, r, x, n)
  BY <1>1, LevelIs
<1> DEFINE T == {n \in 0 .. MAX_ID - Root : \A x \in f[n] : AtNode(x)}
<1>3. MAX_ID - Root \in Nat
  BY Limits
<1>4. 0 \in T
  <2> SUFFICES ASSUME NEW x \in f[0]
               PROVE  AtNode(x)
    BY <1>3
  <2>1. x = [at |-> <<>>, id |-> Root]
    BY <1>1 DEF Levels
  <2>2. x.at = <<>> /\ x.id = Root
    BY <2>1
  <2> QED
    BY <2>1, <2>2, RootSpelled DEF AtNode
<1>5. ASSUME NEW n \in 0 .. MAX_ID - Root - 1, n \in T
      PROVE  n + 1 \in T
  <2>1. n + 1 \in 0 .. MAX_ID - Root /\ n \in 0 .. MAX_ID - Root
    BY <1>3
  <2> SUFFICES ASSUME NEW y \in f[n + 1]
               PROVE  AtNode(y)
    BY <2>1
  <2>2. \A x \in f[n] : Deep(U, r, x, n)
    BY <1>2, <2>1
  <2>3. PICK x \in f[n] : \E i : Under(x, i, y)
    BY <1>1, <2>2, LevelUp
  <2>4. PICK i : Under(x, i, y)
    BY <2>3
  <2>5. x.id \in Id /\ AtNode(x)
    BY <1>5, <2>2 DEF Deep
  <2> QED
    BY <2>4, <2>5, UnderSpelled
<1>6. 0 .. MAX_ID - Root \subseteq T
  <2> HIDE DEF T
  <2> QED
    BY <1>3, <1>4, <1>5, InductTo
<1>7. ASSUME NEW x \in Nodes
      PROVE  x.id \in Id /\ AtNode(x)
  <2>1. PICK n \in 0 .. MAX_ID - Root : x \in f[n]
    BY <1>1 DEF Levels
  <2>2. Deep(U, r, x, n) /\ n \in T
    BY <1>2, <1>6, <2>1
  <2> QED
    BY <2>1, <2>2 DEF Deep
<1> QED
  BY <1>7

\* Names lead to nodes.
LEMMA SpelledNodes ==
  ASSUME NEW U, NEW r, Store(disk), Plan(disk, U, r)
  PROVE  \A s, w : Spelled(disk, s, w) => [at |-> w, id |-> Last(s)] \in Nodes
<1> DEFINE T == {n \in Nat : \A s, w : Spelled(disk, s, w) /\ Len(w) = n =>
                               [at |-> w, id |-> Last(s)] \in Nodes}
<1>1. 0 \in T
  <2> SUFFICES ASSUME NEW s, NEW w, Spelled(disk, s, w), Len(w) = 0
               PROVE  [at |-> w, id |-> Last(s)] \in Nodes
    OBVIOUS
  <2>1. w = <<>> /\ Last(s) = Root
    BY DEF Spelled, Last
  <2> QED
    BY <2>1, RootNode
<1>2. ASSUME NEW n \in Nat, n \in T
      PROVE  n + 1 \in T
  <2> SUFFICES ASSUME NEW s, NEW w, Spelled(disk, s, w), Len(w) = n + 1
               PROVE  [at |-> w, id |-> Last(s)] \in Nodes
    OBVIOUS
  <2>1. w \in Seq(STRING) /\ w # <<>> /\ Len(Front(w)) = n
    <3>1. w \in Seq(STRING) /\ w # <<>> /\ Len(w) - 1 = n
      BY DEF Spelled
    <3> QED
      BY <3>1, FrontParts
  <2>2. PICK t, v, name, c : t = Front(s) /\ v = Front(w) /\ name = Last(w) /\ c = Last(s)
    OBVIOUS
  <2>3. Spelled(disk, t, v) /\ Ent(disk[Last(t)], name, c) /\ w = Append(v, name)
    BY <2>1, <2>2, SpelledFront
  <2>4. PICK x : x = [at |-> v, id |-> Last(t)]
    OBVIOUS
  <2>5. x \in Nodes /\ x.at = v /\ x.id = Last(t)
    BY <1>2, <2>1, <2>2, <2>3, <2>4
  <2>6. x.id \in Id
    BY <2>5, NodeIs
  <2>7. Formed(disk[x.id])
    BY <2>6 DEF Store
  <2>8. PICK i \in Subs : Pt(disk[x.id], i, c) /\ disk[x.id].subs[i].name = name
    BY <2>3, <2>5, <2>7, EntIs
  <2>9. disk[x.id].type = "dentry"
    BY <2>3, <2>5, <2>7, EntIs
  <2>10. PICK y : y = [at |-> w, id |-> c]
    OBVIOUS
  <2>11. Under(x, i, y)
    BY <2>3, <2>5, <2>8, <2>9, <2>10 DEF Under
  <2>12. y \in Nodes
    BY <2>5, <2>11, NodeBelow
  <2> QED
    BY <2>2, <2>10, <2>12
<1>3. Nat \subseteq T
  <2> HIDE DEF T
  <2> QED
    BY <1>1, <1>2, Induct
<1>4. ASSUME NEW s, NEW w, Spelled(disk, s, w)
      PROVE  [at |-> w, id |-> Last(s)] \in Nodes
  <2>1. Len(w) \in Nat
    BY SpelledWay
  <2> QED
    BY <1>3, <1>4, <2>1
<1> QED
  BY <1>4

\* What the user sees of the nodes is what the names on disk lead to.
LEMMA TreeIs == Safe(disk) => Tree = TreeOf(disk)
<1> SUFFICES ASSUME Safe(disk)
             PROVE  Tree = TreeOf(disk)
  OBVIOUS
<1>1. PICK U, r : Store(disk) /\ Plan(disk, U, r)
  BY DEF Safe
<1>2. ASSUME NEW n \in Tree
      PROVE  n \in TreeOf(disk)
  <2>1. PICK x \in Nodes : /\ x.at # <<>>
                           /\ n = [at |-> x.at, kind |-> IF disk[x.id].type = "inode"
                                                         THEN "file" ELSE "dir"]
    BY DEF Tree
  <2>2. AtNode(x)
    BY <1>1, NodesSpelled
  <2>3. PICK s : Spelled(disk, s, x.at) /\ Last(s) = x.id
    BY <2>2 DEF AtNode
  <2>4. n = [at |-> x.at, kind |-> KindOf(disk[x.id])] /\ KindOf(disk[x.id]) \in {"dir", "file"}
    BY <2>1 DEF KindOf
  <2>5. x.at \in Seq(STRING)
    BY <2>3 DEF Spelled
  <2>6. n \in [at : Seq(STRING), kind : {"dir", "file"}] /\ n.at = x.at
        /\ n.kind = KindOf(disk[x.id])
    BY <2>4, <2>5
  <2> QED
    BY <2>1, <2>3, <2>6 DEF TreeOf
<1>3. ASSUME NEW n \in TreeOf(disk)
      PROVE  n \in Tree
  <2>1. n \in [at : Seq(STRING), kind : {"dir", "file"}] /\ n.at # <<>>
    BY DEF TreeOf
  <2>2. PICK s : Spelled(disk, s, n.at) /\ n.kind = KindOf(disk[Last(s)])
    BY DEF TreeOf
  <2>3. PICK x : x = [at |-> n.at, id |-> Last(s)]
    OBVIOUS
  <2>4. x \in Nodes /\ x.at = n.at /\ x.id = Last(s)
    BY <1>1, <2>2, <2>3, SpelledNodes
  <2>5. n = [at |-> x.at, kind |-> KindOf(disk[x.id])]
    BY <2>1, <2>2, <2>4
  <2> QED
    BY <2>1, <2>4, <2>5 DEF Tree, KindOf
<1> QED
  BY <1>2, <1>3

\* Two nodes differ in their names.
LEMMA TreeUnique ==
  ASSUME NEW d, Store(d), NEW m \in TreeOf(d), NEW n \in TreeOf(d), m.at = n.at
  PROVE  m = n
<1>1. m \in [at : Seq(STRING), kind : {"dir", "file"}] /\ n \in [at : Seq(STRING), kind : {"dir", "file"}]
  BY DEF TreeOf
<1>2. PICK s : Spelled(d, s, m.at) /\ m.kind = KindOf(d[Last(s)])
  BY DEF TreeOf
<1>3. PICK t : Spelled(d, t, n.at) /\ n.kind = KindOf(d[Last(t)])
  BY DEF TreeOf
<1>4. s = t
  BY <1>2, <1>3, OneTarget
<1> QED
  BY <1>1, <1>2, <1>3, <1>4

\* The user is where the working directory is.
LEMMA CwdIs == \A w : Safe(disk) /\ Spelled(disk, pwd, w) => Cwd = w
<1> SUFFICES ASSUME Safe(disk), NEW w, Spelled(disk, pwd, w)
             PROVE  Cwd = w
  OBVIOUS
<1>1. PICK U, r : Store(disk) /\ Plan(disk, U, r)
  BY DEF Safe
<1>2. /\ w \in Seq(STRING) /\ Len(pwd) = Len(w) + 1
      /\ \A k \in 1 .. Len(w) : Ent(disk[pwd[k]], w[k], pwd[k + 1])
  BY DEF Spelled
<1>3. Way(disk, pwd) /\ Len(w) \in Nat /\ \A k \in 1 .. Len(pwd) : pwd[k] \in Id
  BY <1>1, SpelledWay
<1>4. Len(pwd) - 1 = Len(w)
  BY <1>2, <1>3
<1>5. ASSUME NEW k \in 1 .. Len(w)
      PROVE  NameOf(pwd[k], pwd[k + 1]) = w[k]
  <2>1. PICK x, c : x = pwd[k] /\ c = pwd[k + 1]
    OBVIOUS
  <2>2. k \in 1 .. Len(pwd)
    BY <1>3, <1>4
  <2>3. x \in Id /\ x \in U
    BY <1>1, <1>3, <2>1, <2>2, WayIn
  <2>4. Formed(disk[x]) /\ Ent(disk[x], w[k], c)
    BY <1>1, <1>2, <2>1, <2>3 DEF Store
  <2>5. PICK i \in Subs : Pt(disk[x], i, c) /\ disk[x].subs[i].name = w[k]
    BY <2>4, EntIs
  <2>6. disk[x].type = "dentry"
    BY <2>4, EntIs
  <2>7. /\ EntriesOf(x) = {disk[x].subs[j] : j \in Used(disk[x])}
        /\ \A j \in Used(disk[x]) : Pt(disk[x], j, disk[x].subs[j].id)
        /\ i \in Used(disk[x]) /\ disk[x].subs[i].id = c
    BY <1>1, <2>3, <2>5, <2>6, EntriesAre
  <2>8. \A j, l : Pt(disk[x], j, c) /\ Pt(disk[x], l, c) => j = l
    BY <1>1, <2>3 DEF Plan
  <2>9. \A e \in EntriesOf(x) : e.id = c => e = disk[x].subs[i]
    BY <2>5, <2>7, <2>8
  <2>10. disk[x].subs[i] \in EntriesOf(x)
    BY <2>7
  <2>11. (CHOOSE e \in EntriesOf(x) : e.id = c) = disk[x].subs[i]
    BY <2>7, <2>9, <2>10
  <2> QED
    BY <2>1, <2>5, <2>11 DEF NameOf
<1>6. Cwd = [k \in 1 .. Len(w) |-> w[k]]
  BY <1>4, <1>5 DEF Cwd
<1> QED
  BY <1>2, <1>3, <1>6

-----------------------------------------------------------------------------
(* Paths, by the names of a tree.                                           *)

\* Namespace's definitions, of any tree and working directory.
IsDirIn(T, at) == at = <<>> \/ [at |-> at, kind |-> "dir"] \in T
ExistsIn(T, at) == at = <<>> \/ \E k \in {"dir", "file"} : [at |-> at, kind |-> k] \in T
NextIn(T, at, comp) ==
  IF at = NONE THEN NONE
  ELSE CASE comp = "."   -> at
         [] comp = ".."  -> IF at = <<>> THEN NONE ELSE Front(at)
         [] OTHER        -> IF IsDirIn(T, at) /\ ExistsIn(T, Append(at, comp))
                            THEN Append(at, comp) ELSE NONE
WalkIn(T, c, abs, comps) ==
  LET f[i \in 0 .. Len(comps)] ==
        IF i = 0 THEN IF abs THEN <<>> ELSE c ELSE NextIn(T, f[i - 1], comps[i])
  IN  f[Len(comps)]
TargetIn(T, c, p) ==
  LET dir == WalkIn(T, c, p.abs, Front(p.comps)) IN
  IF dir # NONE /\ IsDirIn(T, dir) /\ Last(p.comps) \notin {".", ".."}
  THEN Append(dir, Last(p.comps)) ELSE NONE

\* A component of a path leads where Namespace says.
LEMMA NextIs == \A at, comp : NS!Step(at, comp) = NextIn(Tree, at, comp)
  BY Zenon DEF NS!Step, NS!IsDir, NS!Exists, NS!Kind, NextIn, IsDirIn, ExistsIn, NS!Front, Front

\* So do all of them.
LEMMA WalkIs == \A abs, comps : NS!Walk(abs, comps) = WalkIn(Tree, Cwd, abs, comps)
  BY Zenon DEF NS!Walk, WalkIn, NS!Step, NS!IsDir, NS!Exists, NS!Kind, NextIn, IsDirIn, ExistsIn,
                 NS!Front, Front

\* And the place for a new name is the one Namespace names.
LEMMA TargetIs == \A p : NS!Target(p) = TargetIn(Tree, Cwd, p)
  BY Zenon, WalkIs DEF NS!Target, TargetIn, NS!IsDir, IsDirIn, NS!Front, Front, NS!Last, Last

\* What WalkIn computes, component by component.
Steps(T, c, abs, comps, g) ==
  /\ g[0] = IF abs THEN <<>> ELSE c
  /\ \A i \in 1 .. Len(comps) : g[i] = NextIn(T, g[i - 1], comps[i])

\* The recursion is well founded.
LEMMA StepsAre ==
  ASSUME NEW T, NEW c, NEW abs, NEW comps, Len(comps) \in Nat
  PROVE  \E g : Steps(T, c, abs, comps, g) /\ WalkIn(T, c, abs, comps) = g[Len(comps)]
<1> DEFINE n == Len(comps)
           first == IF abs THEN <<>> ELSE c
           Step(a, i) == NextIn(T, a, comps[i])
           Rec(f, k) == f = [i \in 0 .. k |-> IF i = 0 THEN first ELSE Step(f[i - 1], i)]
           Has == {k \in Nat : \E f : Rec(f, k)}
<1>1. 0 \in Has
  <2> DEFINE f == [i \in 0 .. 0 |-> first]
  <2>1. Rec(f, 0)
    OBVIOUS
  <2> QED
    BY <2>1
<1>2. ASSUME NEW k \in Nat, k \in Has
      PROVE  k + 1 \in Has
  <2> HIDE DEF first, Step
  <2>1. PICK f : Rec(f, k)
    BY <1>2
  <2> DEFINE g == [i \in 0 .. k + 1 |-> IF i <= k THEN f[i] ELSE Step(f[k], k + 1)]
  <2>2. ASSUME NEW i \in 0 .. k + 1
        PROVE  g[i] = IF i = 0 THEN first ELSE Step(g[i - 1], i)
    <3>1. CASE i = 0
      BY <2>1, <3>1
    <3>2. CASE i \in 1 .. k
      BY <2>1, <3>2
    <3>3. CASE i = k + 1
      BY <2>1, <3>3
    <3> QED
      BY <3>1, <3>2, <3>3
  <2>3. Rec(g, k + 1)
    <3> HIDE DEF g
    <3>1. g = [i \in 0 .. k + 1 |-> g[i]]
      BY DEF g
    <3> QED
      BY <2>2, <3>1
  <2>4. \E h : Rec(h, k + 1)
    <3> HIDE DEF g
    <3> QED
      BY <2>3
  <2> QED
    BY <2>4
<1>3. n \in Has
  <2> HIDE DEF Has
  <2> QED
    BY <1>1, <1>2, Induct
<1> DEFINE g == CHOOSE f : f = [i \in 0 .. n |->
                  IF i = 0 THEN IF abs THEN <<>> ELSE c ELSE NextIn(T, f[i - 1], comps[i])]
<1>4. g = [i \in 0 .. n |->
             IF i = 0 THEN IF abs THEN <<>> ELSE c ELSE NextIn(T, g[i - 1], comps[i])]
  <2>1. PICK h : Rec(h, n)
    BY <1>3
  <2> QED
    BY <2>1, Zenon
<1>5. WalkIn(T, c, abs, comps) = g[n]
  BY DEF WalkIn
<1> HIDE DEF g
<1>6. Steps(T, c, abs, comps, g)
  <2>1. 0 \in 0 .. n /\ \A i \in 1 .. n : i \in 0 .. n /\ i # 0
    OBVIOUS
  <2>2. g[0] = IF abs THEN <<>> ELSE c
    BY <1>4, <2>1
  <2>3. \A i \in 1 .. n : g[i] = NextIn(T, g[i - 1], comps[i])
    BY <1>4, <2>1
  <2> QED
    BY <2>2, <2>3 DEF Steps
<1> QED
  BY <1>5, <1>6

\* NextIn, case by case.
LEMMA NextParts ==
  ASSUME NEW T, NEW at, NEW comp
  PROVE  /\ at = NONE \/ comp = "." => NextIn(T, at, comp) = at
         /\ at # NONE /\ comp = ".." /\ at = <<>> => NextIn(T, at, comp) = NONE
         /\ at # NONE /\ comp = ".." /\ at # <<>> => NextIn(T, at, comp) = Front(at)
         /\ at # NONE /\ comp \notin {".", ".."} =>
              NextIn(T, at, comp) = IF IsDirIn(T, at) /\ ExistsIn(T, Append(at, comp))
                                    THEN Append(at, comp) ELSE NONE
<1>1. CASE at = NONE
  <2>1. NextIn(T, NONE, comp) = NONE
    BY DEF NextIn
  <2> QED
    BY <1>1, <2>1, Zenon
<1>2. CASE at # NONE /\ comp = "."
  BY <1>2 DEF NextIn
<1>3. CASE at # NONE /\ comp = ".."
  BY <1>3 DEF NextIn
<1>4. CASE at # NONE /\ comp \notin {".", ".."}
  BY <1>4 DEF NextIn
<1> QED
  BY <1>1, <1>2, <1>3, <1>4

\* A name.
LEMMA NextName ==
  ASSUME NEW T, NEW at, at # NONE, NEW comp, comp \notin {".", ".."}
  PROVE  NextIn(T, at, comp) = IF IsDirIn(T, at) /\ ExistsIn(T, Append(at, comp))
                               THEN Append(at, comp) ELSE NONE
  BY DEF NextIn

\* A sequence of names is not NONE.
LEMMA SomeName ==
  ASSUME NEW d, NEW s, NEW w, Spelled(d, s, w)
  PROVE  s # NONE /\ w # NONE /\ s # <<>> /\ (Len(s) = 1 <=> w = <<>>)
<1>1. s \in Seq(Id) /\ w \in Seq(STRING) /\ Len(s) = Len(w) + 1
  BY DEF Spelled
<1>2. Id \subseteq Int
  BY Limits
<1>3. s \in Seq(Int)
  BY <1>1, Limits
<1>4. Len(w) \in Nat /\ (Len(w) = 0 <=> w = <<>>)
  BY <1>1
<1>5. s # <<>>
  BY <1>1, <1>4
<1>6. Len(s) = 1 <=> Len(w) = 0
  BY <1>1, <1>4
<1> QED
  BY <1>1, <1>3, <1>4, <1>5, <1>6, RequestAssumption

\* A node.
LEMMA RecordIs == \A w, k : \E o : o = [at |-> w, kind |-> k] /\ o.at = w /\ o.kind = k
<1> SUFFICES ASSUME NEW w, NEW k
             PROVE  \E o : o = [at |-> w, kind |-> k] /\ o.at = w /\ o.kind = k
  OBVIOUS
<1>1. [at |-> w, kind |-> k].at = w /\ [at |-> w, kind |-> k].kind = k
  OBVIOUS
<1> QED
  BY <1>1

\* A node of the tree has a way.
LEMMA TreeHas ==
  ASSUME NEW d, NEW w, NEW k, [at |-> w, kind |-> k] \in TreeOf(d)
  PROVE  w # <<>> /\ \E s : Spelled(d, s, w) /\ k = KindOf(d[Last(s)])
<1>1. PICK n : n = [at |-> w, kind |-> k] /\ n.at = w /\ n.kind = k
  BY RecordIs
<1>2. n \in TreeOf(d)
  BY <1>1
<1>3. n.at # <<>> /\ \E s : Spelled(d, s, n.at) /\ n.kind = KindOf(d[Last(s)])
  BY <1>2 DEF TreeOf
<1> QED
  BY <1>1, <1>3

\* It is named by names.
LEMMA TreeNames ==
  ASSUME NEW d, NEW w, NEW k, [at |-> w, kind |-> k] \in TreeOf(d)
  PROVE  w \in Seq(STRING)
<1>1. PICK s : Spelled(d, s, w)
  BY TreeHas
<1> QED
  BY <1>1 DEF Spelled

\* What the tree says of a node.
LEMMA NodeKinds ==
  ASSUME NEW d, NEW U, NEW r, Store(d), Plan(d, U, r), NEW s, NEW w, Spelled(d, s, w)
  PROVE  /\ Last(s) \in U /\ d[Last(s)].type \in {"dentry", "inode"}
         /\ IsDirIn(TreeOf(d), w) <=> d[Last(s)].type = "dentry"
         /\ ExistsIn(TreeOf(d), w)
         /\ w # <<>> => [at |-> w, kind |-> KindOf(d[Last(s)])] \in TreeOf(d)
<1>1. PICK x : x = Last(s) /\ x \in U
  BY OnWay
<1>2. CASE w = <<>>
  <2>1. Spelled(d, <<Root>>, w) /\ Last(<<Root>>) = Root
    BY <1>2, RootSpelled
  <2>2. s = <<Root>>
    BY <2>1, OneTarget
  <2>3. x = Root /\ d[Root].type = "dentry"
    BY <1>1, <2>1, <2>2 DEF Plan
  <2> QED
    BY <1>1, <1>2, <2>3 DEF IsDirIn, ExistsIn
<1>3. CASE w # <<>>
  <2>1. PICK p, n : p = Last(Front(s)) /\ n = Last(w) /\ Ent(d[p], n, x)
    BY <1>1, <1>3, SpelledFront
  <2>2. p \in U
    <3>1. Spelled(d, Front(s), Front(w))
      BY <1>3, SpelledFront
    <3> QED
      BY <2>1, <3>1, OnWay
  <2>3. Formed(d[p])
    BY <2>2 DEF Store, Plan
  <2>4. PICK i : d[p].type = "dentry" /\ Pt(d[p], i, x)
    BY <2>1, <2>3, EntIs
  <2>5. Kid(d, p, x, r)
    BY <2>2, <2>4 DEF Plan
  <2>6. d[x].type \in {"dentry", "inode"}
    BY <2>4, <2>5 DEF Kid
  <2>7. w \in Seq(STRING)
    BY DEF Spelled
  <2>8. PICK n2 : n2 = [at |-> w, kind |-> KindOf(d[x])] /\ n2.at = w /\ n2.kind = KindOf(d[x])
    <3>1. PICK k : k = KindOf(d[x])
      OBVIOUS
    <3>2. \E o : o = [at |-> w, kind |-> k] /\ o.at = w /\ o.kind = k
      BY RecordIs
    <3> QED
      BY <3>1, <3>2
  <2>9. KindOf(d[x]) \in {"dir", "file"} /\ (KindOf(d[x]) = "dir" <=> d[x].type # "inode")
    BY DEF KindOf
  <2>10. n2 \in TreeOf(d)
    <3>1. n2 \in [at : Seq(STRING), kind : {"dir", "file"}]
      BY <2>7, <2>8, <2>9
    <3>2. Spelled(d, s, n2.at) /\ n2.kind = KindOf(d[Last(s)])
      BY <1>1, <2>8
    <3> QED
      BY <1>3, <2>8, <3>1, <3>2 DEF TreeOf
  <2>11. ExistsIn(TreeOf(d), w)
    BY <2>8, <2>9, <2>10 DEF ExistsIn
  <2>12. ASSUME [at |-> w, kind |-> "dir"] \in TreeOf(d)
         PROVE  KindOf(d[x]) = "dir"
    <3>1. PICK n3 : n3 = [at |-> w, kind |-> "dir"] /\ n3.at = w /\ n3.kind = "dir"
      BY RecordIs
    <3>2. n3 = n2
      BY <2>8, <2>10, <2>12, <3>1, TreeUnique
    <3> QED
      BY <2>8, <3>1, <3>2
  <2>13. IsDirIn(TreeOf(d), w) <=> KindOf(d[x]) = "dir"
    <3>1. KindOf(d[x]) = "dir" => [at |-> w, kind |-> "dir"] \in TreeOf(d)
      BY <2>8, <2>10
    <3> QED
      BY <1>3, <2>12, <3>1 DEF IsDirIn
  <2>14. IsDirIn(TreeOf(d), w) <=> d[x].type = "dentry"
    BY <2>6, <2>9, <2>13
  <2> QED
    BY <1>1, <2>6, <2>8, <2>10, <2>11, <2>14
<1> QED
  BY <1>2, <1>3

\* Ids and names that lead to the same, or both to nothing.
Agree(d, s, w) == (s = NONE /\ w = NONE) \/ Spelled(d, s, w)

Arrived(d, a, w) == Agree(d, a.at, w) /\ a = [at |-> a.at, cut |-> a.cut]

\* One component of a path.
LEMMA AgreeStep ==
  ASSUME NEW m, NEW U, NEW r, Store(m.zone), Plan(m.zone, U, r), Tally(m.st, m.zone, U),
         NEW acc, NEW w, Arrived(m.zone, acc, w),
         NEW comp \in STRING, comp # NoEntry.name, NEW more, NEW pos,
         NEW b, b = PathStep(m, acc, comp, more, pos)
  PROVE  Arrived(m.zone, b, NextIn(TreeOf(m.zone), w, comp))
<1>0. PICK at, cut : at = acc.at /\ cut = acc.cut /\ acc = [at |-> at, cut |-> cut]
                     /\ Agree(m.zone, at, w)
  BY DEF Arrived
<1>1. PICK d, T, v : d = m.zone /\ T = TreeOf(d) /\ v = NextIn(T, w, comp)
  OBVIOUS
<1>2. CASE comp \in {".", ".."} \/ at = NONE
  <2>1. b = [at |-> DotAt(at, comp), cut |-> cut]
    BY <1>0, <1>2, StepDot
  <2>2. b.at = DotAt(at, comp) /\ b.cut = cut
    BY <2>1
  <2>3. CASE at = NONE
    <3>1. w = NONE
      BY <1>0, <2>3, SomeName DEF Agree
    <3>2. v = NONE
      BY <1>1, <3>1, NextParts
    <3>3. b.at = NONE
      BY <2>2, <2>3 DEF DotAt
    <3> QED
      BY <1>1, <2>1, <2>2, <3>2, <3>3 DEF Agree, Arrived
  <2>4. CASE at # NONE
    <3>1. Spelled(d, at, w) /\ w # NONE /\ (Len(at) = 1 <=> w = <<>>)
      BY <1>0, <1>1, <2>4, SomeName DEF Agree
    <3>2. CASE comp = "."
      <4>1. v = w
        BY <1>1, <3>2, NextParts
      <4>2. b.at = at
        BY <2>2, <3>2 DEF DotAt
      <4> QED
        BY <1>1, <2>1, <2>2, <3>1, <4>1, <4>2 DEF Agree, Arrived
    <3>3. CASE comp # "."
      <4>0. comp = ".."
        BY <1>2, <2>4, <3>3
      <4>1. CASE w = <<>>
        <5>1. v = NONE
          BY <1>1, <3>1, <4>0, <4>1, NextParts
        <5>2. b.at = NONE
          BY <2>2, <2>4, <3>1, <3>3, <4>1 DEF DotAt
        <5> QED
          BY <1>1, <2>1, <2>2, <5>1, <5>2 DEF Agree, Arrived
      <4>2. CASE w # <<>>
        <5>1. v = Front(w)
          BY <1>1, <3>1, <4>0, <4>2, NextParts
        <5>2. b.at = Front(at)
          BY <2>2, <2>4, <3>1, <3>3, <4>2 DEF DotAt
        <5>3. Spelled(d, Front(at), Front(w))
          BY <1>1, <3>1, <4>2, SpelledFront
        <5> QED
          BY <1>1, <2>1, <2>2, <5>1, <5>2, <5>3 DEF Agree, Arrived
      <4> QED
        BY <4>1, <4>2
    <3> QED
      BY <3>2, <3>3
  <2> QED
    BY <2>3, <2>4
<1>3. CASE ~(comp \in {".", ".."} \/ at = NONE)
  <2>1. Spelled(d, at, w) /\ w # NONE
    BY <1>0, <1>1, <1>3, SomeName DEF Agree
  <2>2. Way(m.zone, at)
    BY <1>1, <2>1, SpelledWay
  <2>3. Stepped(m, at, cut, comp, more, b)
    BY <1>0, <1>3, <2>2, StepTo
  <2>4. v = IF IsDirIn(T, w) /\ ExistsIn(T, Append(w, comp)) THEN Append(w, comp) ELSE NONE
    <3>1. w # NONE /\ comp \notin {".", ".."}
      BY <1>3, <2>1
    <3>2. NextIn(T, w, comp) = IF IsDirIn(T, w) /\ ExistsIn(T, Append(w, comp))
                               THEN Append(w, comp) ELSE NONE
      BY <3>1, NextName
    <3> QED
      BY <1>1, <3>2
  <2>5. PICK x : x = Last(at) /\ x \in U /\ d[x].type \in {"dentry", "inode"}
    BY <1>1, <2>1, NodeKinds
  <2>6. x \in Id /\ Formed(d[x])
    BY <1>1, <2>5 DEF Plan, Store
  <2>7. IsDirIn(T, w) <=> d[x].type = "dentry"
    BY <1>1, <2>1, <2>5, NodeKinds
  <2>8. CASE b.at # NONE
    <3>1. Named(d, at, comp, b.at)
      BY <1>1, <2>3, <2>8 DEF Stepped
    <3>2. PICK i \in Subs : /\ d[x].subs[i].name = comp /\ d[x].subs[i].id \in Id
                            /\ b.at = Append(at, d[x].subs[i].id)
      BY <2>5, <3>1 DEF Named
    <3>3. PICK c : c = d[x].subs[i].id
      OBVIOUS
    <3>4. d[x].type = "dentry" /\ c # 0
      BY <2>5, <3>1, <3>2, <3>3, Limits DEF Named, Here
    <3>5. Ent(d[Last(at)], comp, c)
      BY <2>5, <3>2, <3>3, <3>4 DEF Ent
    <3>6. Spelled(d, Append(at, c), Append(w, comp))
      BY <1>1, <2>1, <3>5, SpelledFurther
    <3>7. ExistsIn(T, Append(w, comp))
      BY <1>1, <3>6, NodeKinds
    <3>8. v = Append(w, comp)
      BY <2>4, <2>7, <3>4, <3>7
    <3>9. Agree(d, b.at, v)
      BY <3>2, <3>3, <3>6, <3>8 DEF Agree
    <3> QED
      BY <1>1, <2>3, <3>9 DEF Stepped, Arrived
  <2>9. CASE b.at = NONE
    <3>1. ASSUME IsDirIn(T, w), ExistsIn(T, Append(w, comp))
          PROVE  FALSE
      <4>1. d[x].type = "dentry"
        BY <2>7, <3>1
      <4>2. get_state(m.st, x) = D_OCCUPIED
        <5>1. m.st[x] = D_OCCUPIED
          BY <1>1, <2>5, <2>6, <4>1 DEF Tally
        <5> QED
          BY <2>6, <5>1, Limits DEF get_state
      <4>3. \A i \in Subs : d[x].subs[i].name # comp
        BY <1>1, <2>3, <2>5, <2>9, <4>2 DEF Stepped
      <4>4. w \in Seq(STRING)
        BY <2>1 DEF Spelled
      <4>5. PICK u : u = Append(w, comp) /\ u # <<>> /\ Front(u) = w /\ Last(u) = comp
        <5>1. /\ Append(w, comp) \in Seq(STRING) /\ Len(Append(w, comp)) = Len(w) + 1 /\ Len(w) \in Nat
              /\ \A k \in 1 .. Len(w) : Append(w, comp)[k] = w[k]
              /\ Append(w, comp)[Len(w) + 1] = comp /\ Last(Append(w, comp)) = comp
              /\ Append(w, comp) # <<>> /\ Front(Append(w, comp)) = w
          BY <4>4, AppendParts
        <5> QED
          BY <5>1
      <4>6. PICK k : [at |-> u, kind |-> k] \in T
        BY <3>1, <4>5 DEF ExistsIn
      <4>7. [at |-> u, kind |-> k] \in TreeOf(d)
        BY <1>1, <4>6
      <4>8. PICK s : Spelled(d, s, u)
        BY <4>7, TreeHas
      <4>9. Spelled(d, Front(s), w) /\ Ent(d[Last(Front(s))], comp, Last(s))
        <5>1. /\ Spelled(d, Front(s), Front(u)) /\ Ent(d[Last(Front(s))], Last(u), Last(s))
              /\ s = Append(Front(s), Last(s)) /\ u = Append(Front(u), Last(u))
          BY <1>1, <4>5, <4>8, SpelledFront
        <5> QED
          BY <4>5, <5>1
      <4>10. Front(s) = at
        BY <1>1, <2>1, <4>9, OneTarget
      <4>11. \E i \in Subs : d[x].subs[i].name = comp
        BY <2>5, <4>9, <4>10 DEF Ent
      <4> QED
        BY <4>3, <4>11
    <3>2. v = NONE
      BY <2>4, <3>1
    <3>3. Agree(d, b.at, v)
      BY <2>9, <3>2 DEF Agree
    <3> QED
      BY <1>1, <2>3, <3>3 DEF Stepped, Arrived
  <2> QED
    BY <2>8, <2>9
<1> QED
  BY <1>2, <1>3

\* What is a path for get_path and for its directory.
IsPath(p) ==
  /\ Len(p.comps) \in Nat
  /\ \A i \in 1 .. Len(p.comps) : p.comps[i] # NoEntry.name /\ p.comps[i] \in STRING

\* get_path comes to the node that the names lead to.
LEMMA PathSpelled ==
  ASSUME NEW m, NEW U, NEW r, Store(m.zone), Plan(m.zone, U, r), Tally(m.st, m.zone, U),
         Here(m.zone, pwd), NEW c, Spelled(m.zone, pwd, c), NEW p, IsPath(p)
  PROVE  Agree(m.zone, get_path(m, p).at, WalkIn(TreeOf(m.zone), c, p.abs, p.comps))
<1>1. PICK n, T : /\ n = Len(p.comps) /\ n \in Nat /\ T = TreeOf(m.zone)
                  /\ \A i \in 1 .. n : p.comps[i] # NoEntry.name /\ p.comps[i] \in STRING
  BY DEF IsPath
<1>2. PICK f : Trail(m, p, f) /\ get_path(m, p).at = f[n].at
  BY <1>1, TrailIs
<1>3. PICK g : Steps(T, c, p.abs, p.comps, g) /\ WalkIn(T, c, p.abs, p.comps) = g[n]
  BY <1>1, StepsAre
<1> DEFINE Good(i) == Arrived(m.zone, f[i], g[i])
           S == {i \in Nat : Good(i)}
<1>4. Good(0)
  <2>1. /\ f[0] = [at |-> f[0].at, cut |-> 0]
        /\ f[0].at = IF p.abs THEN <<Root>> ELSE pwd
    BY <1>1, <1>2, TrailStart
  <2>2. g[0] = IF p.abs THEN <<>> ELSE c
    BY <1>3 DEF Steps
  <2>3. Spelled(m.zone, <<Root>>, <<>>)
    BY RootSpelled
  <2>4. Spelled(m.zone, f[0].at, g[0])
    BY <2>1, <2>2, <2>3
  <2>5. f[0].cut = 0
    BY <2>1
  <2> QED
    BY <2>1, <2>4, <2>5 DEF Agree, Arrived
<1>5. ASSUME NEW i \in 0 .. n - 1, Good(i)
      PROVE  Good(i + 1)
  <2>1. PICK a, b, comp, more, w :
          /\ a = f[i] /\ b = f[i + 1] /\ comp = p.comps[i + 1] /\ more = (i + 1 < n) /\ w = g[i]
    OBVIOUS
  <2>2. i + 1 \in 0 .. n /\ i + 1 # 0 /\ (i + 1) - 1 = i /\ i + 1 \in 1 .. n
    BY <1>1
  <2>3. b = PathStep(m, a, comp, more, i + 1)
    <3>1. f[i + 1] = PathStep(m, f[(i + 1) - 1], p.comps[i + 1], i + 1 < Len(p.comps), i + 1)
      BY <1>1, <1>2, <2>2 DEF Trail
    <3>2. f[i + 1] = PathStep(m, f[i], p.comps[i + 1], i + 1 < n, i + 1)
      BY <1>1, <2>2, <3>1
    <3> QED
      BY <2>1, <3>2, Zenon
  <2>4. g[i + 1] = NextIn(T, w, comp)
    <3>1. g[i + 1] = NextIn(T, g[(i + 1) - 1], p.comps[i + 1])
      BY <1>1, <1>3, <2>2 DEF Steps
    <3> QED
      BY <2>1, <2>2, <3>1
  <2>5. Arrived(m.zone, a, w) /\ comp # NoEntry.name /\ comp \in STRING
    BY <1>1, <1>5, <2>1, <2>2
  <2>6. Arrived(m.zone, b, NextIn(TreeOf(m.zone), w, comp))
    BY <2>1, <2>3, <2>5, AgreeStep
  <2> QED
    BY <1>1, <2>1, <2>4, <2>6
<1>6. 0 .. n \subseteq S
  <2>1. 0 \in S
    BY <1>4
  <2>2. \A i \in 0 .. n - 1 : i \in S => i + 1 \in S
    BY <1>1, <1>5
  <2> HIDE DEF S
  <2> QED
    BY <1>1, <2>1, <2>2, InductTo
<1>7. Good(n)
  <2>1. n \in 0 .. n
    BY <1>1
  <2>2. n \in S
    <3> HIDE DEF S
    <3> QED
      BY <1>6, <2>1
  <2> QED
    BY <2>2
<1> QED
  BY <1>1, <1>2, <1>3, <1>7 DEF Arrived

\* Two walks along the same names.
LEMMA StepsSame ==
  ASSUME NEW T, NEW S, NEW c, NEW abs, NEW comps, NEW g, Steps(T, c, abs, comps, g),
         NEW part, NEW h, Steps(S, c, abs, part, h),
         Len(part) \in Nat, Len(comps) \in Nat, Len(part) <= Len(comps),
         \A i \in 1 .. Len(part) : part[i] = comps[i],
         \A i \in 1 .. Len(part) : \A at : NextIn(T, at, part[i]) = NextIn(S, at, part[i])
  PROVE  g[Len(part)] = h[Len(part)]
<1> DEFINE Q == {i \in Nat : g[i] = h[i]}
<1>1. 0 \in Q
  BY DEF Steps
<1>2. ASSUME NEW i \in 0 .. Len(part) - 1, i \in Q
      PROVE  i + 1 \in Q
  <2>1. i + 1 \in 1 .. Len(part) /\ i + 1 \in 1 .. Len(comps) /\ (i + 1) - 1 = i /\ i + 1 \in Nat
    OBVIOUS
  <2>2. /\ g[i + 1] = NextIn(T, g[(i + 1) - 1], comps[i + 1])
        /\ h[i + 1] = NextIn(S, h[(i + 1) - 1], part[i + 1])
    BY <2>1 DEF Steps
  <2>3. g[i] = h[i] /\ part[i + 1] = comps[i + 1]
    BY <1>2, <2>1
  <2>4. NextIn(T, g[i], part[i + 1]) = NextIn(S, g[i], part[i + 1])
    BY <2>1
  <2>5. g[i + 1] = h[i + 1]
    BY <2>1, <2>2, <2>3, <2>4
  <2> QED
    BY <2>1, <2>5
<1>3. 0 .. Len(part) \subseteq Q
  <2> HIDE DEF Q
  <2> QED
    BY <1>1, <1>2, InductTo
<1>4. Len(part) \in Q
  <2>1. Len(part) \in 0 .. Len(part)
    OBVIOUS
  <2> HIDE DEF Q
  <2> QED
    BY <1>3, <2>1
<1> QED
  BY <1>4

\* The last name of a path, after those of its directory.
LEMMA WalkLast ==
  ASSUME NEW T, NEW c, NEW p \in Path, p.comps # <<>>
  PROVE  WalkIn(T, c, p.abs, p.comps) =
           NextIn(T, WalkIn(T, c, p.abs, Front(p.comps)), Last(p.comps))
<1>1. PICK comps, part, n : comps = p.comps /\ part = Front(p.comps) /\ n = Len(p.comps)
  OBVIOUS
<1>2. /\ n \in Nat \ {0} /\ Len(part) = n - 1
      /\ \A i \in 1 .. n - 1 : part[i] = comps[i]
  <2>1. /\ DirOf(p).abs = p.abs /\ DirOf(p) = [abs |-> p.abs, comps |-> Front(p.comps)]
        /\ Len(p.comps) \in Nat \ {0}
        /\ Len(DirOf(p).comps) = Len(p.comps) - 1
        /\ \A i \in 1 .. Len(p.comps) - 1 : DirOf(p).comps[i] = p.comps[i]
    BY DirIs
  <2>2. DirOf(p).comps = part
    BY <1>1, <2>1
  <2> QED
    BY <1>1, <2>1, <2>2
<1>3. n \in Nat /\ n - 1 \in Nat /\ n \in 1 .. n /\ n - 1 <= n
  BY <1>2
<1>4. PICK g : Steps(T, c, p.abs, comps, g) /\ WalkIn(T, c, p.abs, comps) = g[n]
  BY <1>1, <1>3, StepsAre
<1>5. PICK h : Steps(T, c, p.abs, part, h) /\ WalkIn(T, c, p.abs, part) = h[n - 1]
  BY <1>2, <1>3, StepsAre
<1>6. g[n - 1] = h[n - 1]
  <2>1. /\ Len(part) \in Nat /\ Len(comps) \in Nat /\ Len(part) <= Len(comps)
        /\ \A i \in 1 .. Len(part) : part[i] = comps[i]
        /\ \A i \in 1 .. Len(part) : \A at : NextIn(T, at, part[i]) = NextIn(T, at, part[i])
    BY <1>1, <1>2, <1>3
  <2>2. g[Len(part)] = h[Len(part)]
    BY <1>4, <1>5, <2>1, StepsSame
  <2> QED
    BY <1>2, <2>2
<1>7. g[n] = NextIn(T, g[n - 1], comps[n])
  BY <1>1, <1>3, <1>4 DEF Steps
<1>8. Last(p.comps) = comps[n]
  BY <1>1 DEF Last
<1> QED
  BY <1>1, <1>4, <1>5, <1>6, <1>7, <1>8

\* "." and ".." do not ask the tree.
LEMMA DotWalk ==
  ASSUME NEW T, NEW S, NEW c, NEW p \in Path, Dotted(p)
  PROVE  WalkIn(T, c, p.abs, Front(p.comps)) = WalkIn(S, c, p.abs, Front(p.comps))
<1>1. PICK part, n : part = Front(p.comps) /\ n = Len(part)
  OBVIOUS
<1>2. n \in Nat /\ \A i \in 1 .. n : part[i] \in {".", ".."}
  <2>1. /\ DirOf(p).abs = p.abs /\ DirOf(p) = [abs |-> p.abs, comps |-> Front(p.comps)]
        /\ Len(p.comps) \in Nat \ {0}
        /\ Len(DirOf(p).comps) = Len(p.comps) - 1
        /\ \A i \in 1 .. Len(p.comps) - 1 : DirOf(p).comps[i] = p.comps[i]
    BY DirIs DEF Dotted
  <2>2. DirOf(p).comps = part
    BY <1>1, <2>1
  <2> QED
    BY <1>1, <2>1, <2>2 DEF Dotted
<1>3. PICK g : Steps(T, c, p.abs, part, g) /\ WalkIn(T, c, p.abs, part) = g[n]
  BY <1>1, <1>2, StepsAre
<1>4. PICK h : Steps(S, c, p.abs, part, h) /\ WalkIn(S, c, p.abs, part) = h[n]
  BY <1>1, <1>2, StepsAre
<1>5. \A i \in 1 .. n : \A at : NextIn(T, at, part[i]) = NextIn(S, at, part[i])
  <2> SUFFICES ASSUME NEW i \in 1 .. n, NEW at
               PROVE  NextIn(T, at, part[i]) = NextIn(S, at, part[i])
    OBVIOUS
  <2>1. PICK comp : comp = part[i] /\ comp \in {".", ".."}
    BY <1>2
  <2>2. NextIn(T, at, comp) = NextIn(S, at, comp)
    <3>1. CASE at = NONE
      BY <3>1 DEF NextIn
    <3>2. CASE at # NONE /\ comp = "."
      BY <3>2 DEF NextIn
    <3>3. CASE at # NONE /\ comp = ".."
      BY <3>3 DEF NextIn
    <3> QED
      BY <2>1, <3>1, <3>2, <3>3
  <2> QED
    BY <2>1, <2>2
<1>6. g[n] = h[n]
  <2>1. /\ Len(part) \in Nat /\ Len(part) <= Len(part)
        /\ \A i \in 1 .. Len(part) : part[i] = part[i]
        /\ \A i \in 1 .. Len(part) : \A at : NextIn(T, at, part[i]) = NextIn(S, at, part[i])
    BY <1>1, <1>2, <1>5
  <2>2. g[Len(part)] = h[Len(part)]
    BY <1>3, <1>4, <2>1, StepsSame
  <2> QED
    BY <1>1, <2>2
<1> QED
  BY <1>1, <1>3, <1>4, <1>6

\* A path through "." and ".." names node at in any tree in which its directory
\* dir is one.
Names(c, p, dir, at) ==
  /\ dir # NONE /\ at = Append(dir, Last(p.comps))
  /\ \A S : IsDirIn(S, dir) =>
       /\ TargetIn(S, c, p) = at
       /\ WalkIn(S, c, p.abs, p.comps) = IF ExistsIn(S, at) THEN at ELSE NONE

\* It does if it leads anywhere.
LEMMA DotNames ==
  ASSUME NEW T, NEW c, NEW p \in Path, Dotted(p), Last(p.comps) \notin {".", ".."},
         NEW dir, dir = WalkIn(T, c, p.abs, Front(p.comps)), dir # NONE
  PROVE  Names(c, p, dir, Append(dir, Last(p.comps)))
<1>1. PICK name, at : name = Last(p.comps) /\ at = Append(dir, name)
  OBVIOUS
<1>2. ASSUME NEW S, IsDirIn(S, dir)
      PROVE  /\ TargetIn(S, c, p) = at
             /\ WalkIn(S, c, p.abs, p.comps) = IF ExistsIn(S, at) THEN at ELSE NONE
  <2>1. WalkIn(S, c, p.abs, Front(p.comps)) = dir
    BY DotWalk
  <2>2. TargetIn(S, c, p) = at
    BY <1>1, <1>2, <2>1 DEF TargetIn
  <2>3. WalkIn(S, c, p.abs, p.comps) = NextIn(S, dir, name)
    BY <1>1, <2>1, WalkLast DEF Dotted
  <2>4. NextIn(S, dir, name) = IF ExistsIn(S, at) THEN at ELSE NONE
    <3>1. name \notin {".", ".."}
      BY <1>1
    <3>2. NextIn(S, dir, name) = IF IsDirIn(S, dir) /\ ExistsIn(S, Append(dir, name))
                                 THEN Append(dir, name) ELSE NONE
      BY <3>1, NextName
    <3> QED
      BY <1>1, <1>2, <3>2
  <2> QED
    BY <2>2, <2>3, <2>4
<1> QED
  BY <1>1, <1>2 DEF Names

-----------------------------------------------------------------------------
(* What a command does, by the names of the tree it finds.                  *)

\* Namespace's condition, of any tree and working directory.
CanIn(T, c, op, p) ==
  LET at == WalkIn(T, c, p.abs, p.comps) IN
  CASE op \in {"touch", "mkdir"} -> at = NONE /\ TargetIn(T, c, p) # NONE
    [] op = "write" -> IF at = NONE THEN TargetIn(T, c, p) # NONE ELSE ~IsDirIn(T, at)
    [] op \in {"rm", "append"} -> at # NONE /\ ~IsDirIn(T, at)
    [] op = "rmdir" -> /\ at # NONE /\ IsDirIn(T, at)
                       /\ {n \in T : n.at # <<>> /\ Front(n.at) = at} = {}
                       /\ ~IsPrefix(at, c)
    [] op = "cd"    -> at # NONE /\ IsDirIn(T, at)

\* It is Namespace's.
LEMMA CanIs == \A r : NS!Can(r) = CanIn(Tree, Cwd, r.op, r.path)
<1> SUFFICES ASSUME NEW r
             PROVE  NS!Can(r) = CanIn(Tree, Cwd, r.op, r.path)
  OBVIOUS
<1>1. \A p : NS!Resolve(p) = WalkIn(Tree, Cwd, p.abs, p.comps)
  BY WalkIs DEF NS!Resolve
<1> QED
  BY <1>1, TargetIs, Zenon DEF NS!Can, CanIn, NS!IsDir, IsDirIn, NS!Children, NS!Front, Front,
     NS!IsPrefix, IsPrefix

\* The aim A of a command that was given path p, in terms of tree T.
Fits(T, A, p) ==
  /\ A.op = "touch" => A.node = [at |-> TargetIn(T, A.cwd, p), kind |-> "file"]
  /\ A.op = "mkdir" => A.node = [at |-> TargetIn(T, A.cwd, p), kind |-> "dir"]
  /\ A.op \in {"rm", "rmdir"} => A.node \in T /\ A.node.at = WalkIn(T, A.cwd, p.abs, p.comps)
  /\ A.op = "write" => \E dir, at : /\ IsDirIn(T, dir) /\ Names(A.cwd, p, dir, at)
                                    /\ A.node = [at |-> at, kind |-> "file"]

\* A command refuses p,
Refuses(m, res, c, op, p) ==
  /\ res.ans = "4" /\ res.m = m
  /\ \/ ~CanIn(TreeOf(m.zone), c, op, p)
     \/ op \in {"touch", "mkdir", "write"} /\ get_free_id(m) < 0

\* or does it.
Carries(m, res, c, op, p) ==
  /\ res.ans = "0" /\ CanIn(TreeOf(m.zone), c, op, p)
  /\ \E A : /\ A.at = pwd /\ A.cwd = c /\ A.op = op /\ Fits(TreeOf(m.zone), A, p)
            /\ Story(m.zone, res.m.writes, A)

\* What such a path is for get_path.
LEMMA PathOk ==
  ASSUME NEW p \in Path
  PROVE  IsPath(p) /\ (p.comps # <<>> => IsPath(DirOf(p)))
<1>1. IsPath(p)
  BY PathIs DEF IsPath
<1>2. ASSUME p.comps # <<>>
      PROVE  IsPath(DirOf(p))
  <2>1. /\ DirOf(p).abs = p.abs /\ DirOf(p) = [abs |-> p.abs, comps |-> Front(p.comps)]
        /\ Len(p.comps) \in Nat \ {0}
        /\ Len(DirOf(p).comps) = Len(p.comps) - 1
        /\ \A i \in 1 .. Len(p.comps) - 1 : DirOf(p).comps[i] = p.comps[i]
    BY <1>2, DirIs
  <2>2. \A i \in 1 .. Len(p.comps) - 1 : i \in 1 .. Len(p.comps)
    BY <2>1
  <2>3. Len(p.comps) - 1 \in Nat
    BY <2>1
  <2> QED
    BY <1>1, <2>1, <2>2, <2>3 DEF IsPath
<1> QED
  BY <1>1, <1>2

\* The way a path leads and the names of it.
LEMMA PathNames ==
  ASSUME NEW d, NEW m, Sound(d, m, pwd), NEW c, Spelled(m.zone, pwd, c), NEW p \in Path
  PROVE  /\ Agree(m.zone, get_path(m, p).at, WalkIn(TreeOf(m.zone), c, p.abs, p.comps))
         /\ p.comps # <<>> =>
              Agree(m.zone, get_path(m, DirOf(p)).at, WalkIn(TreeOf(m.zone), c, p.abs, Front(p.comps)))
<1>1. Store(m.zone) /\ Here(m.zone, pwd)
  BY DEF Sound, IsMemory
<1>2. PICK U, r : Plan(m.zone, U, r) /\ Tally(m.st, m.zone, U)
  BY DEF Sound, Whole
<1>3. Agree(m.zone, get_path(m, p).at, WalkIn(TreeOf(m.zone), c, p.abs, p.comps))
  <2>1. IsPath(p)
    BY PathOk
  <2> QED
    BY <1>1, <1>2, <2>1, PathSpelled
<1>4. ASSUME p.comps # <<>>
      PROVE  Agree(m.zone, get_path(m, DirOf(p)).at, WalkIn(TreeOf(m.zone), c, p.abs, Front(p.comps)))
  <2>1. PICK q : q = DirOf(p) /\ IsPath(q)
    BY <1>4, PathOk
  <2>2. Agree(m.zone, get_path(m, q).at, WalkIn(TreeOf(m.zone), c, q.abs, q.comps))
    BY <1>1, <1>2, <2>1, PathSpelled
  <2>3. q.abs = p.abs /\ q.comps = Front(p.comps)
    <3>1. /\ DirOf(p).abs = p.abs /\ DirOf(p) = [abs |-> p.abs, comps |-> Front(p.comps)]
          /\ Len(p.comps) \in Nat \ {0}
          /\ Len(DirOf(p).comps) = Len(p.comps) - 1
          /\ \A i \in 1 .. Len(p.comps) - 1 : DirOf(p).comps[i] = p.comps[i]
      BY <1>4, DirIs
    <3>2. DirOf(p).comps = Front(p.comps)
      BY <3>1
    <3> QED
      BY <2>1, <3>1, <3>2
  <2> QED
    BY <2>1, <2>2, <2>3
<1> QED
  BY <1>3, <1>4

\* What the states say of a way.
LEMMA WayState ==
  ASSUME NEW d, NEW m, Sound(d, m, pwd), NEW s, NEW w, Spelled(m.zone, s, w)
  PROVE  /\ Last(s) \in Id /\ w # NONE
         /\ get_state(m.st, Last(s)) = D_OCCUPIED <=> IsDirIn(TreeOf(m.zone), w)
         /\ get_state(m.st, Last(s)) = I_OCCUPIED <=> ~IsDirIn(TreeOf(m.zone), w)
         /\ m.zone[Last(s)].type = "dentry" <=> IsDirIn(TreeOf(m.zone), w)
         /\ m.zone[Last(s)].type = "inode" <=> ~IsDirIn(TreeOf(m.zone), w)
<1>1. Store(m.zone)
  BY DEF Sound, IsMemory
<1>2. PICK U, r : Plan(m.zone, U, r) /\ Tally(m.st, m.zone, U)
  BY DEF Sound, Whole
<1>3. PICK x : x = Last(s)
  OBVIOUS
<1>4. x \in U /\ m.zone[x].type \in {"dentry", "inode"}
      /\ (IsDirIn(TreeOf(m.zone), w) <=> m.zone[x].type = "dentry")
  BY <1>1, <1>2, <1>3, NodeKinds
<1>5. x \in Id /\ ~(x < Root)
  BY <1>2, <1>4, Limits DEF Plan
<1>6. get_state(m.st, x) = m.st[x]
  BY <1>5 DEF get_state
<1>7. m.st[x] = IF m.zone[x].type = "dentry" THEN D_OCCUPIED ELSE I_OCCUPIED
  BY <1>2, <1>4, <1>5 DEF Tally
<1>8. w # NONE
  BY SomeName
<1> QED
  BY <1>3, <1>4, <1>5, <1>6, <1>7, <1>8 DEF D_OCCUPIED, I_OCCUPIED

\* mk_file and mk_dir refuse p, or show a new node.
Makes(d, m, res, c, p, kind) ==
  LET T == TreeOf(m.zone) IN
  \/ /\ res.ans = "4" /\ res.m = m
     /\ \/ WalkIn(T, c, p.abs, p.comps) # NONE \/ TargetIn(T, c, p) = NONE
        \/ get_free_id(m) < 0
  \/ /\ res.ans = "0" /\ WalkIn(T, c, p.abs, p.comps) = NONE
     /\ \E dir, at : /\ IsDirIn(T, dir) /\ Names(c, p, dir, at) /\ ~ExistsIn(T, at)
                     /\ Shows(d, m, res.m, pwd, T \cup {[at |-> at, kind |-> kind]})

\* They do.
LEMMA MakeShows ==
  ASSUME NEW d, NEW m, Sound(d, m, pwd), NEW c, Spelled(m.zone, pwd, c),
         NEW p \in Path, Creates(m, p),
         NEW state \in {I_OCCUPIED, D_OCCUPIED}, NEW res, res = make(m, p, state),
         NEW kind, kind = IF state = I_OCCUPIED THEN "file" ELSE "dir"
  PROVE  Makes(d, m, res, c, p, kind)
<1>0. PICK T, w : T = TreeOf(m.zone) /\ w = WalkIn(T, c, p.abs, p.comps)
  OBVIOUS
<1>1. Store(m.zone) /\ Here(m.zone, pwd)
  BY DEF Sound, IsMemory
<1>2. PICK U, r : Plan(m.zone, U, r) /\ Held(m.zone, U) /\ Tally(m.st, m.zone, U)
  BY DEF Sound, Whole
<1>3. \A n : Refused(n).m = n /\ Refused(n).ans = "4" /\ Done(n).m = n /\ Done(n).ans = "0"
  BY DEF Refused, Done
<1>4. CASE get_path(m, p).at # NONE
  <2>1. res = Refused(m)
    BY <1>4 DEF make
  <2>2. w # NONE
    <3>1. Agree(m.zone, get_path(m, p).at, w)
      BY <1>0, PathNames
    <3>2. Spelled(m.zone, get_path(m, p).at, w)
      BY <1>4, <3>1 DEF Agree
    <3> QED
      BY <3>2, SomeName
  <2> QED
    BY <1>0, <1>3, <2>1, <2>2 DEF Makes
<1>5. CASE get_path(m, p).at = NONE
  <2>1. PICK at, name, id, dir : /\ at = get_path(m, DirOf(p)).at /\ name = Last(p.comps)
                                 /\ id = get_free_id(m)
                                 /\ dir = WalkIn(T, c, p.abs, Front(p.comps))
    OBVIOUS
  <2>2. Dotted(p) /\ p.comps # <<>> /\ name \notin {".", ".."}
    BY <1>5, <2>1 DEF Creates, Dotted
  <2>3. /\ get_path(m, p).left = p
        /\ at = NONE \/ Here(m.zone, at)
        /\ at # NONE /\ get_state(m.st, Last(at)) = D_OCCUPIED =>
             \A j \in Subs : m.zone[Last(at)].subs[j].name # name
    <3>1. NoName(m, p, at)
      BY <1>1, <1>2, <1>5, <2>1, <2>2, NoSuchName
    <3> QED
      BY <2>1, <3>1 DEF NoName
  <2>4. rm_name(get_path(m, p).left).dir = DirOf(p) /\ rm_name(get_path(m, p).left).name = name
    <3>1. rm_name(p).dir = DirOf(p) /\ rm_name(p).name = name
      BY <2>1, <2>2, SplitIs
    <3> QED
      BY <2>3, <3>1, Zenon
  <2>5. Agree(m.zone, NONE, w) /\ Agree(m.zone, at, dir)
    BY <1>0, <1>5, <2>1, <2>2, PathNames
  <2>6. w = NONE
    BY <2>5, SomeName DEF Agree
  <2>7. CASE at = NONE \/ get_state(m.st, Last(at)) # D_OCCUPIED \/ id < 0
    <3>1. res = Refused(m)
      BY <2>1, <2>4, <2>7 DEF make
    <3>2. at = NONE => dir = NONE
      BY <2>5, SomeName DEF Agree
    <3>3. at # NONE /\ get_state(m.st, Last(at)) # D_OCCUPIED => ~IsDirIn(T, dir)
      BY <1>0, <2>5, WayState DEF Agree
    <3>4. dir = NONE \/ ~IsDirIn(T, dir) => TargetIn(T, c, p) = NONE
      BY <2>1 DEF TargetIn
    <3> QED
      BY <1>0, <1>3, <2>1, <2>7, <3>1, <3>2, <3>3, <3>4 DEF Makes
  <2>8. CASE ~(at = NONE \/ get_state(m.st, Last(at)) # D_OCCUPIED \/ id < 0)
    <3>1. PICK h, z, n, new : /\ h = Last(at) /\ z = IF state = I_OCCUPIED THEN Inode(h) ELSE Dentry(h)
                              /\ n = add_sub(write_zone(Taken(m, id, state), id, z), h, id, name)
                              /\ new = Append(dir, name)
      OBVIOUS
    <3>2. res = Done(n)
      BY <1>5, <2>1, <2>4, <2>8, <3>1 DEF make
    <3>3. Here(m.zone, at)
      BY <2>3, <2>8
    <3>4. h \in U /\ m.zone[h].type = "dentry"
      BY <1>2, <3>1, <3>3, WayIn DEF Here
    <3>5. Room(m.zone[h])
      BY <1>5, <2>1, <2>8, <3>1, <3>4 DEF Creates
    <3>6. id \in Id /\ m.st[id] = UNOCCUPIED
      BY <2>1, <2>8, FreeZone
    <3>7. name \in STRING /\ \A j \in Subs : m.zone[h].subs[j].name # name
      <4>1. Len(p.comps) \in 1 .. Len(p.comps)
        BY <2>2, DirIs DEF Dotted
      <4>2. name \in STRING
        BY <2>1, <4>1, PathIs DEF Last
      <4> QED
        BY <2>3, <2>8, <3>1, <4>2
    <3>8. Spelled(m.zone, at, dir) /\ dir # NONE /\ IsDirIn(T, dir)
      <4>1. Spelled(m.zone, at, dir)
        BY <2>5, <2>8 DEF Agree
      <4> QED
        BY <1>0, <2>8, <4>1, WayState
    <3>9. Shows(d, m, n, pwd, T \cup {[at |-> new, kind |-> kind]})
      <4>1. Shows(d, m, n, pwd, TreeOf(m.zone) \cup {[at |-> Append(dir, name), kind |-> kind]})
        BY <1>2, <3>1, <3>4, <3>5, <3>6, <3>7, <3>8, NewShows
      <4> QED
        BY <1>0, <3>1, <4>1
    <3>10. Names(c, p, dir, new)
      <4>1. Names(c, p, dir, Append(dir, Last(p.comps)))
        BY <2>1, <2>2, <3>8, DotNames
      <4> QED
        BY <2>1, <3>1, <4>1
    <3>11. ~ExistsIn(T, new)
      <4>1. w = IF ExistsIn(T, new) THEN new ELSE NONE
        BY <1>0, <3>8, <3>10 DEF Names
      <4>2. new # NONE
        <5>1. dir \in Seq(STRING)
          BY <3>8 DEF Spelled
        <5>2. new \in Seq(STRING)
          BY <3>1, <3>7, <5>1
        <5> QED
          BY <5>2, RequestAssumption
      <4> QED
        BY <2>6, <4>1, <4>2
    <3>12. res.m = n /\ res.ans = "0"
      BY <1>3, <3>2
    <3> QED
      BY <1>0, <2>6, <3>8, <3>9, <3>10, <3>11, <3>12 DEF Makes
  <2> QED
    BY <2>7, <2>8
<1> QED
  BY <1>4, <1>5

\* touch and mkdir.
LEMMA MakeDoes ==
  ASSUME NEW m, Sound(m.zone, m, pwd), m.writes = <<>>, NEW c, Spelled(m.zone, pwd, c),
         NEW p \in Path, Creates(m, p), NEW op \in {"touch", "mkdir"},
         NEW state, state = IF op = "touch" THEN I_OCCUPIED ELSE D_OCCUPIED,
         NEW res, res = make(m, p, state)
  PROVE  Refuses(m, res, c, op, p) \/ Carries(m, res, c, op, p)
<1>0. PICK T, w, t, kind : /\ T = TreeOf(m.zone) /\ w = WalkIn(T, c, p.abs, p.comps)
                           /\ t = TargetIn(T, c, p) /\ kind = IF state = I_OCCUPIED THEN "file" ELSE "dir"
  OBVIOUS
<1>1. state \in {I_OCCUPIED, D_OCCUPIED} /\ kind = (IF op = "touch" THEN "file" ELSE "dir")
  BY <1>0 DEF I_OCCUPIED, D_OCCUPIED
<1>2. Makes(m.zone, m, res, c, p, kind)
  BY <1>0, <1>1, MakeShows
<1>3. CanIn(T, c, op, p) <=> w = NONE /\ t # NONE
  BY <1>0 DEF CanIn
<1>4. CASE /\ res.ans = "4" /\ res.m = m
           /\ w # NONE \/ t = NONE \/ get_free_id(m) < 0
  BY <1>0, <1>3, <1>4 DEF Refuses
<1>5. CASE /\ res.ans = "0" /\ w = NONE
           /\ \E dir, at : /\ IsDirIn(T, dir) /\ Names(c, p, dir, at) /\ ~ExistsIn(T, at)
                           /\ Shows(m.zone, m, res.m, pwd, T \cup {[at |-> at, kind |-> kind]})
  <2>1. PICK dir, at : /\ IsDirIn(T, dir) /\ Names(c, p, dir, at)
                       /\ Shows(m.zone, m, res.m, pwd, T \cup {[at |-> at, kind |-> kind]})
    BY <1>5
  <2>2. t = at /\ t # NONE
    <3>1. t = at /\ at = Append(dir, Last(p.comps)) /\ dir # NONE
      BY <1>0, <2>1 DEF Names
    <3>2. TreeOf(res.m.zone) = T \cup {[at |-> at, kind |-> kind]}
      BY <2>1 DEF Shows
    <3>3. [at |-> at, kind |-> kind] \in TreeOf(res.m.zone)
      BY <3>2
    <3>4. at \in Seq(STRING)
      BY <3>3, TreeNames
    <3> QED
      BY <3>1, <3>4, RequestAssumption
  <2>3. PICK A : A = [at |-> pwd, cwd |-> c, op |-> op, node |-> [at |-> t, kind |-> kind]]
    OBVIOUS
  <2>4. A.at = pwd /\ A.cwd = c /\ A.op = op /\ A.node = [at |-> t, kind |-> kind]
    BY <2>3
  <2>5. Told(m.zone, m, A)
    BY <2>4, TellNothing
  <2>6. Ends(A, T, T \cup {[at |-> at, kind |-> kind]})
    BY <2>2, <2>4 DEF Ends
  <2>7. Story(m.zone, res.m.writes, A)
    BY <1>0, <2>1, <2>4, <2>5, <2>6 DEF Shows
  <2>8. Fits(T, A, p)
    BY <1>0, <1>1, <2>4 DEF Fits
  <2>9. CanIn(T, c, op, p)
    BY <1>3, <1>5, <2>2
  <2> QED
    BY <1>0, <1>5, <2>4, <2>7, <2>8, <2>9 DEF Carries
<1> QED
  BY <1>0, <1>2, <1>4, <1>5 DEF Makes

\* rm_file and rm_dir show that the node p names is gone.
Takes(d, m, res, c, p, kind) ==
  LET T == TreeOf(m.zone)
      w == WalkIn(T, c, p.abs, p.comps)
  IN  /\ res.ans = "0" /\ w # NONE /\ [at |-> w, kind |-> kind] \in T
      /\ Shows(d, m, res.m, pwd, T \ {[at |-> w, kind |-> kind]})

\* They do, of a node that the session is not in.
LEMMA TakeShows ==
  ASSUME NEW d, NEW m, Sound(d, m, pwd), NEW c, Spelled(m.zone, pwd, c), NEW p \in Path,
         NEW way, way = get_path(m, p).at, way # NONE, Last(pwd) # Last(way), Len(way) # 1,
         NEW res, res.ans = "0", Left(m, res.m, Last(way)),
         NEW kind, kind = KindOf(m.zone[Last(way)])
  PROVE  Takes(d, m, res, c, p, kind)
<1>1. PICK T, w, n : T = TreeOf(m.zone) /\ w = WalkIn(T, c, p.abs, p.comps) /\ n = res.m
  OBVIOUS
<1>2. Spelled(m.zone, way, w)
  <2>1. Agree(m.zone, way, w)
    BY <1>1, PathNames
  <2> QED
    BY <2>1 DEF Agree
<1>3. w # NONE /\ w # <<>>
  BY <1>2, SomeName
<1>4. Store(m.zone)
  BY DEF Sound, IsMemory
<1>5. PICK U, r : Plan(m.zone, U, r)
  BY DEF Sound, Whole
<1>6. [at |-> w, kind |-> kind] \in T
  <2>1. [at |-> w, kind |-> KindOf(m.zone[Last(way)])] \in TreeOf(m.zone)
    BY <1>2, <1>3, <1>4, <1>5, NodeKinds
  <2> QED
    BY <1>1, <2>1
<1>7. Shows(d, m, n, pwd, T \ {[at |-> w, kind |-> kind]})
  <2>1. PICK x : x = Last(way)
    OBVIOUS
  <2>2. Left(m, n, x) /\ Last(pwd) # x
    BY <1>1, <2>1
  <2>3. Shows(d, m, n, pwd, TreeOf(m.zone) \ {[at |-> w, kind |-> KindOf(m.zone[x])]})
    BY <1>2, <2>1, <2>2, LeftShows
  <2> QED
    BY <1>1, <2>1, <2>3
<1> QED
  BY <1>1, <1>3, <1>6, <1>7 DEF Takes

\* rm_file of a file.
LEMMA RmFileShows ==
  ASSUME NEW d, NEW m, Sound(d, m, pwd), NEW c, Spelled(m.zone, pwd, c), NEW p \in Path,
         NEW way, way = get_path(m, p).at, way # NONE, m.zone[Last(way)].type = "inode",
         NEW lost, NEW res, res = rm_file(m, p, lost)
  PROVE  Takes(d, m, res, c, p, "file")
<1>1. /\ way = NONE => res = Refused(m)
      /\ way # NONE => /\ res.ans = "0" /\ Removed(d, res.m, pwd, way[Len(way) - 1])
                       /\ Way(m.zone, way) /\ Len(way) # 1
                       /\ Left(m, res.m, Last(way))
  BY RmFileKeeps
<1>2. Last(pwd) # Last(way)
  <2>1. m.zone[Last(pwd)].type = "dentry"
    BY DEF Sound, Here
  <2> QED
    BY <2>1
<1>3. KindOf(m.zone[Last(way)]) = "file"
  BY DEF KindOf
<1>4. PICK kind : kind = KindOf(m.zone[Last(way)]) /\ kind = "file"
  BY <1>3
<1>5. res.ans = "0" /\ Left(m, res.m, Last(way)) /\ Len(way) # 1
  BY <1>1
<1>6. Takes(d, m, res, c, p, kind)
  BY <1>2, <1>4, <1>5, TakeShows
<1> QED
  BY <1>4, <1>6

\* A command that shows a node less does what it should.
LEMMA TakeDoes ==
  ASSUME NEW m, m.writes = <<>>, NEW c, Spelled(m.zone, pwd, c), NEW p,
         NEW op \in {"rm", "rmdir"}, NEW res, NEW kind, Takes(m.zone, m, res, c, p, kind),
         CanIn(TreeOf(m.zone), c, op, p)
  PROVE  Carries(m, res, c, op, p)
<1>1. PICK T, w : T = TreeOf(m.zone) /\ w = WalkIn(T, c, p.abs, p.comps)
  OBVIOUS
<1>2. /\ res.ans = "0" /\ [at |-> w, kind |-> kind] \in T
      /\ Shows(m.zone, m, res.m, pwd, T \ {[at |-> w, kind |-> kind]})
  BY <1>1 DEF Takes
<1>3. PICK n : n = [at |-> w, kind |-> kind] /\ n.at = w
  BY RecordIs
<1>4. PICK A : A = [at |-> pwd, cwd |-> c, op |-> op, node |-> n]
  OBVIOUS
<1>5. A.at = pwd /\ A.cwd = c /\ A.op = op /\ A.node = n
  BY <1>4
<1>6. Told(m.zone, m, A)
  BY <1>5, TellNothing
<1>7. Ends(A, T, T \ {n})
  BY <1>5 DEF Ends
<1>8. Story(m.zone, res.m.writes, A)
  BY <1>1, <1>2, <1>3, <1>5, <1>6, <1>7 DEF Shows
<1>9. Fits(T, A, p)
  <2>1. A.node \in T /\ A.node.at = WalkIn(T, A.cwd, p.abs, p.comps)
    BY <1>1, <1>2, <1>3, <1>5
  <2> QED
    BY <1>5, <2>1 DEF Fits
<1> QED
  BY <1>1, <1>2, <1>5, <1>8, <1>9 DEF Carries

\* rm.
LEMMA RmDoes ==
  ASSUME NEW m, Sound(m.zone, m, pwd), m.writes = <<>>, NEW c, Spelled(m.zone, pwd, c),
         NEW p \in Path, NEW way, way = get_path(m, p).at,
         way # NONE => m.zone[Last(way)].type = "inode",
         NEW lost, NEW res, res = rm_file(m, p, lost)
  PROVE  Refuses(m, res, c, "rm", p) \/ Carries(m, res, c, "rm", p)
<1>1. PICK T, w : T = TreeOf(m.zone) /\ w = WalkIn(T, c, p.abs, p.comps)
  OBVIOUS
<1>2. CanIn(T, c, "rm", p) <=> w # NONE /\ ~IsDirIn(T, w)
  BY <1>1 DEF CanIn
<1>3. Agree(m.zone, way, w)
  BY <1>1, PathNames
<1>4. CASE way = NONE
  <2>1. res = Refused(m)
    BY <1>4 DEF rm_file
  <2>2. w = NONE
    BY <1>3, <1>4, SomeName DEF Agree
  <2> QED
    BY <1>1, <1>2, <2>1, <2>2 DEF Refuses, Refused
<1>5. CASE way # NONE
  <2>1. Takes(m.zone, m, res, c, p, "file")
    BY <1>5, RmFileShows
  <2>2. CanIn(T, c, "rm", p)
    <3>1. Spelled(m.zone, way, w)
      BY <1>3, <1>5 DEF Agree
    <3>2. w # NONE /\ ~IsDirIn(T, w)
      BY <1>1, <1>5, <3>1, WayState
    <3> QED
      BY <1>2, <3>2
  <2>3. PICK op, kind : op = "rm" /\ op \in {"rm", "rmdir"} /\ kind = "file"
    OBVIOUS
  <2>4. Carries(m, res, c, op, p)
    BY <1>1, <2>1, <2>2, <2>3, TakeDoes
  <2> QED
    BY <2>3, <2>4
<1> QED
  BY <1>4, <1>5

\* The names of a way on the way.
LEMMA PrefixWay ==
  ASSUME NEW d, Store(d), NEW s, NEW w, Spelled(d, s, w), NEW t, NEW v, Spelled(d, t, v),
         IsPrefix(v, w)
  PROVE  \E k \in 1 .. Len(s) : s[k] = Last(t)
<1>1. /\ s \in Seq(Id) /\ w \in Seq(STRING) /\ Len(s) = Len(w) + 1 /\ Len(w) \in Nat
      /\ t \in Seq(Id) /\ v \in Seq(STRING) /\ Len(t) = Len(v) + 1 /\ Len(v) \in Nat
  BY DEF Spelled
<1>2. /\ s[1] = Root /\ t[1] = Root
      /\ \A k \in 1 .. Len(w) : Ent(d[s[k]], w[k], s[k + 1])
      /\ \A k \in 1 .. Len(v) : Ent(d[t[k]], v[k], t[k + 1])
  BY DEF Spelled
<1>3. Len(v) <= Len(w) /\ \A k \in 1 .. Len(v) : v[k] = w[k]
  <2>1. Len(v) <= Len(w) /\ SubSeq(v, 1, Len(v)) = SubSeq(w, 1, Len(v))
    BY DEF IsPrefix
  <2>2. \A k \in 1 .. Len(v) : SubSeq(v, 1, Len(v))[k] = v[k]
    BY <1>1
  <2>3. \A k \in 1 .. Len(v) : SubSeq(w, 1, Len(v))[k] = w[k]
    BY <1>1, <2>1
  <2> QED
    BY <2>1, <2>2, <2>3
<1> DEFINE Q == {k \in 1 .. Len(v) + 1 : t[k] = s[k]}
<1>4. 1 \in Q
  BY <1>1, <1>2
<1>5. ASSUME NEW k \in 1 .. Len(v), t[k] = s[k]
      PROVE  t[k + 1] = s[k + 1]
  <2>1. k \in 1 .. Len(w) /\ k \in 1 .. Len(s) /\ v[k] = w[k]
    BY <1>1, <1>3
  <2>2. PICK z : z = d[s[k]] /\ Formed(z)
    BY <1>1, <2>1 DEF Store
  <2>3. Ent(z, w[k], s[k + 1]) /\ Ent(z, w[k], t[k + 1])
    BY <1>2, <1>5, <2>1, <2>2
  <2> QED
    BY <2>2, <2>3, EntIs
<1> DEFINE P == {j \in Nat : j + 1 \in Q}
<1>6. 0 .. Len(v) \subseteq P
  <2>1. 0 \in P
    BY <1>4
  <2>2. \A j \in 0 .. Len(v) - 1 : j \in P => j + 1 \in P
    <3> SUFFICES ASSUME NEW j \in 0 .. Len(v) - 1, t[j + 1] = s[j + 1]
                 PROVE  j + 1 \in Nat /\ (j + 1) + 1 \in 1 .. Len(v) + 1 /\ t[(j + 1) + 1] = s[(j + 1) + 1]
      OBVIOUS
    <3>1. j + 1 \in 1 .. Len(v)
      BY <1>1
    <3>2. t[(j + 1) + 1] = s[(j + 1) + 1]
      BY <1>5, <3>1
    <3> QED
      BY <1>1, <3>1, <3>2
  <2> HIDE DEF P
  <2> QED
    BY <1>1, <2>1, <2>2, InductTo
<1>7. t[Len(v) + 1] = s[Len(v) + 1]
  <2>1. Len(v) \in 0 .. Len(v)
    BY <1>1
  <2>2. Len(v) \in P
    <3> HIDE DEF P
    <3> QED
      BY <1>6, <2>1
  <2> QED
    BY <2>2
<1>8. Last(t) = t[Len(v) + 1] /\ Len(v) + 1 \in 1 .. Len(s)
  BY <1>1, <1>3 DEF Last
<1> QED
  BY <1>7, <1>8

\* rmdir.
LEMMA RmdirDoes ==
  ASSUME NEW m, Sound(m.zone, m, pwd), m.writes = <<>>, NEW c, Spelled(m.zone, pwd, c),
         NEW p \in Path, NEW way, way = get_path(m, p).at,
         way # NONE => /\ m.zone[Last(way)].type = "dentry" /\ Used(m.zone[Last(way)]) = {}
                       /\ \A k \in 1 .. Len(pwd) : pwd[k] # Last(way),
         NEW lost, NEW res, res = rm_dir(m, p, lost)
  PROVE  Refuses(m, res, c, "rmdir", p) \/ Carries(m, res, c, "rmdir", p)
<1>1. PICK T, w : T = TreeOf(m.zone) /\ w = WalkIn(T, c, p.abs, p.comps)
  OBVIOUS
<1>2. CanIn(T, c, "rmdir", p) <=> /\ w # NONE /\ IsDirIn(T, w)
                                  /\ {n \in T : n.at # <<>> /\ Front(n.at) = w} = {}
                                  /\ ~IsPrefix(w, c)
  BY <1>1 DEF CanIn
<1>3. Agree(m.zone, way, w)
  BY <1>1, PathNames
<1>4. CASE way = NONE
  <2>1. res = Refused(m)
    BY <1>4 DEF rm_dir
  <2>2. w = NONE
    BY <1>3, <1>4, SomeName DEF Agree
  <2> QED
    BY <1>1, <1>2, <2>1, <2>2 DEF Refuses, Refused
<1>5. CASE way # NONE
  <2>1. PICK x, z : x = Last(way) /\ z = m.zone[x]
    OBVIOUS
  <2>2. z.type = "dentry" /\ Used(z) = {} /\ \A k \in 1 .. Len(pwd) : pwd[k] # x
    BY <1>5, <2>1
  <2>3. Spelled(m.zone, way, w) /\ Store(m.zone)
    BY <1>3, <1>5 DEF Agree, Sound, IsMemory
  <2>4. w # NONE /\ IsDirIn(T, w) /\ x \in Id
    BY <1>1, <2>1, <2>2, <2>3, WayState
  <2>5. ASSUME NEW n \in T, n.at # <<>>, Front(n.at) = w
        PROVE  FALSE
    <3>1. PICK s : Spelled(m.zone, s, n.at)
      BY <1>1, <2>5 DEF TreeOf
    <3>2. PICK u : u = n.at /\ u # <<>> /\ Front(u) = w /\ Spelled(m.zone, s, u)
      BY <2>5, <3>1
    <3>3. Spelled(m.zone, Front(s), w) /\ Ent(m.zone[Last(Front(s))], Last(u), Last(s))
      BY <2>3, <3>2, SpelledFront
    <3>4. Front(s) = way
      BY <2>3, <3>3, OneTarget
    <3>5. Ent(z, Last(u), Last(s))
      BY <2>1, <3>3, <3>4
    <3>6. PICK i \in Subs : z.subs[i].id # 0
      BY <3>5 DEF Ent
    <3>7. DOMAIN z.subs = Subs
      <4>1. Formed(z)
        BY <2>1, <2>3, <2>4 DEF Store
      <4>2. IsSubs(z.subs)
        BY <2>2, <4>1, FormedIs
      <4> QED
        BY <4>2 DEF IsSubs
    <3> QED
      BY <2>2, <3>6, <3>7 DEF Used
  <2>6. ~IsPrefix(w, c)
    <3> SUFFICES ASSUME IsPrefix(w, c)
                 PROVE  FALSE
      OBVIOUS
    <3>1. \E k \in 1 .. Len(pwd) : pwd[k] = Last(way)
      BY <2>3, PrefixWay
    <3> QED
      BY <2>1, <2>2, <3>1
  <2>7. CanIn(T, c, "rmdir", p)
    BY <1>2, <2>4, <2>5, <2>6
  <2>8. res.ans = "0" /\ Left(m, res.m, Last(way))
    <3>1. /\ way = NONE => res = Refused(m)
          /\ way # NONE => res.ans = "0" /\ Sound(m.zone, res.m, pwd) /\ Left(m, res.m, Last(way))
      BY RmDirKeeps
    <3> QED
      BY <1>5, <3>1
  <2>9. Last(pwd) # Last(way) /\ Len(way) # 1
    <3>1. pwd \in Seq(Id) /\ Len(pwd) >= 1 /\ pwd[1] = Root
      BY DEF Sound, Here, Way
    <3>2. Len(pwd) \in 1 .. Len(pwd) /\ 1 \in 1 .. Len(pwd)
      BY <3>1
    <3>3. Last(pwd) = pwd[Len(pwd)]
      BY DEF Last
    <3>4. Len(way) = 1 => Last(way) = Root
      BY <2>3 DEF Spelled, Last
    <3> QED
      BY <2>1, <2>2, <3>1, <3>2, <3>3, <3>4
  <2>10. PICK op, kind : op = "rmdir" /\ op \in {"rm", "rmdir"} /\ kind = KindOf(m.zone[Last(way)])
    OBVIOUS
  <2>11. Takes(m.zone, m, res, c, p, kind)
    BY <1>5, <2>8, <2>9, <2>10, TakeShows
  <2>12. Carries(m, res, c, op, p)
    BY <1>1, <2>7, <2>10, <2>11, TakeDoes
  <2> QED
    BY <2>10, <2>12
<1> QED
  BY <1>4, <1>5

\* No zone is free.
LEMMA NoZone ==
  ASSUME NEW m, get_free_id(m) < 0
  PROVE  \A id \in Id : m.st[id] # UNOCCUPIED
<1> DEFINE free == {id \in Id : m.st[id] = UNOCCUPIED}
<1>1. CASE free = {}
  BY <1>1
<1>2. CASE free # {}
  <2>1. get_free_id(m) = CHOOSE id \in free : \A j \in free : id <= j
    BY <1>2 DEF get_free_id
  <2>2. free \subseteq Nat
    BY Limits
  <2> HIDE DEF free
  <2>3. \E id \in free : \A j \in free : id <= j
    BY <1>2, <2>2, LeastNat
  <2>4. get_free_id(m) \in Nat
    BY <2>1, <2>2, <2>3
  <2> QED
    BY <2>4
<1> QED
  BY <1>1, <1>2

\* After a node is gone one is.
LEMMA LeftFree ==
  ASSUME NEW m, IsMemory(m), NEW n, NEW x, Left(m, n, x)
  PROVE  ~(get_free_id(n) < 0)
<1>1. PICK S, U, r : /\ Plan(m.zone, U, r) /\ x \in U \cap S
                     /\ Leaving(set_free_id(m, S), n, U, m.zone[x].parent, x)
  BY DEF Left
<1>2. PICK g, p : g = set_free_id(m, S) /\ p = m.zone[x].parent
  OBVIOUS
<1>3. PICK y, e : Written(g, p, y, e, n)
  BY <1>1, <1>2 DEF Leaving
<1>4. x \in Id /\ x \in S
  BY <1>1 DEF Plan
<1>5. g = [zone |-> m.zone, st |-> [i \in Id |-> IF i \in S THEN UNOCCUPIED ELSE m.st[i]],
           writes |-> m.writes]
  BY <1>2, MemoryFields
<1>6. g.st[x] = UNOCCUPIED
  BY <1>4, <1>5
<1>7. p \in Id /\ n = write_zone(g, p, y)
  BY <1>3 DEF Written
<1>8. n.st = g.st
  <2>1. ~(p < Root)
    BY <1>7, Limits
  <2>2. PICK v : v = [g.zone EXCEPT ![p] = y]
    OBVIOUS
  <2>3. [g EXCEPT !.zone[p] = y] = [zone |-> v, st |-> g.st, writes |-> g.writes]
    BY <1>5, <2>2
  <2> QED
    BY <1>7, <2>1, <2>3 DEF write_zone
<1>9. n.st[x] = UNOCCUPIED
  BY <1>6, <1>8
<1> QED
  BY <1>4, <1>9, NoZone

\* append refuses p, or shows nothing.
Lengthens(d, m, res, c, p) ==
  LET T == TreeOf(m.zone)
      w == WalkIn(T, c, p.abs, p.comps)
  IN  \/ res.ans = "4" /\ res.m = m /\ (w = NONE \/ IsDirIn(T, w))
      \/ res.ans = "0" /\ w # NONE /\ ~IsDirIn(T, w) /\ Shows(d, m, res.m, pwd, T)

\* It does.
LEMMA AppendShows ==
  ASSUME NEW d, NEW m, Sound(d, m, pwd), NEW c, Spelled(m.zone, pwd, c), NEW p \in Path,
         NEW k \in Nat, NEW res, res = append(m, p, k)
  PROVE  Lengthens(d, m, res, c, p)
<1>1. PICK T, w, way : /\ T = TreeOf(m.zone) /\ w = WalkIn(T, c, p.abs, p.comps)
                       /\ way = get_path(m, p).at
  OBVIOUS
<1>2. Agree(m.zone, way, w)
  BY <1>1, PathNames
<1>3. \A n : Refused(n).m = n /\ Refused(n).ans = "4" /\ Done(n).m = n /\ Done(n).ans = "0"
  BY DEF Refused, Done
<1>4. CASE way = NONE \/ get_state(m.st, Last(way)) # I_OCCUPIED
  <2>1. res = Refused(m)
    BY <1>1, <1>4 DEF append
  <2>2. w = NONE \/ IsDirIn(T, w)
    <3>1. CASE way = NONE
      BY <1>2, <3>1, SomeName DEF Agree
    <3>2. CASE way # NONE
      <4>1. Spelled(m.zone, way, w)
        BY <1>2, <3>2 DEF Agree
      <4> QED
        BY <1>1, <1>4, <3>2, <4>1, WayState
    <3> QED
      BY <3>1, <3>2
  <2> QED
    BY <1>1, <1>3, <2>1, <2>2 DEF Lengthens
<1>5. CASE way # NONE /\ get_state(m.st, Last(way)) = I_OCCUPIED
  <2>1. PICK x, n : x = Last(way) /\ n = add_data(m, x, k)
    OBVIOUS
  <2>2. res = Done(n)
    BY <1>1, <1>5, <2>1 DEF append
  <2>3. Spelled(m.zone, way, w)
    BY <1>2, <1>5 DEF Agree
  <2>4. w # NONE /\ ~IsDirIn(T, w) /\ m.zone[x].type = "inode"
    BY <1>1, <1>5, <2>1, <2>3, WayState
  <2>5. PICK U, r : Plan(m.zone, U, r) /\ Held(m.zone, U) /\ Tally(m.st, m.zone, U)
    BY DEF Sound, Whole
  <2>6. x \in U
    <3>1. Store(m.zone)
      BY DEF Sound, IsMemory
    <3> QED
      BY <2>1, <2>3, <2>5, <3>1, OnWay
  <2>7. Shows(d, m, n, pwd, T)
    <3>1. Shows(d, m, add_data(m, x, k), pwd, TreeOf(m.zone))
      BY <2>4, <2>5, <2>6, AddDataShows
    <3> QED
      BY <1>1, <2>1, <3>1
  <2>8. res.ans = "0" /\ res.m = n
    BY <1>3, <2>2
  <2> QED
    BY <1>1, <2>4, <2>7, <2>8 DEF Lengthens
<1> QED
  BY <1>4, <1>5

\* append.
LEMMA AppendDoes ==
  ASSUME NEW m, Sound(m.zone, m, pwd), m.writes = <<>>, NEW c, Spelled(m.zone, pwd, c),
         NEW p \in Path, NEW k \in Nat, NEW res, res = append(m, p, k)
  PROVE  Refuses(m, res, c, "append", p) \/ Carries(m, res, c, "append", p)
<1>1. PICK T, w : T = TreeOf(m.zone) /\ w = WalkIn(T, c, p.abs, p.comps)
  OBVIOUS
<1>2. CanIn(T, c, "append", p) <=> w # NONE /\ ~IsDirIn(T, w)
  BY <1>1 DEF CanIn
<1>3. PICK d : d = m.zone
  OBVIOUS
<1>4. Lengthens(d, m, res, c, p)
  BY <1>3, AppendShows
<1>5. CASE res.ans = "4" /\ res.m = m /\ (w = NONE \/ IsDirIn(T, w))
  BY <1>1, <1>2, <1>5 DEF Refuses
<1>6. CASE res.ans = "0" /\ w # NONE /\ ~IsDirIn(T, w) /\ Shows(d, m, res.m, pwd, T)
  <2>1. PICK A : A = [at |-> pwd, cwd |-> c, op |-> "append"]
    OBVIOUS
  <2>2. A.at = pwd /\ A.cwd = c /\ A.op = "append"
    BY <2>1
  <2>3. Told(d, m, A)
    BY <1>3, <2>2, TellNothing
  <2>4. Ends(A, T, T)
    BY <2>2 DEF Ends
  <2>5. Story(d, res.m.writes, A)
    BY <1>1, <1>6, <2>2, <2>3, <2>4 DEF Shows
  <2>6. Fits(T, A, p)
    BY <2>2 DEF Fits
  <2>7. CanIn(T, c, "append", p)
    BY <1>2, <1>6
  <2> QED
    BY <1>1, <1>3, <1>6, <2>2, <2>5, <2>6, <2>7 DEF Carries
<1> QED
  BY <1>1, <1>4, <1>5, <1>6 DEF Lengthens

\* The aim of a write of file at.
Writing(A, c, at) ==
  A.at = pwd /\ A.cwd = c /\ A.op = "write" /\ A.node = [at |-> at, kind |-> "file"]

\* No two nodes of one name.
LEMMA OneKind ==
  ASSUME NEW d, Store(d), NEW w, NEW k, NEW l,
         [at |-> w, kind |-> k] \in TreeOf(d), [at |-> w, kind |-> l] \in TreeOf(d)
  PROVE  k = l
<1>1. PICK n : n = [at |-> w, kind |-> k] /\ n.at = w /\ n.kind = k
  BY RecordIs
<1>2. PICK o : o = [at |-> w, kind |-> l] /\ o.at = w /\ o.kind = l
  BY RecordIs
<1>3. n = o
  BY <1>1, <1>2, TreeUnique
<1> QED
  BY <1>1, <1>2, <1>3

\* Where no node is of a name,
LEMMA NotThere ==
  ASSUME NEW d, NEW w, ~ExistsIn(TreeOf(d), w)
  PROVE  \A n \in TreeOf(d) : n.at # w
<1> SUFFICES ASSUME NEW n \in TreeOf(d), n.at = w
             PROVE  FALSE
  OBVIOUS
<1>1. n \in [at : Seq(STRING), kind : {"dir", "file"}]
  BY DEF TreeOf
<1>2. n = [at |-> w, kind |-> n.kind] /\ n.kind \in {"dir", "file"}
  BY <1>1
<1>3. [at |-> w, kind |-> n.kind] \in TreeOf(d)
  BY <1>2
<1> QED
  BY <1>2, <1>3 DEF ExistsIn

\* the file can come.
LEMMA FileComes ==
  ASSUME NEW A, NEW c, NEW at, Writing(A, c, at), NEW d, NEW T, T = TreeOf(d), ~ExistsIn(T, at)
  PROVE  Still(A, T, T \cup {[at |-> at, kind |-> "file"]})
<1>1. PICK N : N = [at |-> at, kind |-> "file"] /\ N.at = at
  BY RecordIs
<1>2. A.op = "write" /\ A.node = N
  BY <1>1 DEF Writing
<1>3. \A n \in T : n.at # N.at
  BY <1>1, NotThere
<1> QED
  BY <1>1, <1>2, <1>3 DEF Still

\* Where it is,
LEMMA FileGoes ==
  ASSUME NEW A, NEW c, NEW at, Writing(A, c, at), NEW T, [at |-> at, kind |-> "file"] \in T
  PROVE  /\ Still(A, T, T \ {[at |-> at, kind |-> "file"]})
         /\ Ends(A, T, T)
<1>1. PICK N : N = [at |-> at, kind |-> "file"]
  OBVIOUS
<1>2. A.op = "write" /\ A.node = N /\ N \in T
  BY <1>1 DEF Writing
<1>3. Still(A, T, T \ {N})
  BY <1>2 DEF Still
<1>4. Ends(A, T, T)
  BY <1>2 DEF Ends
<1> QED
  BY <1>1, <1>3, <1>4

\* A node of another kind is another.
LEMMA OtherKind ==
  ASSUME NEW v, NEW w, NEW k, NEW l, k # l
  PROVE  [at |-> v, kind |-> k] # [at |-> w, kind |-> l]
<1>1. PICK n : n = [at |-> v, kind |-> k] /\ n.at = v /\ n.kind = k
  BY RecordIs
<1>2. PICK o : o = [at |-> w, kind |-> l] /\ o.at = w /\ o.kind = l
  BY RecordIs
<1> QED
  BY <1>1, <1>2

\* A directory next to it stays one.
LEMMA DirStays ==
  ASSUME NEW T, NEW dir, IsDirIn(T, dir), NEW at
  PROVE  /\ IsDirIn(T \cup {[at |-> at, kind |-> "file"]}, dir)
         /\ IsDirIn(T \ {[at |-> at, kind |-> "file"]}, dir)
<1>1. [at |-> dir, kind |-> "dir"] # [at |-> at, kind |-> "file"]
  <2>1. PICK k, l : k = "dir" /\ l = "file" /\ k # l
    OBVIOUS
  <2>2. [at |-> dir, kind |-> k] # [at |-> at, kind |-> l]
    BY <2>1, OtherKind
  <2> QED
    BY <2>1, <2>2
<1> QED
  BY <1>1 DEF IsDirIn

\* The second half of write, which makes the file and appends to it.
LEMMA WriteTail ==
  ASSUME NEW d, NEW m, Sound(d, m, pwd), NEW c, NEW p \in Path, Creates(m, p),
         NEW A, Told(d, m, A), NEW dir, NEW at, Writing(A, c, at), Names(c, p, dir, at),
         IsDirIn(TreeOf(m.zone), dir), ~ExistsIn(TreeOf(m.zone), at), at # NONE,
         NEW made, made = make(m, p, I_OCCUPIED), made.ans = "0" \/ ~(get_free_id(m) < 0),
         NEW k \in Nat, NEW out, out = append(made.m, p, k)
  PROVE  made.ans = "0" /\ out.ans = "0" /\ Story(d, out.m.writes, A)
<1>1. PICK T, S : T = TreeOf(m.zone) /\ S = T \cup {[at |-> at, kind |-> "file"]}
  OBVIOUS
<1>2. A.at = pwd /\ A.cwd = c
  BY DEF Writing
<1>3. Spelled(m.zone, pwd, c)
  BY <1>2, ToldHere
<1>4. PICK state, kind : state = I_OCCUPIED /\ kind = "file"
  OBVIOUS
<1>5. Makes(d, m, made, c, p, kind)
  <2>1. state \in {I_OCCUPIED, D_OCCUPIED} /\ kind = (IF state = I_OCCUPIED THEN "file" ELSE "dir")
    BY <1>4
  <2>2. made = make(m, p, state)
    BY <1>4
  <2> QED
    BY <1>3, <2>1, <2>2, MakeShows
<1>6. TargetIn(T, c, p) = at /\ WalkIn(T, c, p.abs, p.comps) = NONE
  BY <1>1 DEF Names
<1>7. made.ans = "0" /\ \E dir2, at2 : /\ IsDirIn(T, dir2) /\ Names(c, p, dir2, at2)
                                      /\ Shows(d, m, made.m, pwd, T \cup {[at |-> at2, kind |-> kind]})
  <2>1. CASE made.ans = "4"
    BY <1>1, <1>5, <1>6, <2>1 DEF Makes
  <2>2. CASE made.ans # "4"
    BY <1>1, <1>5, <2>2 DEF Makes
  <2> QED
    BY <2>1, <2>2
<1>8. Shows(d, m, made.m, pwd, S)
  <2>1. PICK dir2, at2 : /\ IsDirIn(T, dir2) /\ Names(c, p, dir2, at2)
                         /\ Shows(d, m, made.m, pwd, T \cup {[at |-> at2, kind |-> kind]})
    BY <1>7
  <2>2. TargetIn(T, c, p) = at2
    BY <2>1 DEF Names
  <2> QED
    BY <1>1, <1>4, <1>6, <2>1, <2>2
<1>9. PICK n : n = made.m
  OBVIOUS
<1>10. Told(d, n, A) /\ TreeOf(n.zone) = S
  <2>1. Still(A, T, S)
    BY <1>1, FileComes
  <2> QED
    BY <1>1, <1>2, <1>8, <1>9, <2>1 DEF Shows
<1>11. Sound(d, n, pwd) /\ Spelled(n.zone, pwd, c) /\ Store(n.zone)
  <2>1. state \in {I_OCCUPIED, D_OCCUPIED} /\ made = make(m, p, state)
    BY <1>4
  <2>2. Sound(d, made.m, pwd) /\ (made.ans = "0" \/ (made.ans = "4" /\ made.m = m))
    BY <2>1, MakeKeeps
  <2>3. Spelled(n.zone, pwd, c)
    BY <1>2, <1>10, ToldHere
  <2>4. Sound(d, n, pwd)
    BY <1>9, <2>2
  <2> QED
    BY <2>3, <2>4 DEF Sound, IsMemory
<1>12. [at |-> at, kind |-> "file"] \in S
  BY <1>1
<1>13. WalkIn(S, c, p.abs, p.comps) = at
  <2>1. IsDirIn(S, dir)
    BY <1>1, DirStays
  <2>2. ExistsIn(S, at)
    BY <1>12 DEF ExistsIn
  <2> QED
    BY <2>1, <2>2 DEF Names
<1>14. ~IsDirIn(S, at)
  <2> SUFFICES ASSUME IsDirIn(S, at)
               PROVE  FALSE
    OBVIOUS
  <2>1. [at |-> at, kind |-> "file"] \in TreeOf(n.zone)
    BY <1>10, <1>12
  <2>2. at # <<>>
    BY <2>1, TreeHas
  <2>3. [at |-> at, kind |-> "dir"] \in TreeOf(n.zone)
    BY <1>10, <2>2 DEF IsDirIn
  <2>4. PICK k1, k2 : k1 = "file" /\ k2 = "dir"
    OBVIOUS
  <2>5. [at |-> at, kind |-> k1] \in TreeOf(n.zone) /\ [at |-> at, kind |-> k2] \in TreeOf(n.zone)
    BY <2>1, <2>3, <2>4
  <2>6. k1 = k2
    BY <1>11, <2>5, OneKind
  <2> QED
    BY <2>4, <2>6
<1>15. out.ans = "0" /\ Shows(d, n, out.m, pwd, S)
  <2>1. out = append(n, p, k)
    BY <1>9
  <2>2. Lengthens(d, n, out, c, p)
    BY <1>11, <2>1, AppendShows
  <2> QED
    BY <1>10, <1>13, <1>14, <2>2 DEF Lengthens
<1>16. Story(d, out.m.writes, A)
  <2>1. Ends(A, S, S)
    BY <1>12, FileGoes
  <2>2. Ends(A, TreeOf(n.zone), S)
    BY <1>10, <2>1
  <2> QED
    BY <1>2, <1>10, <1>15, <2>2 DEF Shows
<1> QED
  BY <1>7, <1>15, <1>16

\* A path to a file, through "." and "..", has its name and names its directory.
LEMMA FileNames ==
  ASSUME NEW d, NEW m, Sound(d, m, pwd), NEW c, Spelled(m.zone, pwd, c), NEW p \in Path,
         Dotted(p), Last(p.comps) \notin {".", ".."},
         NEW T, T = TreeOf(m.zone), NEW w, w = WalkIn(T, c, p.abs, p.comps), w # NONE
  PROVE  \E dir : IsDirIn(T, dir) /\ Names(c, p, dir, w)
<1>1. PICK dir, name : dir = WalkIn(T, c, p.abs, Front(p.comps)) /\ name = Last(p.comps)
  OBVIOUS
<1>2. w = NextIn(T, dir, name)
  <2>1. p.comps # <<>>
    BY DEF Dotted
  <2>2. WalkIn(T, c, p.abs, p.comps) =
          NextIn(T, WalkIn(T, c, p.abs, Front(p.comps)), Last(p.comps))
    BY <2>1, WalkLast
  <2> QED
    BY <1>1, <2>2
<1>3. dir # NONE
  <2>1. dir = NONE => NextIn(T, dir, name) = dir
    BY NextParts
  <2> QED
    BY <1>2, <2>1
<1>4. NextIn(T, dir, name) = IF IsDirIn(T, dir) /\ ExistsIn(T, Append(dir, name))
                             THEN Append(dir, name) ELSE NONE
  <2>1. name \notin {".", ".."}
    BY <1>1
  <2> QED
    BY <1>3, <2>1, NextName
<1>5. IsDirIn(T, dir) /\ w = Append(dir, name)
  BY <1>2, <1>4
<1>6. Names(c, p, dir, Append(dir, Last(p.comps)))
  BY <1>1, <1>3, DotNames
<1> QED
  BY <1>1, <1>5, <1>6

\* The first half of write, if there is a file: it is gone, and can be made.
Empties(d, m, p, gone) ==
  /\ get_path(m, p).left = p /\ Dotted(p) /\ Last(p.comps) \notin {".", ".."}
  /\ Sound(d, gone, pwd) /\ Creates(gone, p) /\ ~(get_free_id(gone) < 0)

\* It does.
LEMMA WriteHead ==
  ASSUME NEW d, NEW m, Sound(d, m, pwd), NEW p \in Path, p.comps # <<>> => Dotted(p),
         NEW way, way = get_path(m, p).at, way # NONE, m.zone[Last(way)].type = "inode",
         NEW lost, NEW cut, cut = rm_file(m, p, lost), NEW gone, gone = cut.m
  PROVE  Empties(d, m, p, gone)
<1>1. IsMemory(m) /\ Store(m.zone) /\ Here(m.zone, pwd)
  BY DEF Sound, IsMemory
<1>2. PICK U, r : Plan(m.zone, U, r) /\ Held(m.zone, U) /\ Tally(m.st, m.zone, U)
  BY DEF Sound, Whole
<1>3. PICK at : at = get_path(gone, DirOf(p)).at
  OBVIOUS
<1>4. FileAt(m, p, way, at)
  BY <1>1, <1>2, <1>3, FileName
<1>5. /\ Dotted(p) /\ Last(p.comps) \notin {".", ".."}
      /\ get_path(m, p).left = p /\ way[Len(way) - 1] = Last(at)
  BY <1>4 DEF FileAt
<1>6. Removed(d, cut.m, pwd, way[Len(way) - 1]) /\ Left(m, cut.m, Last(way))
  <2>1. /\ way = NONE => cut = Refused(m)
        /\ way # NONE => /\ cut.ans = "0" /\ Removed(d, cut.m, pwd, way[Len(way) - 1])
                         /\ Way(m.zone, way) /\ Len(way) # 1
                         /\ Left(m, cut.m, Last(way))
    BY RmFileKeeps
  <2> QED
    BY <2>1
<1>7. Sound(d, gone, pwd) /\ Room(gone.zone[Last(at)])
  BY <1>5, <1>6 DEF Removed
<1>8. Creates(gone, p)
  BY <1>3, <1>5, <1>7 DEF Creates
<1>9. ~(get_free_id(gone) < 0)
  <2>1. Left(m, gone, Last(way))
    BY <1>6
  <2> QED
    BY <1>1, <2>1, LeftFree
<1> QED
  BY <1>5, <1>7, <1>8, <1>9 DEF Empties

\* The aim.
LEMMA WriteAim ==
  ASSUME NEW c, NEW at, NEW T, NEW p, NEW dir, IsDirIn(T, dir), Names(c, p, dir, at)
  PROVE  \E A : Writing(A, c, at) /\ A.op = "write" /\ Fits(T, A, p)
<1>1. PICK N : N = [at |-> at, kind |-> "file"]
  OBVIOUS
<1>2. PICK A : A = [at |-> pwd, cwd |-> c, op |-> "write", node |-> N]
  OBVIOUS
<1>3. A.at = pwd /\ A.cwd = c /\ A.op = "write" /\ A.node = N
  BY <1>2
<1>4. Writing(A, c, at)
  BY <1>1, <1>3 DEF Writing
<1>5. Fits(T, A, p)
  BY <1>1, <1>3 DEF Fits
<1> QED
  BY <1>3, <1>4, <1>5

\* write of a new file.
LEMMA WriteNew ==
  ASSUME NEW m, Sound(m.zone, m, pwd), m.writes = <<>>, NEW c, Spelled(m.zone, pwd, c),
         NEW p \in Path, Creates(m, p), get_path(m, p).at = NONE,
         NEW k \in Nat, NEW lost, NEW res, res = wrt(m, p, k, lost)
  PROVE  Refuses(m, res, c, "write", p) \/ Carries(m, res, c, "write", p)
<1>1. PICK d, T, w, t : /\ d = m.zone /\ T = TreeOf(d) /\ w = WalkIn(T, c, p.abs, p.comps)
                        /\ t = TargetIn(T, c, p)
  OBVIOUS
<1>2. PICK made, out : made = make(m, p, I_OCCUPIED) /\ out = append(made.m, p, k)
  OBVIOUS
<1>3. get_path(m, p).left = p
  <2>1. PICK at : at = get_path(m, DirOf(p)).at
    OBVIOUS
  <2>2. Dotted(p) /\ Last(p.comps) \notin {".", ".."}
    BY DEF Creates
  <2>3. Store(m.zone) /\ Here(m.zone, pwd)
    BY DEF Sound, IsMemory
  <2>4. PICK U, r : Plan(m.zone, U, r) /\ Tally(m.st, m.zone, U)
    BY DEF Sound, Whole
  <2>5. NoName(m, p, at)
    BY <2>1, <2>2, <2>3, <2>4, NoSuchName
  <2> QED
    BY <2>5 DEF NoName
<1>4. res = IF made.ans = "4" THEN made ELSE out
  BY <1>2, <1>3 DEF wrt, mk_file
<1>5. w = NONE
  <2>1. Agree(m.zone, NONE, w)
    BY <1>1, PathNames
  <2> QED
    BY <2>1, SomeName DEF Agree
<1>6. CanIn(T, c, "write", p) <=> t # NONE
  BY <1>1, <1>5 DEF CanIn
<1>7. PICK state, kind : state = I_OCCUPIED /\ kind = "file"
  OBVIOUS
<1>8. Makes(d, m, made, c, p, kind)
  <2>1. state \in {I_OCCUPIED, D_OCCUPIED} /\ kind = (IF state = I_OCCUPIED THEN "file" ELSE "dir")
    BY <1>7
  <2>2. made = make(m, p, state)
    BY <1>2, <1>7
  <2> QED
    BY <1>1, <2>1, <2>2, MakeShows
<1>9. CASE made.ans = "4"
  <2>1. made.m = m /\ (w # NONE \/ t = NONE \/ get_free_id(m) < 0)
    BY <1>1, <1>8, <1>9 DEF Makes
  <2> QED
    BY <1>1, <1>4, <1>5, <1>6, <1>9, <2>1 DEF Refuses
<1>10. CASE made.ans # "4"
  <2>1. made.ans = "0" /\ \E dir, at : /\ IsDirIn(T, dir) /\ Names(c, p, dir, at) /\ ~ExistsIn(T, at)
                                      /\ Shows(d, m, made.m, pwd, T \cup {[at |-> at, kind |-> kind]})
    BY <1>1, <1>8, <1>10 DEF Makes
  <2>2. PICK dir, at : /\ IsDirIn(T, dir) /\ Names(c, p, dir, at) /\ ~ExistsIn(T, at)
                       /\ Shows(d, m, made.m, pwd, T \cup {[at |-> at, kind |-> kind]})
    BY <2>1
  <2>3. at # NONE
    <3>1. TreeOf(made.m.zone) = T \cup {[at |-> at, kind |-> kind]}
      BY <2>2 DEF Shows
    <3>2. [at |-> at, kind |-> kind] \in TreeOf(made.m.zone)
      BY <3>1
    <3>3. at \in Seq(STRING)
      BY <3>2, TreeNames
    <3> QED
      BY <3>3, RequestAssumption
  <2>4. t = at
    BY <1>1, <2>2 DEF Names
  <2>5. PICK A : Writing(A, c, at) /\ A.op = "write" /\ Fits(T, A, p)
    BY <2>2, WriteAim
  <2>6. A.at = pwd /\ A.cwd = c
    BY <2>5 DEF Writing
  <2>7. Told(d, m, A)
    BY <1>1, <2>6, TellNothing
  <2>8. Sound(d, m, pwd)
    BY <1>1
  <2>9. IsDirIn(TreeOf(m.zone), dir) /\ ~ExistsIn(TreeOf(m.zone), at)
    BY <1>1, <2>2
  <2>10. made.ans = "0" \/ ~(get_free_id(m) < 0)
    BY <2>1
  <2>11. made.ans = "0" /\ out.ans = "0" /\ Story(d, out.m.writes, A)
    BY <1>2, <2>2, <2>3, <2>5, <2>7, <2>8, <2>9, <2>10, WriteTail
  <2>12. res = out
    BY <1>4, <1>10
  <2>13. CanIn(T, c, "write", p)
    BY <1>6, <2>3, <2>4
  <2> QED
    BY <1>1, <2>5, <2>6, <2>11, <2>12, <2>13 DEF Carries
<1> QED
  BY <1>9, <1>10

\* write in place of a file.
LEMMA WriteOver ==
  ASSUME NEW m, Sound(m.zone, m, pwd), m.writes = <<>>, NEW c, Spelled(m.zone, pwd, c),
         NEW p \in Path, p.comps # <<>> => Dotted(p),
         NEW way, way = get_path(m, p).at, way # NONE, m.zone[Last(way)].type = "inode",
         NEW k \in Nat, NEW lost, NEW res, res = wrt(m, p, k, lost)
  PROVE  Carries(m, res, c, "write", p)
<1>1. PICK d, T, w : d = m.zone /\ T = TreeOf(d) /\ w = WalkIn(T, c, p.abs, p.comps)
  OBVIOUS
<1>2. PICK cut, gone : cut = rm_file(m, p, lost) /\ gone = cut.m
  OBVIOUS
<1>3. PICK made, out : made = make(gone, p, I_OCCUPIED) /\ out = append(made.m, p, k)
  OBVIOUS
<1>4. Sound(d, m, pwd)
  BY <1>1
<1>5. Empties(d, m, p, gone)
  BY <1>2, <1>4, WriteHead
<1>6. /\ get_path(m, p).left = p /\ Dotted(p) /\ Last(p.comps) \notin {".", ".."}
      /\ Sound(d, gone, pwd) /\ Creates(gone, p) /\ ~(get_free_id(gone) < 0)
  BY <1>5 DEF Empties
<1>7. Takes(d, m, cut, c, p, "file")
  BY <1>2, <1>4, RmFileShows
<1>8. PICK N : N = [at |-> w, kind |-> "file"]
  OBVIOUS
<1>9. w # NONE /\ N \in T /\ Shows(d, m, gone, pwd, T \ {N})
  <2>1. w # NONE /\ [at |-> w, kind |-> "file"] \in T
        /\ Shows(d, m, cut.m, pwd, T \ {[at |-> w, kind |-> "file"]})
    BY <1>1, <1>7 DEF Takes
  <2> QED
    BY <1>2, <1>8, <2>1
<1>10. PICK dir : IsDirIn(T, dir) /\ Names(c, p, dir, w)
  <2>1. T = TreeOf(m.zone) /\ Dotted(p) /\ Last(p.comps) \notin {".", ".."} /\ w # NONE
    BY <1>1, <1>6, <1>9
  <2>2. \E dir : IsDirIn(T, dir) /\ Names(c, p, dir, w)
    BY <1>1, <1>4, <2>1, FileNames
  <2> QED
    BY <2>2
<1>11. PICK A : Writing(A, c, w) /\ A.op = "write" /\ Fits(T, A, p)
  BY <1>10, WriteAim
<1>12. A.at = pwd /\ A.cwd = c
  BY <1>11 DEF Writing
<1>13. Told(d, gone, A) /\ TreeOf(gone.zone) = T \ {N}
  <2>1. Told(d, m, A)
    BY <1>1, <1>12, TellNothing
  <2>2. Still(A, T, T \ {N})
    BY <1>8, <1>9, <1>11, FileGoes
  <2> QED
    BY <1>1, <1>9, <1>12, <2>1, <2>2 DEF Shows
<1>14. Store(d)
  BY <1>1 DEF Sound, IsMemory
<1>15. ~ExistsIn(T \ {N}, w)
  <2>1. w # <<>>
    <3>1. [at |-> w, kind |-> "file"] \in TreeOf(d)
      BY <1>1, <1>8, <1>9
    <3> QED
      BY <3>1, TreeHas
  <2>2. ASSUME NEW kind, [at |-> w, kind |-> kind] \in T \ {N}
        PROVE  FALSE
    <3>1. PICK file : file = "file"
      OBVIOUS
    <3>2. [at |-> w, kind |-> kind] \in TreeOf(d) /\ [at |-> w, kind |-> file] \in TreeOf(d)
      BY <1>1, <1>8, <1>9, <2>2, <3>1
    <3>3. kind = file
      BY <1>14, <3>2, OneKind
    <3> QED
      BY <1>8, <2>2, <3>1, <3>3
  <2>3. \A kind : [at |-> w, kind |-> kind] \notin T \ {N}
    BY <2>2
  <2> QED
    BY <2>1, <2>3 DEF ExistsIn
<1>16. IsDirIn(T \ {N}, dir)
  BY <1>8, <1>10, DirStays
<1>17. IsDirIn(TreeOf(gone.zone), dir) /\ ~ExistsIn(TreeOf(gone.zone), w)
  BY <1>13, <1>15, <1>16
<1>18. made.ans = "0" \/ ~(get_free_id(gone) < 0)
  BY <1>6
<1>19. made.ans = "0" /\ out.ans = "0" /\ Story(d, out.m.writes, A)
  <2>1. Sound(d, gone, pwd) /\ Creates(gone, p)
    BY <1>6
  <2>2. Told(d, gone, A) /\ Writing(A, c, w) /\ Names(c, p, dir, w) /\ w # NONE
    BY <1>9, <1>10, <1>11, <1>13
  <2> HIDE <1>7, <1>8, <1>9, <1>14, <1>15
  <2> QED
    BY <1>3, <1>17, <1>18, <2>1, <2>2, WriteTail
<1>20. Spelled(m.zone, way, w) /\ ~IsDirIn(T, w) /\ get_state(m.st, Last(way)) = I_OCCUPIED
  <2>1. Agree(m.zone, way, w)
    BY <1>1, <1>4, PathNames
  <2>2. Spelled(m.zone, way, w)
    BY <2>1 DEF Agree
  <2> QED
    BY <1>1, <2>2, WayState
<1>21. res = out
  <2>1. made = mk_file(gone, p) /\ gone = rm_file(m, get_path(m, p).left, lost).m
    BY <1>2, <1>3, <1>6 DEF mk_file
  <2>2. res = IF made.ans = "4" THEN made ELSE append(made.m, get_path(m, p).left, k)
    BY <1>20, <2>1 DEF wrt
  <2> QED
    BY <1>3, <1>6, <1>19, <2>2
<1>22. CanIn(T, c, "write", p)
  BY <1>1, <1>9, <1>20 DEF CanIn
<1> QED
  BY <1>1, <1>11, <1>12, <1>19, <1>21, <1>22 DEF Carries

-----------------------------------------------------------------------------
(* Every step, as the user sees it.                                         *)

\* A command under way has an aim, and what it has left to write does that.
Pending ==
  req # NONE =>
    /\ up = "on" /\ req.ans = "0" /\ req.path \in Path
    /\ req.op \in {"touch", "mkdir", "rm", "rmdir", "append", "write"}
    /\ \E A : /\ A.at = pwd /\ A.op = req.op /\ Story(disk, todo, A)
              /\ Fits(TreeOf(disk), A, req.path)

\* write.
LEMMA WriteDoes ==
  ASSUME NEW m, Sound(m.zone, m, pwd), m.writes = <<>>, NEW c, Spelled(m.zone, pwd, c),
         NEW p \in Path, p.comps # <<>> => Dotted(p), Creates(m, p),
         NEW way, way = get_path(m, p).at, way # NONE => m.zone[Last(way)].type = "inode",
         NEW k \in Nat, NEW lost, NEW res, res = wrt(m, p, k, lost)
  PROVE  Refuses(m, res, c, "write", p) \/ Carries(m, res, c, "write", p)
<1>1. CASE way = NONE
  <2>1. get_path(m, p).at = NONE
    BY <1>1
  <2> QED
    BY <2>1, WriteNew
<1>2. CASE way # NONE
  <2>1. m.zone[Last(way)].type = "inode"
    BY <1>2
  <2> QED
    BY <1>2, <2>1, WriteOver
<1> QED
  BY <1>1, <1>2

\* What the user sees, now and next.
LEMMA SeenNow ==
  ASSUME Safe(disk), NEW c, Spelled(disk, pwd, c)
  PROVE  Tree = TreeOf(disk) /\ Cwd = c
BY TreeIs, CwdIs

\* After a step.
LEMMA SeenNext ==
  ASSUME Safe(disk'), NEW c, Spelled(disk', pwd', c)
  PROVE  Tree' = TreeOf(disk') /\ Cwd' = c
<1>1. Safe(disk') => Tree' = TreeOf(disk')
  <2>1. (Safe(disk) => Tree = TreeOf(disk))'
    BY TreeIs, PTL
  <2> QED
    BY <2>1
<1>2. \A w : Safe(disk') /\ Spelled(disk', pwd', w) => Cwd' = w
  <2>1. (\A w : Safe(disk) /\ Spelled(disk, pwd, w) => Cwd = w)'
    BY CwdIs, PTL
  <2> QED
    BY <2>1
<1> QED
  BY <1>1, <1>2

\* The session's names.
LEMMA Somewhere ==
  ASSUME IInv, Pending
  PROVE  \E c : Spelled(disk, pwd, c)
<1>1. PICK U, r : Store(disk) /\ Plan(disk, U, r)
  BY DEF IInv, Safe
<1>2. CASE req = NONE
  <2>1. Way(disk, pwd)
    BY <1>2, WhereIs DEF Here
  <2> QED
    BY <1>1, <2>1, WaySpelled
<1>3. CASE req # NONE
  <2>1. PICK A : A.at = pwd /\ Story(disk, todo, A)
    BY <1>3 DEF Pending
  <2>2. PICK h : Thread(disk, todo, h) /\ \A k \in 0 .. Len(todo) : Spelled(h[k], A.at, A.cwd)
    BY <2>1 DEF Story
  <2>3. h[0] = disk /\ 0 \in 0 .. Len(todo)
    BY <2>2 DEF Thread
  <2> QED
    BY <2>1, <2>2, <2>3
<1> QED
  BY <1>2, <1>3

\* The request under way.
LEMMA RequestIs ==
  ASSUME Pending, req # NONE
  PROVE  /\ Request = [op |-> req.op, path |-> req.path] /\ Request # NONE
         /\ Request.op = req.op /\ Request.path = req.path
<1>1. Request = [op |-> req.op, path |-> req.path]
  BY DEF Request
<1>2. [op |-> req.op, path |-> req.path] # NONE
  BY RequestAssumption DEF Pending
<1> QED
  BY <1>1, <1>2

\* A request.
LEMMA OfRequest == \A o, p : \E q : q = [op |-> o, path |-> p] /\ q.op = o /\ q.path = p
<1> SUFFICES ASSUME NEW o, NEW p
             PROVE  \E q : q = [op |-> o, path |-> p] /\ q.op = o /\ q.path = p
  OBVIOUS
<1>1. [op |-> o, path |-> p].op = o /\ [op |-> o, path |-> p].path = p
  OBVIOUS
<1> QED
  BY <1>1

\* Whether it makes sense.
LEMMA CanRequest ==
  ASSUME NEW T, T = Tree, NEW c, c = Cwd, NEW op, NEW p, NEW q, q = [op |-> op, path |-> p]
  PROVE  NS!Can(q) <=> CanIn(T, c, op, p)
<1>1. PICK o : o = [op |-> op, path |-> p] /\ o.op = op /\ o.path = p
  BY OfRequest
<1>2. o = q
  BY <1>1
<1>3. NS!Can(q) = CanIn(Tree, Cwd, q.op, q.path)
  BY CanIs
<1>4. NS!Can(q) = CanIn(T, c, op, p)
  BY <1>1, <1>2, <1>3
<1> QED
  BY <1>4

\* No zone is free, or one is.
LEMMA FullIs == Full \in BOOLEAN /\ Full' \in BOOLEAN
BY DEF Full

\* What the user may see.
Seen == [NS!Next]_(NS!vars)

\* A command is refused.
LEMMA SeenRefuse ==
  ASSUME Request = NONE, Request' = NONE, Tree' = Tree, Cwd' = Cwd, ans' = "4",
         NEW op \in {"touch", "mkdir", "rm", "rmdir", "append", "write"}, NEW p \in Path,
         NEW q, q = [op |-> op, path |-> p],
         ~NS!Can(q) \/ (op \in {"touch", "mkdir", "write"} /\ Full)
  PROVE  Seen
<1>1. q \in NS!Requests
  BY DEF NS!Requests
<1>2. q.op = op
  OBVIOUS
<1>3. NS!Refuse(q)
  BY <1>2 DEF NS!Refuse
<1> QED
  BY <1>1, <1>3, FullIs DEF Seen, NS!Next

\* A command is under way.
LEMMA SeenBegin ==
  ASSUME Request = NONE, Tree' = Tree, Cwd' = Cwd, ans' = ans,
         NEW op \in {"touch", "mkdir", "rm", "rmdir", "append", "write"}, NEW p \in Path,
         NEW q, q = [op |-> op, path |-> p], Request' = q, NS!Can(q)
  PROVE  Seen
<1>1. q \in NS!Requests
  BY DEF NS!Requests
<1>2. NS!Begin(q)
  BY DEF NS!Begin
<1> QED
  BY <1>1, <1>2, FullIs DEF Seen, NS!Next

\* The user sees nothing.
LEMMA SeenNothing ==
  ASSUME Request' = Request, Tree' = Tree, Cwd' = Cwd, ans' = ans, map' = map
  PROVE  Seen
<1>1. Full' = Full
  BY DEF Full
<1> QED
  BY <1>1 DEF Seen, NS!vars

\* The server ends, or starts.
LEMMA SeenRestart ==
  ASSUME Request' = NONE, Tree' = Tree, Cwd' = <<>>, ans' = ans
  PROVE  Seen
<1>1. NS!Restart
  BY DEF NS!Restart
<1> QED
  BY <1>1, FullIs DEF Seen, NS!Next

\* A command as a step: refused, or under way with an aim.
LEMMA DoesStep ==
  ASSUME IInv, IInv', NEW op \in {"touch", "mkdir", "rm", "rmdir", "append", "write"},
         NEW p \in Path, NEW m, m = Memory, NEW c, Spelled(disk, pwd, c),
         NEW res, Perform(op, p, res), Refuses(m, res, c, op, p) \/ Carries(m, res, c, op, p)
  PROVE  Pending' /\ Seen
<1>1. /\ map' = res.m.st /\ todo' = res.m.writes
      /\ req' = IF res.m.writes = <<>> THEN NONE ELSE [op |-> op, path |-> p, ans |-> res.ans]
      /\ ans' = IF res.m.writes = <<>> THEN res.ans ELSE ans
      /\ up' = up /\ disk' = disk /\ saved' = saved /\ pwd' = pwd /\ up = "on" /\ req = NONE
  BY DEF Perform, Ready
<1>2. m.zone = disk /\ m.st = map /\ m.writes = <<>>
  BY DEF Memory
<1>3. PICK T : T = TreeOf(disk)
  OBVIOUS
<1>4. Tree = T /\ Cwd = c /\ Tree' = T /\ Cwd' = c /\ Request = NONE
  <2>1. Safe(disk) /\ Safe(disk') /\ Spelled(disk', pwd', c) /\ TreeOf(disk') = T
    BY <1>1, <1>3 DEF IInv
  <2>2. Tree = TreeOf(disk) /\ Cwd = c
    BY <2>1, SeenNow
  <2>3. Tree' = TreeOf(disk') /\ Cwd' = c
    BY <2>1, SeenNext
  <2> QED
    BY <1>1, <1>3, <2>1, <2>2, <2>3 DEF Request
<1>5. PICK q : q = [op |-> op, path |-> p]
  OBVIOUS
<1>6. NS!Can(q) <=> CanIn(T, c, op, p)
  BY <1>4, <1>5, CanRequest
<1>7. CASE Refuses(m, res, c, op, p)
  <2>1. /\ res.ans = "4" /\ res.m = m
        /\ ~CanIn(T, c, op, p) \/ (op \in {"touch", "mkdir", "write"} /\ get_free_id(m) < 0)
    BY <1>2, <1>3, <1>7 DEF Refuses
  <2>2. req' = NONE /\ ans' = "4"
    BY <1>1, <1>2, <2>1
  <2>3. Pending' /\ Request' = NONE
    BY <2>2 DEF Pending, Request
  <2>4. get_free_id(m) < 0 => Full
    BY <1>2, NoZone DEF Full
  <2>5. ~NS!Can(q) \/ (op \in {"touch", "mkdir", "write"} /\ Full)
    BY <1>6, <2>1, <2>4
  <2>6. Tree' = Tree /\ Cwd' = Cwd
    BY <1>4
  <2>7. Seen
    BY <1>4, <1>5, <2>2, <2>3, <2>5, <2>6, SeenRefuse
  <2> QED
    BY <2>3, <2>7
<1>8. CASE Carries(m, res, c, op, p)
  <2>1. /\ res.ans = "0" /\ CanIn(T, c, op, p)
        /\ \E A : /\ A.at = pwd /\ A.cwd = c /\ A.op = op /\ Fits(T, A, p)
                  /\ Story(disk, res.m.writes, A)
    BY <1>2, <1>3, <1>8 DEF Carries
  <2>2. PICK A : /\ A.at = pwd /\ A.cwd = c /\ A.op = op /\ Fits(T, A, p)
                 /\ Story(disk, res.m.writes, A)
    BY <2>1
  <2>3. res.m.writes # <<>>
    BY <2>2 DEF Story
  <2>4. PICK n : n = [op |-> op, path |-> p, ans |-> "0"]
    OBVIOUS
  <2>5. req' = n /\ ans' = ans /\ n.op = op /\ n.path = p /\ n.ans = "0"
    BY <1>1, <2>1, <2>3, <2>4
  <2>6. n # NONE
    BY <2>4, RequestAssumption
  <2>7. A.at = pwd' /\ Story(disk', todo', A) /\ Fits(TreeOf(disk'), A, p)
    BY <1>1, <1>3, <2>2
  <2>8. Pending'
    BY <1>1, <2>2, <2>5, <2>7 DEF Pending
  <2>9. Request' = q
    BY <1>5, <2>5, <2>6 DEF Request
  <2>10. Tree' = Tree /\ Cwd' = Cwd /\ NS!Can(q)
    BY <1>4, <1>6, <2>1
  <2>11. Seen
    BY <1>4, <1>5, <2>5, <2>9, <2>10, SeenBegin
  <2> QED
    BY <2>8, <2>11
<1> QED
  BY <1>7, <1>8

\* touch and mkdir.
LEMMA SeenMake ==
  ASSUME Session, IInv, IInv', Pending, NEW p \in Path, MayCreate(p), touch(p) \/ mkdir(p)
  PROVE  Pending' /\ Seen
<1>1. up = "on" /\ req = NONE
  BY DEF touch, mkdir, Perform, Ready
<1>2. PICK m : m = Memory
  OBVIOUS
<1>3. Sound(disk, m, pwd) /\ m.zone = disk /\ m.writes = <<>>
  BY <1>1, <1>2, Idle
<1>4. Creates(m, p)
  BY <1>2, <1>3, MayCreates
<1>5. PICK c : Spelled(disk, pwd, c)
  BY Somewhere
<1>6. ASSUME NEW op \in {"touch", "mkdir"}, NEW state,
             state = IF op = "touch" THEN I_OCCUPIED ELSE D_OCCUPIED,
             NEW res, res = make(m, p, state), Perform(op, p, res)
      PROVE  Pending' /\ Seen
  <2>1. Sound(m.zone, m, pwd) /\ Spelled(m.zone, pwd, c)
    BY <1>3, <1>5
  <2>2. Refuses(m, res, c, op, p) \/ Carries(m, res, c, op, p)
    BY <1>3, <1>4, <1>6, <2>1, MakeDoes
  <2>3. op \in {"touch", "mkdir", "rm", "rmdir", "append", "write"}
    OBVIOUS
  <2> QED
    BY <1>2, <1>5, <1>6, <2>2, <2>3, DoesStep
<1>7. CASE touch(p)
  <2>1. PICK state, res : state = I_OCCUPIED /\ res = make(m, p, state)
    OBVIOUS
  <2>2. Perform("touch", p, res)
    BY <1>2, <1>7, <2>1 DEF touch, mk_file
  <2> QED
    BY <1>6, <2>1, <2>2
<1>8. CASE mkdir(p)
  <2>1. PICK state, res : state = D_OCCUPIED /\ res = make(m, p, state)
    OBVIOUS
  <2>2. Perform("mkdir", p, res)
    BY <1>2, <1>8, <2>1 DEF mkdir, mk_dir
  <2> QED
    BY <1>6, <2>1, <2>2
<1> QED
  BY <1>7, <1>8

\* rm.
LEMMA SeenRm ==
  ASSUME Session, IInv, IInv', Pending, NEW p \in Path, MayRm(p), rm(p)
  PROVE  Pending' /\ Seen
<1>1. PICK lost : Perform("rm", p, rm_file(Memory, p, lost))
  BY DEF rm
<1>2. up = "on" /\ req = NONE
  BY <1>1 DEF Perform, Ready
<1>3. PICK m, res, way : m = Memory /\ res = rm_file(m, p, lost) /\ way = get_path(m, p).at
  OBVIOUS
<1>4. Sound(disk, m, pwd) /\ m.zone = disk /\ m.writes = <<>>
  BY <1>2, <1>3, Idle
<1>5. way # NONE => m.zone[Last(way)].type = "inode"
  BY <1>3, <1>4, LeadsIs DEF MayRm, Session
<1>6. PICK c : Spelled(disk, pwd, c)
  BY Somewhere
<1>7. Sound(m.zone, m, pwd) /\ Spelled(m.zone, pwd, c)
  BY <1>4, <1>6
<1>8. Refuses(m, res, c, "rm", p) \/ Carries(m, res, c, "rm", p)
  BY <1>3, <1>4, <1>5, <1>7, RmDoes
<1>9. Perform("rm", p, res)
  BY <1>1, <1>3
<1> QED
  BY <1>3, <1>6, <1>8, <1>9, DoesStep

\* rmdir.
LEMMA SeenRmdir ==
  ASSUME Session, IInv, IInv', Pending, NEW p \in Path, MayRmdir(p), rmdir(p)
  PROVE  Pending' /\ Seen
<1>1. PICK lost : Perform("rmdir", p, rm_dir(Memory, p, lost))
  BY DEF rmdir
<1>2. up = "on" /\ req = NONE
  BY <1>1 DEF Perform, Ready
<1>3. PICK m, res, way : m = Memory /\ res = rm_dir(m, p, lost) /\ way = get_path(m, p).at
  OBVIOUS
<1>4. Sound(disk, m, pwd) /\ m.zone = disk /\ m.writes = <<>>
  BY <1>2, <1>3, Idle
<1>5. way # NONE => /\ m.zone[Last(way)].type = "dentry" /\ Used(m.zone[Last(way)]) = {}
                    /\ \A k \in 1 .. Len(pwd) : pwd[k] # Last(way)
  BY <1>3, <1>4, RmdirOf
<1>6. PICK c : Spelled(disk, pwd, c)
  BY Somewhere
<1>7. Sound(m.zone, m, pwd) /\ Spelled(m.zone, pwd, c)
  BY <1>4, <1>6
<1>8. Refuses(m, res, c, "rmdir", p) \/ Carries(m, res, c, "rmdir", p)
  BY <1>3, <1>4, <1>5, <1>7, RmdirDoes
<1>9. Perform("rmdir", p, res)
  BY <1>1, <1>3
<1> QED
  BY <1>3, <1>6, <1>8, <1>9, DoesStep

\* append.
LEMMA SeenAppend ==
  ASSUME IInv, IInv', Pending, NEW p \in Path, Append_(p)
  PROVE  Pending' /\ Seen
<1>1. PICK k \in NewZones : Ready /\ Perform("append", p, append(Memory, p, k))
  BY DEF Append_
<1>2. k \in Nat /\ up = "on" /\ req = NONE
  BY <1>1, LimitsAssumption DEF Ready
<1>3. PICK m, res : m = Memory /\ res = append(m, p, k)
  OBVIOUS
<1>4. Sound(disk, m, pwd) /\ m.zone = disk /\ m.writes = <<>>
  BY <1>2, <1>3, Idle
<1>5. PICK c : Spelled(disk, pwd, c)
  BY Somewhere
<1>6. Sound(m.zone, m, pwd) /\ Spelled(m.zone, pwd, c)
  BY <1>4, <1>5
<1>7. Refuses(m, res, c, "append", p) \/ Carries(m, res, c, "append", p)
  BY <1>2, <1>3, <1>4, <1>6, AppendDoes
<1>8. Perform("append", p, res)
  BY <1>1, <1>3
<1> QED
  BY <1>3, <1>5, <1>7, <1>8, DoesStep

\* write.
LEMMA SeenWrite ==
  ASSUME Session, IInv, IInv', Pending, NEW p \in Path, MayWrite(p), write(p)
  PROVE  Pending' /\ Seen
<1>1. PICK k \in NewZones, lost \in Leftover : Perform("write", p, wrt(Memory, p, k, lost))
  BY DEF write
<1>2. k \in Nat /\ up = "on" /\ req = NONE
  BY <1>1, LimitsAssumption DEF Perform, Ready
<1>3. PICK m, res, way : m = Memory /\ res = wrt(m, p, k, lost) /\ way = get_path(m, p).at
  OBVIOUS
<1>4. Sound(disk, m, pwd) /\ m.zone = disk /\ m.writes = <<>>
  BY <1>2, <1>3, Idle
<1>5. MayCreate(p)
  BY DEF MayWrite
<1>6. Creates(m, p)
  BY <1>3, <1>4, <1>5, MayCreates
<1>7. p.comps # <<>> => Dotted(p)
  BY DEF MayWrite, Session, Dotted
<1>8. way # NONE => m.zone[Last(way)].type = "inode"
  <2>1. way # NONE => Leads(p) /\ To(p) = Last(way)
    BY <1>3, <1>4, LeadsIs
  <2>2. Leads(p) => disk[To(p)].type = "inode"
    BY DEF MayWrite
  <2> QED
    BY <1>4, <2>1, <2>2
<1>9. PICK c : Spelled(disk, pwd, c)
  BY Somewhere
<1>10. Sound(m.zone, m, pwd) /\ Spelled(m.zone, pwd, c)
  BY <1>4, <1>9
<1>11. Refuses(m, res, c, "write", p) \/ Carries(m, res, c, "write", p)
  BY <1>2, <1>3, <1>4, <1>6, <1>7, <1>8, <1>10, WriteDoes
<1>12. Perform("write", p, res)
  BY <1>1, <1>3
<1> QED
  BY <1>3, <1>9, <1>11, <1>12, DoesStep

\* The working directory changes.
LEMMA SeenDir ==
  ASSUME Request = NONE, Request' = NONE, Tree' = Tree, NEW p \in Path,
         NEW q, q = [op |-> "cd", path |-> p],
         \/ NS!Can(q) /\ Cwd' = NS!Resolve(p) /\ ans' = "0"
         \/ ~NS!Can(q) /\ Cwd' = Cwd /\ ans' = "4"
  PROVE  Seen
<1>1. NS!ChangeDir(p) \/ NS!RefuseDir(p)
  BY DEF NS!ChangeDir, NS!RefuseDir
<1> QED
  BY <1>1, FullIs DEF Seen, NS!Next

\* cd.
LEMMA SeenCd ==
  ASSUME IInv, IInv', Pending, NEW p \in Path, cd(p)
  PROVE  Pending' /\ Seen
<1>1. PICK m, way : m = Memory /\ way = get_path(m, p).at
  OBVIOUS
<1>2. /\ up = "on" /\ req = NONE /\ req' = NONE /\ disk' = disk
      /\ IF way # NONE /\ get_state(map, Last(way)) = D_OCCUPIED
         THEN pwd' = way /\ ans' = "0" ELSE ans' = "4" /\ pwd' = pwd
  BY <1>1 DEF cd, Ready
<1>3. Sound(disk, m, pwd) /\ m.zone = disk /\ m.st = map
  BY <1>1, <1>2, Idle
<1>4. PICK c : Spelled(disk, pwd, c)
  BY Somewhere
<1>5. PICK T, w, q : /\ T = TreeOf(disk) /\ w = WalkIn(T, c, p.abs, p.comps)
                     /\ q = [op |-> "cd", path |-> p]
  OBVIOUS
<1>6. Safe(disk) /\ Safe(disk')
  BY DEF IInv
<1>7. Tree = T /\ Cwd = c /\ Request = NONE /\ Request' = NONE /\ Pending'
  <2>1. Tree = TreeOf(disk) /\ Cwd = c
    BY <1>4, <1>6, SeenNow
  <2> QED
    BY <1>2, <1>5, <2>1 DEF Request, Pending
<1>8. NS!Can(q) <=> w # NONE /\ IsDirIn(T, w)
  <2>1. CanIn(T, c, "cd", p) <=> w # NONE /\ IsDirIn(T, w)
    BY <1>5 DEF CanIn
  <2>2. NS!Can(q) <=> CanIn(T, c, "cd", p)
    BY <1>5, <1>7, CanRequest
  <2> QED
    BY <2>1, <2>2
<1>9. NS!Resolve(p) = w
  BY <1>5, <1>7, WalkIs DEF NS!Resolve
<1>10. Agree(disk, way, w)
  <2>1. Spelled(m.zone, pwd, c)
    BY <1>3, <1>4
  <2>2. Agree(m.zone, get_path(m, p).at, WalkIn(TreeOf(m.zone), c, p.abs, p.comps))
    BY <1>3, <2>1, PathNames
  <2> QED
    BY <1>1, <1>3, <1>5, <2>2
<1>11. w # NONE <=> way # NONE
  BY <1>10, SomeName DEF Agree
<1>12. way # NONE => (get_state(map, Last(way)) = D_OCCUPIED <=> IsDirIn(T, w))
  <2> SUFFICES ASSUME way # NONE
               PROVE  get_state(map, Last(way)) = D_OCCUPIED <=> IsDirIn(T, w)
    OBVIOUS
  <2>1. Spelled(m.zone, way, w)
    BY <1>3, <1>10 DEF Agree
  <2>2. get_state(m.st, Last(way)) = D_OCCUPIED <=> IsDirIn(TreeOf(m.zone), w)
    BY <1>3, <2>1, WayState
  <2> QED
    BY <1>3, <1>5, <2>2
<1>13. CASE NS!Can(q)
  <2>1. w # NONE /\ way # NONE /\ pwd' = way /\ ans' = "0"
    BY <1>2, <1>8, <1>11, <1>12, <1>13
  <2>2. Spelled(disk', pwd', w)
    BY <1>2, <1>10, <2>1 DEF Agree
  <2>3. Tree' = T /\ Cwd' = w
    BY <1>2, <1>5, <1>6, <2>2, SeenNext
  <2> QED
    BY <1>5, <1>7, <1>9, <1>13, <2>1, <2>3, SeenDir
<1>14. CASE ~NS!Can(q)
  <2>1. pwd' = pwd /\ ans' = "4"
    BY <1>2, <1>8, <1>11, <1>12, <1>14
  <2>2. Spelled(disk', pwd', c)
    BY <1>2, <1>4, <2>1
  <2>3. Tree' = T /\ Cwd' = c
    BY <1>2, <1>5, <1>6, <2>2, SeenNext
  <2> QED
    BY <1>5, <1>7, <1>14, <2>1, <2>3, SeenDir
<1> QED
  BY <1>13, <1>14

\* The end of a session, in order or not, and the start of one.
LEMMA SeenEnd ==
  ASSUME IInv, IInv', Pending, exit \/ Crash \/ start
  PROVE  Pending' /\ Seen
<1>1. disk' = disk /\ ans' = ans /\ req' = NONE /\ pwd' = <<Root>>
  <2>1. CASE exit
    BY <2>1 DEF exit
  <2>2. CASE Crash
    BY <2>2 DEF Crash
  <2>3. CASE start
    <3>1. up # "on" /\ disk' = disk /\ ans' = ans /\ req' = req /\ pwd' = pwd
      BY <2>3 DEF start
    <3>2. pwd = <<Root>> /\ req = NONE
      BY <3>1 DEF IInv
    <3> QED
      BY <3>1, <3>2
  <2> QED
    BY <2>1, <2>2, <2>3
<1>2. PICK c : Spelled(disk, pwd, c)
  BY Somewhere
<1>3. Tree = TreeOf(disk)
  BY <1>2, SeenNow DEF IInv
<1>4. Tree' = TreeOf(disk') /\ Cwd' = <<>>
  <2>1. PICK w : w = <<>>
    OBVIOUS
  <2>2. Spelled(disk', pwd', w)
    BY <1>1, <2>1, RootSpelled
  <2>3. Safe(disk')
    BY DEF IInv
  <2> QED
    BY <2>1, <2>2, <2>3, SeenNext
<1>5. Request' = NONE /\ Pending'
  BY <1>1 DEF Request, Pending
<1>6. Tree' = Tree
  BY <1>1, <1>3, <1>4
<1> QED
  BY <1>1, <1>4, <1>5, <1>6, SeenRestart

\* Nothing.
LEMMA SeenStutter ==
  ASSUME IInv, IInv', Pending, UNCHANGED vars
  PROVE  Pending' /\ Seen
<1>1. /\ up' = up /\ disk' = disk /\ map' = map /\ pwd' = pwd /\ todo' = todo
      /\ req' = req /\ ans' = ans
  BY DEF vars
<1>2. PICK c : Spelled(disk, pwd, c)
  BY Somewhere
<1>3. Tree = TreeOf(disk) /\ Cwd = c
  BY <1>2, SeenNow DEF IInv
<1>4. Tree' = TreeOf(disk') /\ Cwd' = c
  <2>1. Safe(disk') /\ Spelled(disk', pwd', c)
    BY <1>1, <1>2 DEF IInv
  <2> QED
    BY <2>1, SeenNext
<1>5. Request' = Request
  BY <1>1 DEF Request
<1>6. Pending'
  BY <1>1 DEF Pending
<1>7. Tree' = Tree /\ Cwd' = Cwd
  BY <1>1, <1>3, <1>4
<1> QED
  BY <1>1, <1>5, <1>6, <1>7, SeenNothing

\* What goes is the one node of that name.
LEMMA GoneIs ==
  ASSUME Safe(disk), Tree = TreeOf(disk), NEW q, NEW n \in Tree, n.at = NS!Resolve(q.path)
  PROVE  NS!Gone(q) = n
<1>1. \A o \in Tree : o.at = NS!Resolve(q.path) => o = n
  BY TreeUnique DEF Safe
<1> QED
  BY <1>1 DEF NS!Gone

\* What the request under way makes, and where it leads.
LEMMA RequestLeads ==
  ASSUME Pending, req # NONE, NEW T, T = Tree, NEW c, c = Cwd
  PROVE  /\ NS!Resolve(Request.path) = WalkIn(T, c, req.path.abs, req.path.comps)
         /\ NS!Made(Request) = [at |-> TargetIn(T, c, req.path),
                                kind |-> IF req.op = "mkdir" THEN "dir" ELSE "file"]
<1>1. PICK q, p : q = Request /\ p = req.path /\ q.path = p /\ q.op = req.op
  BY RequestIs
<1>2. NS!Walk(p.abs, p.comps) = WalkIn(T, c, p.abs, p.comps)
  BY WalkIs
<1>3. NS!Resolve(p) = NS!Walk(p.abs, p.comps)
  BY DEF NS!Resolve
<1>4. NS!Target(p) = TargetIn(T, c, p)
  BY TargetIs
<1>5. NS!Made(q) = [at |-> NS!Target(q.path), kind |-> IF q.op = "mkdir" THEN "dir" ELSE "file"]
  BY DEF NS!Made
<1> QED
  BY <1>1, <1>2, <1>3, <1>4, <1>5

\* No node of a name.
LEMMA NoneNamed ==
  ASSUME NEW T, NEW at, \A n \in T : n.at # at
  PROVE  \A kind : [at |-> at, kind |-> kind] \notin T
<1> SUFFICES ASSUME NEW kind, [at |-> at, kind |-> kind] \in T
             PROVE  FALSE
  OBVIOUS
<1>1. PICK n : n = [at |-> at, kind |-> kind] /\ n.at = at /\ n.kind = kind
  BY RecordIs
<1> QED
  BY <1>1

\* The write of a file: it is there, and goes or stays, or comes.
LEMMA WriteLeads ==
  ASSUME NEW T, NEW d, T = TreeOf(d), NEW A, A.op = "write", NEW p, Fits(T, A, p)
  PROVE  /\ A.node \in T => WalkIn(T, A.cwd, p.abs, p.comps) = A.node.at /\ A.node.at # NONE
         /\ (\A n \in T : n.at # A.node.at) =>
               /\ WalkIn(T, A.cwd, p.abs, p.comps) = NONE
               /\ A.node = [at |-> TargetIn(T, A.cwd, p), kind |-> "file"]
         /\ Fits(T \cup {A.node}, A, p) /\ Fits(T \ {A.node}, A, p)
<1>1. PICK dir, at : /\ IsDirIn(T, dir) /\ Names(A.cwd, p, dir, at)
                     /\ A.node = [at |-> at, kind |-> "file"]
  BY DEF Fits
<1>2. PICK N : N = [at |-> at, kind |-> "file"] /\ N.at = at
  BY RecordIs
<1>3. TargetIn(T, A.cwd, p) = at /\
      WalkIn(T, A.cwd, p.abs, p.comps) = IF ExistsIn(T, at) THEN at ELSE NONE
  BY <1>1 DEF Names
<1>4. ASSUME N \in T
      PROVE  WalkIn(T, A.cwd, p.abs, p.comps) = at /\ at # NONE
  <2>1. ExistsIn(T, at)
    BY <1>2, <1>4 DEF ExistsIn
  <2>2. [at |-> at, kind |-> "file"] \in TreeOf(d)
    BY <1>2, <1>4
  <2>3. at \in Seq(STRING)
    BY <2>2, TreeNames
  <2> QED
    BY <1>3, <2>1, <2>3, RequestAssumption
<1>5. ASSUME \A n \in T : n.at # at
      PROVE  WalkIn(T, A.cwd, p.abs, p.comps) = NONE
  <2>1. CASE at = <<>>
    <3>1. at # <<>>
      <4>1. PICK name : at = Append(dir, name)
        BY <1>1 DEF Names
      <4>2. dir \in Seq(STRING)
        <5>1. CASE dir = <<>>
          BY <5>1
        <5>2. CASE dir # <<>>
          <6>1. [at |-> dir, kind |-> "dir"] \in TreeOf(d)
            BY <1>1, <5>2 DEF IsDirIn
          <6> QED
            BY <6>1, TreeNames
        <5> QED
          BY <5>1, <5>2
      <4>3. Append(dir, name) # <<>>
        <5>1. dir \in Seq(STRING \cup {name}) /\ name \in STRING \cup {name}
          BY <4>2
        <5>2. Len(Append(dir, name)) = Len(dir) + 1 /\ Len(dir) \in Nat
          BY <5>1
        <5>3. PICK u : u = Append(dir, name)
          OBVIOUS
        <5>4. Len(u) # 0
          BY <5>2, <5>3
        <5>5. u # <<>>
          BY <5>4
        <5> QED
          BY <5>3, <5>5
      <4> QED
        BY <4>1, <4>3
    <3> QED
      BY <2>1, <3>1
  <2>2. CASE at # <<>>
    <3>2. \A kind : [at |-> at, kind |-> kind] \notin T
      BY <1>5, NoneNamed
    <3>3. ~ExistsIn(T, at)
      BY <2>2, <3>2 DEF ExistsIn
    <3> QED
      BY <1>3, <3>3
  <2> QED
    BY <2>1, <2>2
<1>6. Fits(T \cup {A.node}, A, p) /\ Fits(T \ {A.node}, A, p)
  <2>1. /\ IsDirIn(T \cup {[at |-> at, kind |-> "file"]}, dir)
        /\ IsDirIn(T \ {[at |-> at, kind |-> "file"]}, dir)
    BY <1>1, DirStays
  <2>2. PICK S : S = T \cup {A.node}
    OBVIOUS
  <2>3. PICK R : R = T \ {A.node}
    OBVIOUS
  <2>4. IsDirIn(S, dir) /\ IsDirIn(R, dir)
    BY <1>1, <2>1, <2>2, <2>3
  <2>5. Fits(S, A, p) /\ Fits(R, A, p)
    BY <1>1, <2>4 DEF Fits
  <2> QED
    BY <2>2, <2>3, <2>5
<1> QED
  BY <1>1, <1>2, <1>3, <1>4, <1>5, <1>6

\* The last write of a command.
LEMMA SeenEnds ==
  ASSUME Safe(disk), Tree = TreeOf(disk), Pending, req # NONE,
         NEW A, A.op = req.op, A.cwd = Cwd, Fits(Tree, A, req.path), Ends(A, Tree, Tree'),
         Cwd' = Cwd, Request' = NONE, ans' = "0"
  PROVE  Seen
<1>1. PICK T, c, p, q : T = Tree /\ c = Cwd /\ p = req.path /\ q = Request
  OBVIOUS
<1>2. q # NONE /\ q.op = A.op /\ q.path = p
  BY <1>1, RequestIs
<1>3. /\ NS!Resolve(p) = WalkIn(T, c, p.abs, p.comps)
      /\ NS!Made(q) = [at |-> TargetIn(T, c, p), kind |-> IF q.op = "mkdir" THEN "dir" ELSE "file"]
  BY <1>1, <1>2, RequestIs, RequestLeads
<1>4. CASE A.op \in {"touch", "mkdir"} /\ Tree' = T \cup {A.node}
  <2>1. A.node = NS!Made(q)
    BY <1>1, <1>2, <1>3, <1>4 DEF Fits
  <2>2. NS!Effect
    BY <1>1, <1>2, <1>4, <2>1 DEF NS!Effect
  <2> QED
    BY <2>2, FullIs DEF Seen, NS!Next
<1>5. CASE A.op \in {"rm", "rmdir"} /\ Tree' = T \ {A.node}
  <2>1. A.node \in T /\ A.node.at = WalkIn(T, c, p.abs, p.comps)
    BY <1>1, <1>5 DEF Fits
  <2>2. A.node = NS!Gone(q)
    BY <1>1, <1>2, <1>3, <2>1, GoneIs
  <2>3. NS!Effect
    BY <1>1, <1>2, <1>5, <2>2 DEF NS!Effect
  <2> QED
    BY <2>3, FullIs DEF Seen, NS!Next
<1>6. CASE A.op = "append" /\ Tree' = T
  <2>1. NS!Effect
    BY <1>1, <1>2, <1>6 DEF NS!Effect
  <2> QED
    BY <2>1, FullIs DEF Seen, NS!Next
<1>7. CASE A.op = "write" /\ A.node \in T /\ Tree' = T
  <2>1. WalkIn(T, c, p.abs, p.comps) = A.node.at /\ A.node.at # NONE
    BY <1>1, <1>7, WriteLeads
  <2>2. NS!Resolve(q.path) # NONE
    BY <1>2, <1>3, <2>1
  <2>3. NS!Rewrite
    BY <1>1, <1>2, <1>7, <2>2 DEF NS!Rewrite
  <2> QED
    BY <2>3, FullIs DEF Seen, NS!Next
<1> QED
  BY <1>1, <1>4, <1>5, <1>6, <1>7 DEF Ends

\* Another one.
LEMMA SeenStill ==
  ASSUME Safe(disk), Tree = TreeOf(disk), Pending, req # NONE,
         NEW A, A.op = req.op, A.cwd = Cwd, Fits(Tree, A, req.path), Still(A, Tree, Tree'),
         Cwd' = Cwd, Request' = Request, ans' = ans, map' = map
  PROVE  Seen /\ Fits(Tree', A, req.path)
<1>1. PICK T, c, p, q : T = Tree /\ c = Cwd /\ p = req.path /\ q = Request
  OBVIOUS
<1>2. q # NONE /\ q.op = A.op /\ q.path = p
  BY <1>1, RequestIs
<1>3. /\ NS!Resolve(p) = WalkIn(T, c, p.abs, p.comps)
      /\ NS!Made(q) = [at |-> TargetIn(T, c, p), kind |-> IF q.op = "mkdir" THEN "dir" ELSE "file"]
  BY <1>1, <1>2, RequestIs, RequestLeads
<1>4. CASE Tree' = T
  BY <1>1, <1>4, SeenNothing
<1>5. CASE A.op = "write" /\ A.node \in T /\ Tree' = T \ {A.node}
  <2>1. /\ WalkIn(T, c, p.abs, p.comps) = A.node.at /\ A.node.at # NONE
        /\ Fits(T \ {A.node}, A, p)
    BY <1>1, <1>5, WriteLeads
  <2>2. NS!Resolve(q.path) # NONE /\ A.node.at = NS!Resolve(q.path)
    BY <1>2, <1>3, <2>1
  <2>3. A.node = NS!Gone(q)
    BY <1>1, <1>5, <2>2, GoneIs
  <2>4. NS!Rewrite
    BY <1>1, <1>2, <1>5, <2>2, <2>3 DEF NS!Rewrite
  <2>5. Seen
    BY <2>4, FullIs DEF Seen, NS!Next
  <2> QED
    BY <1>1, <1>5, <2>1, <2>5
<1>6. CASE A.op = "write" /\ (\A n \in T : n.at # A.node.at) /\ Tree' = T \cup {A.node}
  <2>1. /\ WalkIn(T, c, p.abs, p.comps) = NONE
        /\ A.node = [at |-> TargetIn(T, c, p), kind |-> "file"]
        /\ Fits(T \cup {A.node}, A, p)
    BY <1>1, <1>6, WriteLeads
  <2>2. NS!Resolve(q.path) = NONE
    BY <1>2, <1>3, <2>1
  <2>3. A.node = NS!Made(q)
    BY <1>2, <1>3, <1>6, <2>1
  <2>4. NS!Rewrite
    BY <1>1, <1>2, <1>6, <2>2, <2>3 DEF NS!Rewrite
  <2>5. Seen
    BY <2>4, FullIs DEF Seen, NS!Next
  <2> QED
    BY <1>1, <1>6, <2>1, <2>5
<1> QED
  BY <1>1, <1>4, <1>5, <1>6 DEF Still

\* One write of a command.
LEMMA SeenPut ==
  ASSUME IInv, IInv', Pending, Put
  PROVE  Pending' /\ Seen
<1>1. /\ up = "on" /\ todo # <<>> /\ up' = up /\ map' = map /\ pwd' = pwd
      /\ disk' = [disk EXCEPT ![Head(todo)[1]] = Head(todo)[2]] /\ todo' = Tail(todo)
      /\ IF Tail(todo) = <<>> THEN req' = NONE /\ ans' = req.ans ELSE req' = req /\ ans' = ans
  BY DEF Put
<1>2. req # NONE
  BY <1>1 DEF IInv
<1>3. PICK A : A.at = pwd /\ A.op = req.op /\ Story(disk, todo, A) /\ Fits(TreeOf(disk), A, req.path)
  BY <1>2 DEF Pending
<1>4. PICK e : e = disk'
  OBVIOUS
<1>5. IsSeq(todo)
  BY <1>1 DEF IInv, Sound, IsMemory
<1>6. /\ Spelled(disk, A.at, A.cwd) /\ Spelled(e, A.at, A.cwd)
      /\ Tail(todo) = <<>> => Ends(A, TreeOf(disk), TreeOf(e))
      /\ Tail(todo) # <<>> => Still(A, TreeOf(disk), TreeOf(e)) /\ Story(e, Tail(todo), A)
  BY <1>1, <1>3, <1>4, <1>5, StoryPut
<1>7. Safe(disk) /\ Tree = TreeOf(disk) /\ Cwd = A.cwd
  <2>1. Safe(disk) /\ Spelled(disk, pwd, A.cwd)
    BY <1>3, <1>6 DEF IInv
  <2> QED
    BY <2>1, SeenNow
<1>8. Tree' = TreeOf(e) /\ Cwd' = A.cwd
  <2>1. Safe(disk')
    BY DEF IInv
  <2>2. Spelled(disk', pwd', A.cwd)
    BY <1>1, <1>3, <1>4, <1>6
  <2>3. Tree' = TreeOf(disk') /\ Cwd' = A.cwd
    BY <2>1, <2>2, SeenNext
  <2> QED
    BY <1>4, <2>3
<1>9. Fits(Tree, A, req.path)
  BY <1>3, <1>7
<1>10. CASE Tail(todo) = <<>>
  <2>1. req' = NONE /\ ans' = "0"
    BY <1>1, <1>2, <1>10 DEF Pending
  <2>2. Pending' /\ Request' = NONE
    BY <2>1 DEF Pending, Request
  <2>3. Ends(A, Tree, Tree') /\ Cwd' = Cwd
    BY <1>6, <1>7, <1>8, <1>10
  <2>4. A.op = req.op /\ A.cwd = Cwd
    BY <1>3, <1>7
  <2>5. Seen
    BY <1>2, <1>7, <1>9, <2>1, <2>2, <2>3, <2>4, SeenEnds
  <2> QED
    BY <2>2, <2>5
<1>11. CASE Tail(todo) # <<>>
  <2>1. req' = req /\ ans' = ans
    BY <1>1, <1>11
  <2>2. Request' = Request
    BY <2>1 DEF Request
  <2>3. Still(A, Tree, Tree') /\ Cwd' = Cwd
    BY <1>6, <1>7, <1>8, <1>11
  <2>4. A.op = req.op /\ A.cwd = Cwd /\ map' = map
    BY <1>1, <1>3, <1>7
  <2>5. Seen /\ Fits(Tree', A, req.path)
    BY <1>2, <1>7, <1>9, <2>1, <2>2, <2>3, <2>4, SeenStill
  <2>6. A.at = pwd' /\ A.op = req'.op /\ Story(disk', todo', A) /\ Fits(TreeOf(disk'), A, req'.path)
    BY <1>1, <1>3, <1>4, <1>6, <1>8, <1>11, <2>1, <2>5
  <2>7. up' = "on" /\ req'.ans = "0" /\ req'.path \in Path
        /\ req'.op \in {"touch", "mkdir", "rm", "rmdir", "append", "write"}
    BY <1>1, <1>2, <2>1 DEF Pending
  <2>8. Pending'
    BY <2>6, <2>7 DEF Pending
  <2> QED
    BY <2>5, <2>8
<1> QED
  BY <1>10, <1>11

\* Every step of a session is one of Namespace's, or nothing the user sees.
LEMMA SeenStep ==
  ASSUME Session, IInv, IInv', Pending, [MCNext]_vars
  PROVE  Pending' /\ Seen
<1>1. CASE \E p \in Path : MayCreate(p) /\ (touch(p) \/ mkdir(p))
  BY <1>1, SeenMake
<1>2. CASE \E p \in Path : MayRm(p) /\ rm(p)
  BY <1>2, SeenRm
<1>3. CASE \E p \in Path : MayRmdir(p) /\ rmdir(p)
  BY <1>3, SeenRmdir
<1>4. CASE \E p \in Path : Append_(p)
  BY <1>4, SeenAppend
<1>5. CASE \E p \in Path : MayWrite(p) /\ write(p)
  BY <1>5, SeenWrite
<1>6. CASE \E p \in Path : cd(p)
  BY <1>6, SeenCd
<1>7. CASE Put
  BY <1>7, SeenPut
<1>8. CASE exit \/ Crash \/ start
  BY <1>8, SeenEnd
<1>9. CASE UNCHANGED vars
  BY <1>9, SeenStutter
<1> QED
  BY <1>1, <1>2, <1>3, <1>4, <1>5, <1>6, <1>7, <1>8, <1>9 DEF MCNext

\* An empty tree.
LEMMA SeenInit ==
  ASSUME Init, IInv
  PROVE  Pending /\ NS!Init
<1>1. up = "off" /\ pwd = <<Root>> /\ req = NONE /\ ans = "0"
      /\ disk = [id \in Id |-> IF id = Root THEN Dentry(0) ELSE Blank]
  BY DEF Init
<1>2. Pending /\ Request = NONE
  BY <1>1 DEF Pending, Request
<1>3. Tree = TreeOf(disk) /\ Cwd = <<>>
  <2>1. PICK w : w = <<>>
    OBVIOUS
  <2>2. Spelled(disk, pwd, w)
    BY <1>1, <2>1, RootSpelled
  <2> QED
    BY <2>1, <2>2, SeenNow DEF IInv
<1>4. TreeOf(disk) = {}
  <2> SUFFICES ASSUME NEW n \in TreeOf(disk)
               PROVE  FALSE
    OBVIOUS
  <2>1. PICK s, w : w = n.at /\ w # <<>> /\ Spelled(disk, s, w)
    BY DEF TreeOf
  <2>2. Len(w) \in Nat \ {0} /\ s[1] = Root /\ \A k \in 1 .. Len(w) : Ent(disk[s[k]], w[k], s[k + 1])
    BY <2>1 DEF Spelled
  <2>3. 1 \in 1 .. Len(w)
    BY <2>2
  <2>4. PICK i \in Subs : disk[Root].subs[i].id # 0
    BY <2>2, <2>3 DEF Ent
  <2>5. disk[Root] = Dentry(0)
    BY <1>1, Limits
  <2>6. Dentry(0).subs[i].id = 0
    BY DEF Dentry, NoEntries, NoEntry, Entry, Subs
  <2> QED
    BY <2>4, <2>5, <2>6
<1> QED
  BY <1>1, <1>2, <1>3, <1>4, FullIs DEF NS!Init

\* README.md:33 "which forms a tree structure": to its user every session is one
\* of Namespace.  Whatever a command writes, zone by zone, the tree of names
\* changes at one of its writes, as the command says (for write: at two), or it
\* is refused and changes nothing, for every disk, every size of a directory and
\* every path, with crashes between any two writes.
THEOREM Refinement ==
  ASSUME Session
  PROVE  MCSpec => Implements
<1>1. Init => IInv /\ Pending /\ NS!Init
  BY InitInv, SeenInit
<1>2. IInv /\ Pending /\ [MCNext]_vars => IInv' /\ Pending' /\ [NS!Next]_(NS!vars)
  BY StepKeeps, SeenStep DEF Seen
<1> QED
  BY <1>1, <1>2, PTL DEF MCSpec, Implements, NS!Spec
=============================================================================

---------------------------- MODULE AllocProofs ----------------------------
(***************************************************************************)
(* What TLAPS proves of Alloc, for every geometry, bitmap size and content *)
(* set the assumptions allow: the inductive invariant of the block cache,  *)
(* and that the allocator implements ZoneStore.                            *)
(***************************************************************************)
EXTENDS Alloc, TLAPS

\* The coherence of a cached block is only inductive together with the facts
\* that it is cached once and in its own group: a write updates the copy in
\* front and would leave a second copy, or one in a foreign group, behind.
\* That a server gone astray has no cache is there as nothing keeps its disk.
AstrayEmpty == proc = "astray" => cache = EmptyCache
IInv == TypeOK /\ CacheCoherent /\ OneCopy /\ AstrayEmpty

-----------------------------------------------------------------------------
\* Every zone has a block, an offset in it and a cache group (get_c, get_s,
\* the offset of read_zone, grp_idx of get_block).
LEMMA Located ==
  ASSUME NEW id \in Zone
  PROVE  /\ BlockOf(id) \in Block
         /\ OffsetOf(id) \in Offset
         /\ GroupOf(BlockOf(id)) \in Group
<1>1. BlockOf(id) \in Block
  BY DEF Block
<1>2. OffsetOf(id) \in Offset
  BY GeometryAssumption DEF OffsetOf, Offset, Zone
<1>3. id \div ZONES_PER_BLOCK \in Nat
  BY GeometryAssumption DEF Zone
<1>4. get_s(id) \in Nat
  BY <1>3, GeometryAssumption DEF get_s
<1>5. GroupOf(BlockOf(id)) \in Group
  BY <1>4, GeometryAssumption DEF GroupOf, BlockOf, Group
<1> QED
  BY <1>1, <1>2, <1>5

\* No two zones share a place: the block address and the offset give the id
\* back, so that writing one zone leaves every other alone.
LEMMA PlaceIsUnique ==
  ASSUME NEW i \in Zone, NEW j \in Zone,
         BlockOf(i) = BlockOf(j), OffsetOf(i) = OffsetOf(j)
  PROVE  i = j
<1> DEFINE bi == i \div ZONES_PER_BLOCK
           bj == j \div ZONES_PER_BLOCK
<1>1. bi \in Nat /\ bj \in Nat
  BY GeometryAssumption DEF Zone
<1>2. /\ i = ZONES_PER_BLOCK * bi + OffsetOf(i)
      /\ j = ZONES_PER_BLOCK * bj + OffsetOf(j)
  BY GeometryAssumption DEF Zone, OffsetOf
<1>3. \A x \in Nat : x = SECTORS * (x \div SECTORS) + (x % SECTORS)
  BY GeometryAssumption
<1>4. /\ get_c(i) = bi \div SECTORS /\ get_s(i) = bi % SECTORS
      /\ get_c(j) = bj \div SECTORS /\ get_s(j) = bj % SECTORS
  BY DEF get_c, get_s
<1>5. get_c(i) = get_c(j) /\ get_s(i) = get_s(j)
  BY DEF BlockOf
<1>6. bi = bj
  <2> HIDE DEF bi, bj
  <2>1. bi = SECTORS * get_c(i) + get_s(i)
    BY <1>1, <1>3, <1>4
  <2>2. bj = SECTORS * get_c(j) + get_s(j)
    BY <1>1, <1>3, <1>4
  <2> QED
    BY <2>1, <2>2, <1>5
<1> QED
  BY <1>2, <1>6

LEMMA Block0Facts ==
  /\ 0 \in Zone /\ Block0 \in Block /\ OffsetOf(0) = 0 /\ 0 \in Offset
  /\ GroupOf(Block0) \in Group
<1>1. 0 \in Zone
  BY GeometryAssumption DEF Zone
<1>2. OffsetOf(0) = 0
  BY GeometryAssumption DEF OffsetOf
<1> QED
  BY <1>1, <1>2, Located DEF Block0

LEMMA BlockGroup ==
  ASSUME NEW b \in Block PROVE GroupOf(b) \in Group
BY Located DEF Block
-----------------------------------------------------------------------------
\* get_block returns the block asked for, with the contents of the disk,
\* whether it was cached or not.
LEMMA FetchIsFresh ==
  ASSUME IInv, NEW b \in Block
  PROVE  /\ Fetch(b) \in Line
         /\ Fetch(b).at = b
         /\ Fetch(b).data = disk[b]
<1>1. GroupOf(b) \in Group
  BY BlockGroup
<1>2. WayFor(b) \in Way
  BY DEF WayFor, Way, CACHE_GRP_SZ
<1> DEFINE target == cache[GroupOf(b)][WayFor(b)]
<1>3. target \in Line \cup {NULL}
  BY <1>1, <1>2 DEF IInv, TypeOK
<1>4. CASE Holds(target, b)
  <2>1. target \in Line /\ target.at = b /\ Fetch(b) = target
    BY <1>3, <1>4 DEF Holds, Fetch
  <2>2. target.data = disk[target.at]
    BY <1>1, <1>2, <1>4 DEF Holds, IInv, CacheCoherent
  <2> QED
    BY <2>1, <2>2
<1>5. CASE ~Holds(target, b)
  <2>1. Fetch(b) = [at |-> b, data |-> disk[b]]
    BY <1>5 DEF Fetch
  <2>2. disk[b] \in [Offset -> Value]
    BY DEF IInv, TypeOK
  <2> QED
    BY <2>1, <2>2 DEF Line
<1> QED
  BY <1>4, <1>5

\* OneCopy as a statement about a cache that need not be the current one.
OneCopyIn(c) ==
  \A g \in Group :
    /\ \A i \in Way : c[g][i] # NULL => GroupOf(c[g][i].at) = g
    /\ c[g][0] = NULL => c[g][1] = NULL
    /\ c[g][0] # NULL /\ c[g][1] # NULL => c[g][0].at # c[g][1].at

\* Moving a block to the front keeps one copy of each block: the line given
\* back to the front is the only one for its block, and every other line was
\* in the cache before, for another block.
LEMMA FrontKeepsOneCopy ==
  ASSUME IInv, NEW b \in Block, NEW line \in Line, line.at = b
  PROVE  LET c == Front(b, line) IN
         /\ c \in [Group -> [Way -> Line \cup {NULL}]]
         /\ OneCopyIn(c)
         /\ \A g \in Group, i \in Way :
              \/ c[g][i] = NULL
              \/ c[g][i] = line
              \/ c[g][i].at # b /\ \E w \in Way : c[g][i] = cache[g][w]
<1> DEFINE c == Front(b, line)
           gb == GroupOf(b)
<1>1. gb \in Group
  BY BlockGroup
<1>2. Way = {0, 1}
  BY DEF Way, CACHE_GRP_SZ
<1>3. line # NULL /\ GroupOf(line.at) = gb
  BY ValueAssumption
<1>4. \A g \in Group, i \in Way : cache[g][i] \in Line \cup {NULL}
  BY DEF IInv, TypeOK
<1>5. \A g \in Group \ {gb} : c[g] = cache[g]
  BY DEF Front, IInv, TypeOK
<1>6. /\ c[gb] \in [Way -> Line \cup {NULL}]
      /\ c[gb][0] = line
      /\ c[gb][1] = IF WayFor(b) = 0 THEN cache[gb][1] ELSE cache[gb][0]
  <2>1. c[gb] = [i \in Way |-> IF i = 0 THEN line
                               ELSE IF i <= WayFor(b) THEN cache[gb][i - 1]
                               ELSE cache[gb][i]]
    BY <1>1 DEF Front, IInv, TypeOK
  <2>2. WayFor(b) \in {0, 1}
    BY DEF WayFor
  <2> QED
    BY <1>1, <1>2, <1>4, <2>1, <2>2
<1>7. c[gb][1] = NULL \/ (c[gb][1].at # b /\ \E w \in Way : c[gb][1] = cache[gb][w])
  <2>1. CASE cache[gb][0] = NULL
    BY <1>1, <1>2, <1>6, <2>1 DEF WayFor, IInv, OneCopy
  <2>2. CASE cache[gb][0] # NULL /\ cache[gb][0].at = b
    BY <1>1, <1>2, <1>6, <2>2 DEF WayFor, Holds, IInv, OneCopy
  <2>3. CASE cache[gb][0] # NULL /\ cache[gb][0].at # b
    BY <1>1, <1>2, <1>6, <2>3 DEF WayFor, Holds
  <2> QED
    BY <2>1, <2>2, <2>3
<1>8. c \in [Group -> [Way -> Line \cup {NULL}]]
  BY <1>5, <1>6 DEF Front, IInv, TypeOK
<1>9. OneCopyIn(c)
  <2>1. ASSUME NEW g \in Group \ {gb}
        PROVE  /\ \A i \in Way : c[g][i] # NULL => GroupOf(c[g][i].at) = g
               /\ c[g][0] = NULL => c[g][1] = NULL
               /\ c[g][0] # NULL /\ c[g][1] # NULL => c[g][0].at # c[g][1].at
    BY <1>5 DEF IInv, OneCopy
  <2>2. \A i \in Way : c[gb][i] # NULL => GroupOf(c[gb][i].at) = gb
    BY <1>1, <1>2, <1>3, <1>6, <1>7 DEF IInv, OneCopy
  <2>3. /\ c[gb][0] = NULL => c[gb][1] = NULL
        /\ c[gb][0] # NULL /\ c[gb][1] # NULL => c[gb][0].at # c[gb][1].at
    BY <1>3, <1>6, <1>7
  <2> QED
    BY <2>1, <2>2, <2>3 DEF OneCopyIn
<1>10. ASSUME NEW g \in Group, NEW i \in Way
       PROVE  \/ c[g][i] = NULL
              \/ c[g][i] = line
              \/ c[g][i].at # b /\ \E w \in Way : c[g][i] = cache[g][w]
  <2>1. CASE g = gb
    BY <1>2, <1>6, <1>7, <2>1
  <2>2. CASE g # gb
    BY <1>5, <2>2 DEF IInv, OneCopy
  <2> QED
    BY <2>1, <2>2
<1> QED
  BY <1>8, <1>9, <1>10

\* What every call that goes through get_block does to the cache: the block
\* moves to the front with some line, and disk and line agree on it afterwards.
LEMMA FrontKeepsCoherence ==
  ASSUME IInv, NEW b \in Block, NEW line \in Line, line.at = b,
         cache' = Front(b, line),
         disk' = [disk EXCEPT ![b] = line.data]
  PROVE  /\ cache' \in [Group -> [Way -> Line \cup {NULL}]]
         /\ CacheCoherent'
         /\ OneCopy'
<1>1. OneCopy'
  BY FrontKeepsOneCopy DEF OneCopyIn, OneCopy
<1>2. ASSUME NEW g \in Group, NEW i \in Way, cache'[g][i] # NULL
      PROVE  cache'[g][i].data = disk'[cache'[g][i].at]
  <2>1. disk' \in [Block -> [Offset -> Value]] /\ disk'[b] = line.data
    BY DEF IInv, TypeOK, Line
  <2>2. CASE cache'[g][i] = line
    BY <2>1, <2>2
  <2>3. CASE cache'[g][i] # line
    <3>1. PICK w \in Way : cache'[g][i] = cache[g][w] /\ cache[g][w].at # b
      BY <1>2, <2>3, FrontKeepsOneCopy
    <3>2. cache[g][w] \in Line /\ cache[g][w].data = disk[cache[g][w].at]
      BY <1>2, <3>1 DEF IInv, TypeOK, CacheCoherent
    <3>3. disk'[cache[g][w].at] = disk[cache[g][w].at]
      BY <3>1, <3>2 DEF IInv, TypeOK, Line
    <3> QED
      BY <3>1, <3>2, <3>3
  <2> QED
    BY <2>2, <2>3
<1>3. CacheCoherent'
  BY <1>2 DEF CacheCoherent
<1> QED
  BY <1>1, <1>3, FrontKeepsOneCopy

LEMMA EmptyCacheFacts ==
  ASSUME cache' = EmptyCache
  PROVE  /\ cache' \in [Group -> [Way -> Line \cup {NULL}]]
         /\ CacheCoherent'
         /\ OneCopy'
BY DEF EmptyCache, CacheCoherent, OneCopy, Way, CACHE_GRP_SZ

\* A write never lands on the place of the bitmap.
LEMMA BitmapPlaceIsReserved ==
  ASSUME NEW id \in Usable
  PROVE  id \in Zone /\ ~(BlockOf(id) = Block0 /\ OffsetOf(id) = 0)
<1>1. id \in Zone /\ id # 0
  BY GeometryAssumption DEF Usable, Zone
<1> QED
  BY <1>1, Block0Facts, PlaceIsUnique DEF Block0

LEMMA InitIInv == Init => IInv
<1> SUFFICES ASSUME Init PROVE IInv
  OBVIOUS
<1>1. disk \in [Block -> [Offset -> Value]] /\ disk[Block0][0] \in Bitmap
  <2>1. NoneOccupied \in Bitmap
    BY DEF NoneOccupied, Bitmap, State, UNOCCUPIED, I_OCCUPIED
  <2>2. NoneOccupied \in Value /\ Blank \in Value
    BY <2>1, ValueAssumption DEF Value
  <2> QED
    BY <2>1, <2>2, Block0Facts DEF Init
<1>2. map \in Bitmap
  BY DEF Init, NoneOccupied, Bitmap, State, UNOCCUPIED, I_OCCUPIED
<1>3. cache \in [Group -> [Way -> Line \cup {NULL}]]
  BY DEF Init, EmptyCache
<1>4. CacheCoherent /\ OneCopy
  BY DEF Init, EmptyCache, CacheCoherent, OneCopy, Way, CACHE_GRP_SZ
<1> QED
  BY <1>1, <1>2, <1>3, <1>4 DEF Init, IInv, TypeOK, AstrayEmpty

\* A read leaves the disk as it is, which is what get_block put in the cache.
LEMMA FrontOfFetch ==
  ASSUME IInv, NEW b \in Block, cache' = Front(b, Fetch(b)), UNCHANGED disk
  PROVE  /\ cache' \in [Group -> [Way -> Line \cup {NULL}]]
         /\ CacheCoherent'
         /\ OneCopy'
<1>1. disk' = [disk EXCEPT ![b] = Fetch(b).data]
  BY FetchIsFresh DEF IInv, TypeOK
<1> QED
  BY <1>1, FetchIsFresh, FrontKeepsCoherence

-----------------------------------------------------------------------------
\* Each call keeps the invariant.
LEMMA InitCallKeeps ==
  ASSUME IInv, NEW p \in {"server", "format"}, alloc_init(p) PROVE IInv'
<1>1. /\ cache' \in [Group -> [Way -> Line \cup {NULL}]]
      /\ CacheCoherent' /\ OneCopy'
  BY Block0Facts, FrontOfFetch DEF alloc_init
<1>2. map' \in Bitmap
  BY Block0Facts, FetchIsFresh DEF alloc_init, IInv, TypeOK
<1> QED
  BY <1>1, <1>2 DEF alloc_init, IInv, TypeOK, AstrayEmpty

LEMMA FinalKeeps == ASSUME IInv, alloc_final PROVE IInv'
<1>1. map \in Bitmap
  BY DEF IInv, TypeOK
<1>2. Fetch(Block0) \in Line
  BY Block0Facts, FetchIsFresh
<1>3. /\ Stored(Fetch(Block0), 0, map).data \in [Offset -> Value]
      /\ Stored(Fetch(Block0), 0, map).data[0] = map
  BY <1>1, <1>2, Block0Facts DEF Stored, Line, Value
<1>4. /\ disk' \in [Block -> [Offset -> Value]]
      /\ disk'[Block0][0] \in Bitmap
  BY <1>1, <1>3, Block0Facts DEF alloc_final, IInv, TypeOK
<1> QED
  BY <1>4, EmptyCacheFacts DEF alloc_final, IInv, TypeOK, AstrayEmpty

LEMMA FormatKeeps == ASSUME IInv, format PROVE IInv'
<1> DEFINE clear == [o \in Offset |-> IF o = 0 THEN NoneOccupied ELSE Blank]
<1>1. NoneOccupied \in Bitmap
  BY DEF NoneOccupied, Bitmap, State, UNOCCUPIED, I_OCCUPIED
<1>2. clear \in [Offset -> Value]
  BY <1>1, ValueAssumption DEF Value
<1>3. /\ disk' \in [Block -> [Offset -> Value]]
      /\ disk'[Block0][0] \in Bitmap
  BY <1>1, <1>2, Block0Facts DEF format, IInv, TypeOK
<1>4. map' \in Bitmap
  <2>1. D_OCCUPIED \in State
    BY DEF State, D_OCCUPIED, UNOCCUPIED, I_OCCUPIED
  <2> QED
    BY <1>1, <2>1 DEF format, Bitmap
<1> QED
  BY <1>3, <1>4, EmptyCacheFacts DEF format, IInv, TypeOK, AstrayEmpty

LEMMA FinalCutKeeps ==
  ASSUME IInv, NEW cut \in Cuts, final_cut(cut) PROVE IInv'
<1> DEFINE bits == [id \in Mapped |-> IF id < cut THEN map[id] ELSE disk[Block0][0][id]]
<1>1. bits \in Bitmap
  BY DEF IInv, TypeOK, Bitmap
<1>2. [disk[Block0] EXCEPT ![0] = bits] \in [Offset -> Value]
  BY <1>1, Block0Facts DEF IInv, TypeOK, Value
<1>3. disk' = [disk EXCEPT ![Block0] = [disk[Block0] EXCEPT ![0] = bits]]
  BY DEF final_cut
<1>4. disk' \in [Block -> [Offset -> Value]] /\ disk'[Block0][0] = bits
  BY <1>2, <1>3, Block0Facts DEF IInv, TypeOK
<1> QED
  BY <1>1, <1>4, EmptyCacheFacts DEF final_cut, IInv, TypeOK, AstrayEmpty

LEMMA FormatCutKeeps ==
  ASSUME IInv, NEW cut \in Cuts, NEW o \in 0 .. ZONES_PER_BLOCK, format_cut(cut, o)
  PROVE  IInv'
<1> DEFINE bits == [id \in Mapped |-> IF id < cut THEN UNOCCUPIED ELSE disk[Block0][0][id]]
           left == [k \in Offset |-> IF k = 0 THEN bits
                                     ELSE IF k < o THEN Blank ELSE disk[Block0][k]]
<1>1. bits \in Bitmap
  BY DEF IInv, TypeOK, Bitmap, State, UNOCCUPIED, I_OCCUPIED
<1>2. left \in [Offset -> Value] /\ left[0] = bits
  BY <1>1, Block0Facts, ValueAssumption DEF IInv, TypeOK, Value
<1>3. disk' = [disk EXCEPT ![Block0] = left]
  BY DEF format_cut
<1>4. disk' \in [Block -> [Offset -> Value]] /\ disk'[Block0][0] = bits
  BY <1>2, <1>3, Block0Facts DEF IInv, TypeOK
<1> QED
  BY <1>1, <1>4, EmptyCacheFacts DEF format_cut, IInv, TypeOK, AstrayEmpty

LEMMA ReadKeeps ==
  ASSUME IInv, NEW id \in Usable, read_zone(id) PROVE IInv'
<1>1. /\ cache' \in [Group -> [Way -> Line \cup {NULL}]]
      /\ CacheCoherent' /\ OneCopy'
  BY BitmapPlaceIsReserved, Located, FrontOfFetch DEF read_zone
<1> QED
  BY <1>1 DEF read_zone, IInv, TypeOK, AstrayEmpty

LEMMA WriteKeeps ==
  ASSUME IInv, NEW id \in Usable, NEW val \in Payload, write_zone(id, val)
  PROVE  IInv'
<1> DEFINE b == BlockOf(id)
           line == Stored(Fetch(b), OffsetOf(id), val)
<1>1. b \in Block /\ OffsetOf(id) \in Offset
  BY BitmapPlaceIsReserved, Located
<1>2. Fetch(b) \in Line /\ Fetch(b).at = b /\ Fetch(b).data = disk[b]
  BY <1>1, FetchIsFresh
<1>3. line.at = b /\ line.data = [disk[b] EXCEPT ![OffsetOf(id)] = val]
  BY <1>2 DEF Stored, Line
<1>4. line \in Line
  BY <1>1, <1>2 DEF Stored, Line, Value
<1>5. cache' = Front(b, line) /\ disk' = [disk EXCEPT ![b] = line.data]
  BY DEF write_zone
<1>6. /\ cache' \in [Group -> [Way -> Line \cup {NULL}]]
      /\ CacheCoherent' /\ OneCopy'
  BY <1>1, <1>3, <1>4, <1>5, FrontKeepsCoherence
<1>7. disk' \in [Block -> [Offset -> Value]]
  BY <1>1, <1>4, <1>5 DEF Line, IInv, TypeOK
<1>8. disk'[Block0][0] = disk[Block0][0]
  BY <1>1, <1>3, <1>5, Block0Facts, BitmapPlaceIsReserved DEF IInv, TypeOK
<1> QED
  BY <1>6, <1>7, <1>8 DEF write_zone, IInv, TypeOK, AstrayEmpty

\* A server gone astray leaves some bitmap in its place, and zones elsewhere.
LEMMA AstrayKeeps == ASSUME IInv, NEW b \in Block, astray(b) PROVE IInv'
<1>1. PICK bits \in [Mapped -> Junk], data \in [Offset -> Payload] :
        disk' = [disk EXCEPT ![b] = IF b = Block0 THEN [data EXCEPT ![0] = bits] ELSE data]
  BY DEF astray
<1>2. bits \in Bitmap
  BY GeometryAssumption DEF Bitmap
<1>3. /\ disk' \in [Block -> [Offset -> Value]]
      /\ disk'[Block0][0] \in Bitmap
  BY <1>1, <1>2, Block0Facts DEF IInv, TypeOK, Value
<1>4. cache = EmptyCache => cache' = EmptyCache
  BY DEF astray
<1> QED
  BY <1>3, <1>4, EmptyCacheFacts DEF astray, IInv, TypeOK, AstrayEmpty

LEMMA NextIInv == IInv /\ [Next]_vars => IInv'
<1> SUFFICES ASSUME IInv, [Next]_vars PROVE IInv'
  OBVIOUS
<1>1. ASSUME NEW p \in {"server", "format"}, alloc_init(p) PROVE IInv'
  BY <1>1, InitCallKeeps
<1>2. CASE Crash
  BY <1>2, EmptyCacheFacts DEF Crash, IInv, TypeOK, AstrayEmpty
<1>3. ASSUME NEW id \in {-1, 0}, read_refused(id) PROVE IInv'
  BY <1>3 DEF read_refused, IInv, TypeOK, CacheCoherent, OneCopy, AstrayEmpty
<1>4. ASSUME NEW s \in Requests, get_free_id(s) PROVE IInv'
  BY <1>4, GeometryAssumption
  DEF get_free_id, Bitmap, IInv, TypeOK, CacheCoherent, OneCopy, AstrayEmpty
<1>5. CASE get_free_id_fails
  BY <1>5
  DEF get_free_id_fails, IInv, TypeOK, CacheCoherent, OneCopy, AstrayEmpty
<1>6. ASSUME NEW id \in Usable, set_free_id(id) PROVE IInv'
  BY <1>6
  DEF set_free_id, IInv, TypeOK, CacheCoherent, OneCopy, AstrayEmpty,
      Bitmap, State, UNOCCUPIED, I_OCCUPIED
<1>8. CASE get_free_id_past
  BY <1>8, EmptyCacheFacts DEF get_free_id_past, IInv, TypeOK, AstrayEmpty
<1>9. ASSUME NEW id \in Usable, set_free_id_past(id) PROVE IInv'
  BY <1>9, EmptyCacheFacts DEF set_free_id_past, IInv, TypeOK, AstrayEmpty
<1>7. CASE UNCHANGED vars
  BY <1>7 DEF vars, IInv, TypeOK, CacheCoherent, OneCopy, AstrayEmpty
<1> QED
  BY <1>1, <1>2, <1>3, <1>4, <1>5, <1>6, <1>7, <1>8, <1>9, FinalKeeps, FormatKeeps,
     FinalCutKeeps, FormatCutKeeps, ReadKeeps, WriteKeeps, AstrayKeeps DEF Next

-----------------------------------------------------------------------------
LEMMA Invariance == Spec => []IInv
BY InitIInv, NextIInv, PTL DEF Spec

\* The types, and with them that the states the bitmap holds are the four the
\* two bits of set_state can hold and that no write reaches its place.
THEOREM TypeCorrect == Spec => []TypeOK
BY Invariance, PTL DEF IInv

\* get_block never serves, and write_block never puts back, a stale block.
THEOREM Coherent == Spec => []CacheCoherent
BY Invariance, PTL DEF IInv

\* get_block keeps at most one copy of a block, where it will look for it.
THEOREM CachedOnce == Spec => []OneCopy
BY Invariance, PTL DEF IInv

-----------------------------------------------------------------------------
\* What an orderly end left on disk is the bitmap in memory, and nothing
\* touches either until the next start.
SavedAtRest == proc = "off" => disk[Block0][0] = map

LEMMA SavedInvariance == Spec => []SavedAtRest
<1>1. Init => SavedAtRest
  BY Block0Facts DEF Init, SavedAtRest
<1>2. IInv /\ SavedAtRest /\ [Next]_vars => SavedAtRest'
  <2> SUFFICES ASSUME IInv, SavedAtRest, [Next]_vars, proc' = "off"
               PROVE  disk'[Block0][0] = map'
    BY DEF SavedAtRest
  <2>1. CASE alloc_final
    <3>1. Fetch(Block0) \in Line
      BY Block0Facts, FetchIsFresh
    <3>2. Stored(Fetch(Block0), 0, map).data[0] = map
      BY <3>1, Block0Facts DEF Stored, Line
    <3> QED
      BY <2>1, <3>2, Block0Facts DEF alloc_final, IInv, TypeOK
  <2>2. CASE UNCHANGED vars
    BY <2>2 DEF vars, SavedAtRest
  <2>3. CASE Next /\ ~alloc_final
    BY <2>3 DEF Next, alloc_init, format, Crash, final_cut, format_cut, read_zone,
                read_refused, write_zone, get_free_id, get_free_id_past, get_free_id_fails,
                set_free_id, set_free_id_past, astray
  <2> QED
    BY <2>1, <2>2, <2>3
<1> QED
  BY <1>1, <1>2, Invariance, PTL DEF Spec

\* write_zone writes block 0 with the bitmap it had from the disk.
LEMMA BitmapStays ==
  ASSUME IInv, NEW id \in Usable, NEW val \in Payload, write_zone(id, val)
  PROVE  disk'[Block0][0] = disk[Block0][0]
<1> DEFINE b == BlockOf(id)
<1>1. b \in Block /\ OffsetOf(id) \in Offset
  BY BitmapPlaceIsReserved, Located
<1>2. Stored(Fetch(b), OffsetOf(id), val).data = [disk[b] EXCEPT ![OffsetOf(id)] = val]
  BY <1>1, FetchIsFresh DEF Stored, Line
<1>3. disk' = [disk EXCEPT ![b] = [disk[b] EXCEPT ![OffsetOf(id)] = val]]
  BY <1>2 DEF write_zone
<1> QED
  BY <1>1, <1>3, Block0Facts, BitmapPlaceIsReserved DEF IInv, TypeOK

\* The states of zones go from session to session through alloc_final and
\* alloc_init alone, for a bitmap of whatever length.
THEOREM Survives == Spec => StatesSurvive
<1>1. ASSUME IInv, SavedAtRest, Next, proc = "off", proc' = "server" PROVE map' = map
  <2>1. alloc_init("server")
    BY <1>1 DEF Next, alloc_init, alloc_final, format, Crash, final_cut, format_cut,
           read_zone, read_refused, write_zone, get_free_id, get_free_id_past,
           get_free_id_fails, set_free_id, set_free_id_past, astray, Running
  <2> QED
    BY <1>1, <2>1, Block0Facts, FetchIsFresh DEF alloc_init, SavedAtRest
<1>2. ASSUME IInv, Next, proc = "server", proc' = "server"
      PROVE  disk'[Block0][0] = disk[Block0][0]
  <2>1. \/ \E id \in Usable, val \in Payload : write_zone(id, val)
        \/ UNCHANGED disk
    BY <1>2 DEF Next, alloc_init, alloc_final, format, Crash, final_cut, format_cut,
           read_zone, read_refused, get_free_id, get_free_id_past, get_free_id_fails,
           set_free_id, set_free_id_past, astray
  <2> QED
    BY <1>2, <2>1, BitmapStays
<1>3. IInv /\ SavedAtRest /\ [Next]_vars =>
        [/\ proc = "off" /\ proc' = "server" => map' = map
         /\ proc = "server" /\ proc' = "server" => disk'[Block0][0] = disk[Block0][0]]_vars
  BY <1>1, <1>2
<1> QED
  BY <1>3, Invariance, SavedInvariance, PTL DEF Spec, StatesSurvive

-----------------------------------------------------------------------------
\* The zone array of ZoneStore, as the mapping of Alloc computes it.
ZoneArray == [id \in Usable |-> disk[BlockOf(id)][OffsetOf(id)]]

\* Zones of block 0 apart, a change of that block is invisible in the array
\* when it is to offset 0 only.
LEMMA BitmapWriteIsInvisible ==
  ASSUME IInv, NEW bits,
         disk' = [disk EXCEPT ![Block0] = [disk[Block0] EXCEPT ![0] = bits]]
  PROVE  ZoneArray' = ZoneArray
<1> SUFFICES ASSUME NEW id \in Usable
             PROVE  disk'[BlockOf(id)][OffsetOf(id)] = disk[BlockOf(id)][OffsetOf(id)]
  BY DEF ZoneArray
<1>1. BlockOf(id) \in Block /\ OffsetOf(id) \in Offset
  BY BitmapPlaceIsReserved, Located
<1>2. disk[Block0] \in [Offset -> Value]
  BY Block0Facts DEF IInv, TypeOK
<1> QED
  BY <1>1, <1>2, Block0Facts, BitmapPlaceIsReserved DEF IInv, TypeOK

\* Only the bitmap is where the bitmap is.
Placed ==
  \A b \in Block, o \in Offset : ~(b = Block0 /\ o = 0) => disk[b][o] \in Payload

LEMMA AstrayPlaces ==
  ASSUME IInv, Placed, NEW b \in Block, astray(b) PROVE Placed'
<1>1. PICK bits \in [Mapped -> Junk], data \in [Offset -> Payload] :
        disk' = [disk EXCEPT ![b] = IF b = Block0 THEN [data EXCEPT ![0] = bits] ELSE data]
  BY DEF astray
<1>2. ASSUME NEW a \in Block, NEW o \in Offset, ~(a = Block0 /\ o = 0)
      PROVE  disk'[a][o] \in Payload
  BY <1>1, <1>2, Block0Facts DEF IInv, TypeOK, Placed
<1> QED
  BY <1>2 DEF Placed

LEMMA PlacedInvariance == Spec => []Placed
<1>1. Init => Placed
  BY ValueAssumption DEF Init, Placed
<1>2. IInv /\ Placed /\ [Next]_vars => Placed'
  <2> SUFFICES ASSUME IInv, Placed, [Next]_vars PROVE Placed'
    OBVIOUS
  <2>1. CASE alloc_final
    <3>1. Stored(Fetch(Block0), 0, map).data = [disk[Block0] EXCEPT ![0] = map]
      BY Block0Facts, FetchIsFresh DEF Stored, Line
    <3>2. disk' = [disk EXCEPT ![Block0] = [disk[Block0] EXCEPT ![0] = map]]
      BY <2>1, <3>1 DEF alloc_final
    <3> QED
      BY <3>2, Block0Facts DEF IInv, TypeOK, Placed
  <2>2. CASE format
    BY <2>2, Block0Facts, ValueAssumption DEF format, IInv, TypeOK, Placed
  <2>3. ASSUME NEW cut \in Cuts, final_cut(cut) PROVE Placed'
    BY <2>3, Block0Facts DEF final_cut, IInv, TypeOK, Placed
  <2>4. ASSUME NEW cut \in Cuts, NEW o \in 0 .. ZONES_PER_BLOCK, format_cut(cut, o)
        PROVE  Placed'
    BY <2>4, Block0Facts, ValueAssumption DEF format_cut, IInv, TypeOK, Placed
  <2>5. ASSUME NEW id \in Usable, NEW val \in Payload, write_zone(id, val) PROVE Placed'
    <3> DEFINE b == BlockOf(id)
    <3>1. b \in Block /\ OffsetOf(id) \in Offset
      BY BitmapPlaceIsReserved, Located
    <3>2. Stored(Fetch(b), OffsetOf(id), val).data = [disk[b] EXCEPT ![OffsetOf(id)] = val]
      BY <3>1, FetchIsFresh DEF Stored, Line
    <3>3. disk' = [disk EXCEPT ![b] = [disk[b] EXCEPT ![OffsetOf(id)] = val]]
      BY <2>5, <3>2 DEF write_zone
    <3> QED
      BY <3>1, <3>3 DEF IInv, TypeOK, Placed
  <2>6. ASSUME UNCHANGED disk PROVE Placed'
    BY <2>6 DEF Placed
  <2> QED
    BY <2>1, <2>2, <2>3, <2>4, <2>5, <2>6, AstrayPlaces
    DEF Next, alloc_init, Crash, read_zone, read_refused, get_free_id, get_free_id_past,
        get_free_id_fails, set_free_id, set_free_id_past, vars
<1> QED
  BY <1>1, <1>2, Invariance, PTL DEF Spec

\* The allocator behaves as an array of zones with saved states: no read,
\* write, eviction, reload, format or crash shows the cache to a caller, as
\* long as no zone without bits is asked for.
THEOREM Refinement == Spec => Implements
<1>1. Init => ZS!Init
  <2> SUFFICES ASSUME Init PROVE ZS!Init
    OBVIOUS
  <2>1. Opened = "no"
    BY DEF Init, Running, Opened
  <2>2. ZoneArray = [id \in Usable |-> Blank]
    BY BitmapPlaceIsReserved, Located DEF Init, ZoneArray
  <2>3. disk[Block0][0] = [id \in Mapped |-> UNOCCUPIED]
    BY Block0Facts DEF Init, NoneOccupied
  <2> QED
    BY SMTT(30), <2>1, <2>2, <2>3 DEF Init, ZS!Init, ZoneArray, NoneOccupied
<1>2. ASSUME IInv, IInv', Placed', Next PROVE ZS!Next \/ UNCHANGED ZS!vars
  <2>1. ASSUME NEW p \in {"server", "format"}, alloc_init(p) PROVE ZS!Open
    <3>1. map' = disk[Block0][0]
      BY <1>2, <2>1, Block0Facts, FetchIsFresh DEF alloc_init
    <3>2. Opened' = "yes" /\ Opened = "no"
      BY <2>1 DEF alloc_init, Running, Opened
    <3> QED
      BY <1>2, <2>1, <3>1, <3>2 DEF alloc_init, ZS!Open
  <2>2. ASSUME alloc_final PROVE ZS!Close
    <3> DEFINE bits == map
    <3>1. Stored(Fetch(Block0), 0, bits).data = [disk[Block0] EXCEPT ![0] = bits]
      BY Block0Facts, FetchIsFresh, <1>2 DEF Stored, Line
    <3>2. disk' = [disk EXCEPT ![Block0] = [disk[Block0] EXCEPT ![0] = bits]]
      BY <2>2, <3>1 DEF alloc_final
    <3>3. ZoneArray' = ZoneArray
      BY <1>2, <3>2, BitmapWriteIsInvisible
    <3>4. disk'[Block0][0] = bits
      BY <1>2, <3>2, Block0Facts DEF IInv, TypeOK
    <3> QED
      BY <2>2, <3>3, <3>4 DEF alloc_final, ZS!Close, Running, Opened, ZoneArray
  <2>3. ASSUME format PROVE ZS!Format
    <3> DEFINE clear == [o \in Offset |-> IF o = 0 THEN NoneOccupied ELSE Blank]
    <3>1. disk' = [disk EXCEPT ![Block0] = clear]
      BY <2>3 DEF format
    <3>2. disk'[Block0][0] = NoneOccupied
      BY <1>2, <3>1, Block0Facts DEF IInv, TypeOK
    <3>3. ASSUME NEW id \in Usable
          PROVE  disk'[BlockOf(id)][OffsetOf(id)] =
                   IF BlockOf(id) = Block0 THEN Blank
                   ELSE disk[BlockOf(id)][OffsetOf(id)]
      BY <1>2, <3>1, BitmapPlaceIsReserved, Located, Block0Facts DEF IInv, TypeOK
    <3>4. ZoneArray' = [id \in Usable |->
                          IF id \in {j \in Usable : BlockOf(j) = Block0} THEN Blank
                          ELSE ZoneArray[id]]
      BY <3>3 DEF ZoneArray
    <3>5. map' = [id \in Mapped |-> IF id = RESERVED THEN D_OCCUPIED ELSE UNOCCUPIED]
      BY <2>3 DEF format, NoneOccupied
    <3>6. Opened = "yes" /\ Opened' = "yes" /\ UNCHANGED out
      BY <2>3 DEF format, Running, Opened
    <3> QED
      BY <3>2, <3>4, <3>5, <3>6 DEF ZS!Format, ZoneArray, NoneOccupied
  <2>4. ASSUME Crash PROVE ZS!Crash
    BY <2>4 DEF Crash, ZS!Crash, Running, Opened
  <2>5. ASSUME NEW id \in Usable, read_zone(id) PROVE ZS!Read(id)
    <3>1. Fetch(BlockOf(id)).data = disk[BlockOf(id)]
      BY <1>2, BitmapPlaceIsReserved, Located, FetchIsFresh
    <3> QED
      BY <2>5, <3>1 DEF read_zone, ZS!Read, Running, Opened
  <2>6. ASSUME NEW id \in {-1, 0}, read_refused(id) PROVE ZS!Refuse
    BY <2>6 DEF read_refused, ZS!Refuse, Running, Opened
  <2>7. ASSUME NEW id \in Usable, NEW val \in Payload, write_zone(id, val)
        PROVE  ZS!Write(id, val)
    <3> DEFINE b == BlockOf(id)
    <3>1. id \in Zone /\ b \in Block /\ OffsetOf(id) \in Offset
      BY BitmapPlaceIsReserved, Located
    <3>2. Stored(Fetch(b), OffsetOf(id), val).data
            = [disk[b] EXCEPT ![OffsetOf(id)] = val]
      BY <1>2, <3>1, FetchIsFresh DEF Stored, Line
    <3>3. disk' = [disk EXCEPT ![b] = [disk[b] EXCEPT ![OffsetOf(id)] = val]]
      BY <2>7, <3>2 DEF write_zone
    <3>4. ASSUME NEW j \in Usable
          PROVE  disk'[BlockOf(j)][OffsetOf(j)] =
                   IF j = id THEN val ELSE disk[BlockOf(j)][OffsetOf(j)]
      <4>1. j \in Zone /\ BlockOf(j) \in Block /\ OffsetOf(j) \in Offset
        BY BitmapPlaceIsReserved, Located
      <4>2. BlockOf(j) # b \/ OffsetOf(j) # OffsetOf(id) \/ j = id
        BY <3>1, <4>1, PlaceIsUnique
      <4> QED
        BY <1>2, <3>1, <3>3, <4>1, <4>2 DEF IInv, TypeOK
    <3>5. ZoneArray' = [ZoneArray EXCEPT ![id] = val]
      BY <3>4 DEF ZoneArray
    <3>6. disk'[Block0][0] = disk[Block0][0]
      BY <1>2, <3>1, <3>3, Block0Facts, BitmapPlaceIsReserved DEF IInv, TypeOK
    <3> QED
      BY <2>7, <3>5, <3>6 DEF write_zone, ZS!Write, Running, Opened, ZoneArray
  <2>8. ASSUME NEW s \in Requests, get_free_id(s)
        PROVE  s \in State \ {UNOCCUPIED} /\ ZS!Take(s)
    BY <2>8, GeometryAssumption DEF get_free_id, ZS!Take, Running, Opened
  <2>9. ASSUME get_free_id_fails PROVE ZS!TakeFails
    BY <2>9 DEF get_free_id_fails, NoneFree, ZS!TakeFails, Running, Opened
  <2>10. ASSUME NEW id \in Usable, set_free_id(id) PROVE ZS!Give(id)
    BY <2>10 DEF set_free_id, ZS!Give, Running, Opened
  <2>11. ASSUME NEW cut \in Cuts, final_cut(cut) PROVE ZS!CrashClosing
    <3> DEFINE bits == [id \in Mapped |->
                          IF id < cut THEN map[id] ELSE disk[Block0][0][id]]
    <3>1. disk' = [disk EXCEPT ![Block0] = [disk[Block0] EXCEPT ![0] = bits]]
      BY <2>11 DEF final_cut
    <3>2. ZoneArray' = ZoneArray
      BY <1>2, <3>1, BitmapWriteIsInvisible
    <3>3. disk'[Block0][0] = bits
      BY <1>2, <3>1, Block0Facts DEF IInv, TypeOK
    <3>4. bits \in [Mapped -> State]
      BY <1>2 DEF IInv, TypeOK, Bitmap
    <3>5. Opened = "yes" /\ Opened' = "no" /\ UNCHANGED <<map, out>>
      BY <2>11 DEF final_cut, Running, Opened
    <3> QED
      BY <3>2, <3>3, <3>4, <3>5 DEF ZS!CrashClosing, ZoneArray
  <2>12. ASSUME NEW cut \in Cuts, NEW o \in 0 .. ZONES_PER_BLOCK, format_cut(cut, o)
         PROVE  ZS!CrashFormatting
    <3> DEFINE bits == [id \in Mapped |->
                          IF id < cut THEN UNOCCUPIED ELSE disk[Block0][0][id]]
               left == [k \in Offset |-> IF k = 0 THEN bits
                                         ELSE IF k < o THEN Blank ELSE disk[Block0][k]]
    <3>1. disk' = [disk EXCEPT ![Block0] = left]
      BY <2>12 DEF format_cut
    <3>2. disk'[Block0][0] = bits
      BY <1>2, <3>1, Block0Facts DEF IInv, TypeOK
    <3>3. bits \in [Mapped -> State]
      BY <1>2 DEF IInv, TypeOK, Bitmap, State, UNOCCUPIED, I_OCCUPIED
    <3>4. ASSUME NEW id \in Usable
          PROVE  disk'[BlockOf(id)][OffsetOf(id)] =
                   IF BlockOf(id) = Block0 /\ OffsetOf(id) < o THEN Blank
                   ELSE disk[BlockOf(id)][OffsetOf(id)]
      <4>1. /\ BlockOf(id) \in Block /\ OffsetOf(id) \in Offset
            /\ ~(BlockOf(id) = Block0 /\ OffsetOf(id) = 0)
        BY BitmapPlaceIsReserved, Located
      <4>2. CASE BlockOf(id) = Block0
        BY <1>2, <3>1, <4>1, <4>2, Block0Facts DEF IInv, TypeOK
      <4>3. CASE BlockOf(id) # Block0
        BY <1>2, <3>1, <4>1, <4>3, Block0Facts DEF IInv, TypeOK
      <4> QED
        BY <4>2, <4>3
    <3> DEFINE cleared == {id \in Usable : BlockOf(id) = Block0 /\ OffsetOf(id) < o}
    <3>6. /\ cleared \in SUBSET {id \in Usable : BlockOf(id) = Block0}
          /\ ZoneArray' = [id \in Usable |-> IF id \in cleared THEN Blank ELSE ZoneArray[id]]
      BY <3>4 DEF ZoneArray
    <3>5. Opened = "yes" /\ Opened' = "no" /\ UNCHANGED <<map, out>>
      BY <2>12 DEF format_cut, Running, Opened
    <3>7. /\ disk'[Block0][0] \in [Mapped -> State]
          /\ \A id \in Mapped : disk'[Block0][0][id] \in {disk[Block0][0][id], UNOCCUPIED}
      BY <3>2, <3>3
    <3>8. \E c \in SUBSET {id \in Usable : BlockOf(id) = Block0} :
            ZoneArray' = [id \in Usable |-> IF id \in c THEN Blank ELSE ZoneArray[id]]
      <4> HIDE DEF cleared
      <4> QED
        BY <3>6
    <3> QED
      <4> HIDE DEF bits, left, cleared
      <4> QED
        BY <3>5, <3>7, <3>8 DEF ZS!CrashFormatting, ZoneArray
  <2>13. ASSUME get_free_id_past PROVE ZS!Overrun
    BY <2>13 DEF get_free_id_past, NoneFree, ZS!Overrun, Running, Opened
  <2>14. ASSUME NEW id \in Usable, set_free_id_past(id) PROVE ZS!Give(id)
    BY <2>14 DEF set_free_id_past, ZS!Give, Running, Opened
  <2>15. ASSUME NEW b \in Block, astray(b) PROVE ZS!Stray
    <3>1. ZoneArray' \in [Usable -> Payload]
      <4>1. ASSUME NEW id \in Usable PROVE disk'[BlockOf(id)][OffsetOf(id)] \in Payload
        BY <1>2, BitmapPlaceIsReserved, Located DEF Placed
      <4> QED
        BY <4>1 DEF ZoneArray
    <3>2. disk'[Block0][0] \in [Mapped -> State]
      BY <1>2 DEF IInv, TypeOK, Bitmap
    <3>3. Opened = "lost" /\ UNCHANGED <<Opened, map, out>>
      BY <2>15 DEF astray, Running, Opened
    <3> QED
      BY <3>1, <3>2, <3>3 DEF ZS!Stray, ZoneArray
  <2> QED
    BY <1>2, <2>1, <2>2, <2>3, <2>4, <2>5, <2>6, <2>7, <2>8, <2>9, <2>10, <2>11, <2>12,
       <2>13, <2>14, <2>15
    DEF Next, ZS!Next
<1>3. UNCHANGED vars => UNCHANGED ZS!vars
  BY DEF vars, ZS!vars, Running, Opened
<1>4. IInv /\ IInv' /\ Placed' /\ [Next]_vars => [ZS!Next]_(ZS!vars)
  BY <1>2, <1>3
<1> QED
  BY <1>1, <1>4, Invariance, PlacedInvariance, PTL DEF Spec, Implements, ZS!Spec
=============================================================================
